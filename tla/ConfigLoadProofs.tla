-------------------------- MODULE ConfigLoadProofs --------------------------
(***************************************************************************)
(* Proofs about ConfigLoad, for any files, variables, flags and options,   *)
(* and whatever lower(), int() and the like make of a text.                *)
(***************************************************************************)
EXTENDS ConfigLoad, SequenceTheorems, WellFoundedInduction, TLAPS

-----------------------------------------------------------------------------
(* Paths. *)

LEMMA PathsAreLong ==
    ASSUME NEW p \in Paths
    PROVE  p \in Seq(STRING) /\ Len(p) \in Nat /\ Len(p) >= 1 /\ DOMAIN p = 1..Len(p)
  BY LenProperties, EmptySeq DEF Paths

LEMMA LeadsSelf == ASSUME NEW p \in Paths PROVE Leads(p, p)
  BY PathsAreLong DEF Leads

LEMMA LeadsOn ==
    ASSUME NEW p \in Paths, NEW q \in Paths, NEW r \in Paths, Leads(p, q), Leads(q, r)
    PROVE  Leads(p, r)
  BY PathsAreLong DEF Leads

LEMMA LeadsBoth ==
    ASSUME NEW p \in Paths, NEW q \in Paths, Leads(p, q), Leads(q, p)
    PROVE  p = q
<1>1. Len(p) = Len(q) /\ \A i \in 1..Len(p) : p[i] = q[i]
  BY PathsAreLong DEF Leads
<1> QED  BY <1>1, PathsAreLong, SeqEqual

\* Of two paths that lead to a third one leads to the other.
LEMMA LeadsEither ==
    ASSUME NEW p \in Paths, NEW q \in Paths, NEW r \in Paths, Leads(p, r), Leads(q, r)
    PROVE  Leads(p, q) \/ Leads(q, p)
  BY PathsAreLong DEF Leads

LEMMA UpToLeads ==
    ASSUME NEW p \in Paths, NEW q
    PROVE  q \in UpTo(p) <=> q \in Paths /\ Leads(q, p)
<1>0. p \in Seq(STRING) /\ Len(p) \in Nat
  BY PathsAreLong
<1>1. ASSUME NEW n \in 1..Len(p)
      PROVE  SubSeq(p, 1, n) \in Paths /\ Leads(SubSeq(p, 1, n), p)
  <2>1. /\ SubSeq(p, 1, n) \in Seq(STRING) /\ Len(SubSeq(p, 1, n)) = n
        /\ \A i \in 1..n : SubSeq(p, 1, n)[i] = p[i]
    BY <1>0, <1>1
  <2>2. SubSeq(p, 1, n) # <<>>
    BY <2>1, EmptySeq
  <2> QED  BY <1>0, <2>1, <2>2 DEF Paths, Leads
<1>2. ASSUME q \in Paths, Leads(q, p)
      PROVE  Len(q) \in 1..Len(p) /\ q = SubSeq(p, 1, Len(q))
  <2>1. Len(q) \in 1..Len(p) /\ q \in Seq(STRING) /\ \A i \in 1..Len(q) : q[i] = p[i]
    BY <1>0, <1>2, PathsAreLong DEF Leads
  <2>2. /\ SubSeq(p, 1, Len(q)) \in Seq(STRING)
        /\ Len(SubSeq(p, 1, Len(q))) = Len(q)
        /\ \A i \in 1..Len(q) : SubSeq(p, 1, Len(q))[i] = q[i]
    BY <1>0, <2>1
  <2> QED  BY <2>1, <2>2, SeqEqual
<1> QED  BY <1>1, <1>2 DEF UpTo

LEMMA LowerType == ASSUME NEW t \in STRING PROVE Lower(t) \in STRING
  BY TextAssumption DEF Lower

LEMMA PathType ==
    ASSUME NEW w \in Seq(STRING)
    PROVE  /\ Path(w) \in Seq(STRING) /\ Len(Path(w)) = Len(w)
           /\ \A i \in 1..Len(w) : Path(w)[i] = Lower(w[i])
           /\ w # <<>> => Path(w) \in Paths
<1>1. DOMAIN w = 1..Len(w) /\ Len(w) \in Nat /\ \A i \in 1..Len(w) : w[i] \in STRING
  BY LenProperties, ElementOfSeq
<1>2. Path(w) = [i \in 1..Len(w) |-> Lower(w[i])]
  BY <1>1 DEF Path
<1>3. Path(w) \in Seq(STRING) /\ Len(Path(w)) = Len(w)
  <2>1. Path(w) \in [1..Len(w) -> STRING]
    BY <1>1, <1>2, LowerType
  <2> QED  BY <1>1, <2>1, SeqDef
<1> QED  BY <1>2, <1>3, EmptySeq DEF Paths

-----------------------------------------------------------------------------
(* Mappings: what is in them is below mappings in them.                    *)
Mappings(V) == UNION {[D -> V] : D \in SUBSET Paths}

Tree(data) ==
    /\ data \in Mappings(Values)
    /\ \A p \in DOMAIN data : \A q \in Paths :
          Above(q, p) => q \in DOMAIN data /\ IsMap(data[q])

LEMMA MappingType ==
    ASSUME NEW V, NEW m \in Mappings(V)
    PROVE  /\ DOMAIN m \subseteq Paths /\ \A p \in DOMAIN m : m[p] \in V
           /\ m = [p \in DOMAIN m |-> m[p]]
  BY DEF Mappings

LEMMA EmptyType == ASSUME NEW V PROVE Empty \in Mappings(V) /\ DOMAIN Empty = {}
  BY DEF Mappings, Empty

LEMMA ValueTypes ==
    /\ None \notin Values /\ Dict \in Values /\ Null \in Values
    /\ \A t \in STRING : {Str(t), Bool(t), Number(t), Float(t)} \subseteq Values
    /\ IsMap(Dict) /\ ~IsMap(Null)
    /\ \A t : ~IsMap(Str(t)) /\ ~IsMap(Bool(t)) /\ ~IsMap(Number(t)) /\ ~IsMap(Float(t))
    /\ \A v \in Values : IsMap(v) => v = Dict
  BY DEF Values, Scalars, Lists, None, Null, Dict, Str, Bool, Number, Float, IsMap

-----------------------------------------------------------------------------
(* The last word. *)
SourceNames == {"default", "env-file", "local", "env", "flags"}
Sayings == [source : SourceNames, words : Mappings(Values), texts : Mappings(STRING)]

\* What saying s has on a path that it names.
Word(s, p) == IF p \in DOMAIN s.words THEN s.words[p] ELSE Dict

LEMMA WordType ==
    ASSUME NEW s \in Sayings, NEW p
    PROVE  Word(s, p) \in Values /\ DOMAIN s.words \subseteq Paths
  BY MappingType, ValueTypes DEF Sayings, Word

\* Saying i is the last with a say on p.
Lasts(i, p) ==
    /\ i \in DOMAIN said /\ Decides(said[i], p)
    /\ \A j \in i+1..Len(said) : ~Decides(said[j], p)

\* There is such a one for what is named at all.
LastsFound == \A p \in Spoken : \E i \in DOMAIN said : Lasts(i, p)

\* In any sequence of sayings, of which there are two in a step.
LEMMA OneIsLast ==
    ASSUME NEW words \in Seq(Sayings), NEW p, NEW i \in DOMAIN words,
           Decides(words[i], p), \A j \in i+1..Len(words) : ~Decides(words[j], p)
    PROVE  i = CHOOSE k \in DOMAIN words :
                  Decides(words[k], p) /\ \A j \in k+1..Len(words) : ~Decides(words[j], p)
<1>1. DOMAIN words = 1..Len(words) /\ Len(words) \in Nat
  BY LenProperties
<1> DEFINE P(k) == Decides(words[k], p) /\ \A j \in k+1..Len(words) : ~Decides(words[j], p)
<1>2. ASSUME NEW k \in DOMAIN words, P(k)
      PROVE  k = i
  <2>1. ~(k < i) /\ ~(i < k)
    BY <1>1, <1>2
  <2> QED  BY <1>1, <2>1
<1>3. P(i)
  OBVIOUS
<1> HIDE DEF P
<1>4. i = CHOOSE k \in DOMAIN words : P(k)
  BY <1>2, <1>3
<1> QED  BY <1>4 DEF P

LEMMA NamedIs ==
    ASSUME NEW words \in Seq(Sayings), NEW p
    PROVE  p \in UNION {UNION {UpTo(q) : q \in DOMAIN words[i].words} : i \in DOMAIN words}
             <=> p \in Paths /\ \E i \in DOMAIN words : Names(words[i], p)
<1>1. \A i \in DOMAIN words : DOMAIN words[i].words \subseteq Paths
  BY WordType, ElementOfSeq, LenProperties
<1>2. \A i \in DOMAIN words : \A q \in DOMAIN words[i].words :
         p \in UpTo(q) <=> p \in Paths /\ Leads(p, q)
  BY <1>1, UpToLeads
<1> QED  BY <1>2 DEF Names

LEMMA LastOnIs ==
    ASSUME said \in Seq(Sayings), NEW p, NEW i \in DOMAIN said, Lasts(i, p)
    PROVE  LastOn(p) = said[i]
<1>1. i = CHOOSE k \in DOMAIN said :
             Decides(said[k], p) /\ \A j \in k+1..Len(said) : ~Decides(said[j], p)
  BY OneIsLast DEF Lasts
<1> QED  BY <1>1 DEF LastOn

LEMMA SpokenIs ==
    ASSUME said \in Seq(Sayings), NEW p
    PROVE  p \in Spoken <=> p \in Paths /\ \E i \in DOMAIN said : Names(said[i], p)
  BY NamedIs DEF Spoken

LEMMA ToldIs ==
    ASSUME NEW p
    PROVE  p \in Told <=> SaidOn(p) # None
  BY DEF Told, SaidOn

\* What can be on a path.
LEMMA SaidOnType ==
    ASSUME said \in Seq(Sayings), LastsFound, NEW p
    PROVE  /\ SaidOn(p) \in Values \cup {None}
           /\ p \in Told => p \in Spoken /\ p \in Paths
<1>1. p \in Spoken => LastOn(p) \in Sayings
  BY LastOnIs, ElementOfSeq, LenProperties DEF LastsFound
<1> QED  BY <1>1, WordType, SpokenIs, ValueTypes DEF SaidOn, Word, Told

\* A source more: it decides where it has a say, and all else stays.
LEMMA OneMore ==
    ASSUME said \in Seq(Sayings), LastsFound, NEW s \in Sayings, said' = Append(said, s)
    PROVE  /\ said' \in Seq(Sayings)
           /\ LastsFound'
           /\ \A p : Decides(s, p) /\ p \in Spoken' => LastOn(p)' = s
           /\ \A p : ~Decides(s, p) /\ p \in Spoken' => p \in Spoken /\ LastOn(p)' = LastOn(p)
           /\ \A p \in Paths :
                 SaidOn(p)' = IF Names(s, p) THEN Word(s, p)
                              ELSE IF Cuts(s, p) THEN None ELSE SaidOn(p)
<1>0. PICK n \in Nat : n = Len(said)
  BY LenProperties
<1>1. /\ said' \in Seq(Sayings) /\ Len(said') = n + 1
      /\ \A i \in 1..n : said'[i] = said[i]
      /\ said'[n + 1] = s
      /\ DOMAIN said = 1..n /\ DOMAIN said' = 1..n + 1
  BY <1>0, AppendProperties, LenProperties
<1>2. ASSUME NEW p
      PROVE  p \in Spoken' <=> p \in Spoken \/ (p \in Paths /\ Names(s, p))
  <2>1. p \in Spoken' <=> p \in Paths /\ \E i \in DOMAIN said' : Names(said'[i], p)
    BY <1>1, NamedIs DEF Spoken
  <2> QED  BY <1>1, <2>1, SpokenIs
<1>3. ASSUME NEW p, Decides(s, p)
      PROVE  Lasts(n + 1, p)'
  BY <1>1, <1>3 DEF Lasts
<1>4. ASSUME NEW p, NEW i \in DOMAIN said, ~Decides(s, p), Lasts(i, p)
      PROVE  Lasts(i, p)'
  BY <1>0, <1>1, <1>4 DEF Lasts
<1>5. ASSUME NEW p, NEW i \in DOMAIN said', Lasts(i, p)'
      PROVE  LastOn(p)' = said'[i]
  <2>1. i = CHOOSE k \in DOMAIN said' :
               Decides(said'[k], p) /\ \A j \in k+1..Len(said') : ~Decides(said'[j], p)
    BY <1>1, <1>5, OneIsLast DEF Lasts
  <2> QED  BY <2>1 DEF LastOn
<1>6. ASSUME NEW p, Decides(s, p), p \in Spoken'
      PROVE  LastOn(p)' = s
  BY <1>1, <1>3, <1>5, <1>6
<1>7. ASSUME NEW p, ~Decides(s, p), p \in Spoken'
      PROVE  /\ p \in Spoken /\ LastOn(p)' = LastOn(p)
             /\ \E i \in DOMAIN said' : Lasts(i, p)'
  <2>1. p \in Spoken
    BY <1>2, <1>7 DEF Decides
  <2>2. PICK i \in DOMAIN said : Lasts(i, p)
    BY <2>1 DEF LastsFound
  <2>3. i \in DOMAIN said' /\ Lasts(i, p)' /\ said'[i] = said[i]
    BY <1>1, <1>4, <1>7, <2>2
  <2> QED  BY <1>5, <2>1, <2>2, <2>3, LastOnIs
<1>8. LastsFound'
  <2>1. ASSUME NEW p \in Spoken'
        PROVE  \E i \in DOMAIN said' : Lasts(i, p)'
    BY <1>1, <1>3, <1>7
  <2> QED  BY <2>1 DEF LastsFound
<1>9. ASSUME NEW p \in Paths
      PROVE  SaidOn(p)' = IF Names(s, p) THEN Word(s, p)
                          ELSE IF Cuts(s, p) THEN None ELSE SaidOn(p)
  <2>1. CASE Names(s, p)
    BY <1>2, <1>6, <2>1 DEF SaidOn, Decides, Word
  <2>2. CASE ~Names(s, p) /\ Cuts(s, p)
    BY <1>2, <1>6, <2>2 DEF SaidOn, Decides
  <2>3. CASE ~Names(s, p) /\ ~Cuts(s, p)
    BY <1>2, <1>7, <2>3 DEF SaidOn, Decides
  <2> QED  BY <2>1, <2>2, <2>3
<1> QED  BY <1>1, <1>6, <1>7, <1>8, <1>9

-----------------------------------------------------------------------------
(* The merge. *)

\* The mapping that is merged for saying s: what s names, with its words.
Speaks(s, data) ==
    /\ Tree(data)
    /\ \A p \in Paths : p \in DOMAIN data <=> Names(s, p)
    /\ \A p \in DOMAIN data : data[p] = Word(s, p)

\* LastWordHolds, path by path.
Holds == \A p \in Paths : GetPath(merged, p) = SaidOn(p)

LEMMA HoldsIs ==
    ASSUME said \in Seq(Sayings), LastsFound, merged \in Mappings(Values)
    PROVE  Holds <=> LastWordHolds
<1>1. /\ DOMAIN merged \subseteq Paths /\ merged = [p \in DOMAIN merged |-> merged[p]]
      /\ \A p \in DOMAIN merged : merged[p] \in Values
  BY MappingType
<1>2. \A p : p \in Told <=> p \in Paths /\ SaidOn(p) # None
  BY ToldIs, SaidOnType
<1>3. ASSUME Holds
      PROVE  LastWordHolds
  <2>1. \A p : p \in DOMAIN merged <=> p \in Told
    BY <1>1, <1>2, <1>3, ValueTypes DEF Holds, GetPath
  <2>2. \A p \in Told : merged[p] = SaidOn(p)
    BY <1>1, <1>3, <2>1 DEF Holds, GetPath
  <2>3. DOMAIN merged = Told
    BY <2>1
  <2>4. [p \in DOMAIN merged |-> merged[p]] = [p \in Told |-> SaidOn(p)]
    BY <2>2, <2>3
  <2> QED  BY <1>1, <2>4 DEF LastWordHolds
<1>4. ASSUME LastWordHolds
      PROVE  Holds
  <2>1. DOMAIN merged = Told /\ \A p \in Told : merged[p] = SaidOn(p)
    BY <1>4 DEF LastWordHolds
  <2> QED  BY <1>2, <2>1 DEF Holds, GetPath
<1> QED  BY <1>3, <1>4

\* Cut is what is below a word that is no mapping.
LEMMA CutsIs ==
    ASSUME NEW s \in Sayings, NEW data, Speaks(s, data), NEW p \in Paths
    PROVE  Cuts(s, p) <=> \E q \in DOMAIN data : Above(q, p) /\ ~IsMap(data[q])
<1>1. DOMAIN s.words \subseteq Paths /\ DOMAIN data \subseteq Paths
  BY WordType, MappingType DEF Speaks, Tree
<1>2. \A q \in DOMAIN s.words : q \in DOMAIN data /\ data[q] = s.words[q]
  BY <1>1, LeadsSelf DEF Speaks, Names, Word
<1>3. \A q \in DOMAIN data : ~IsMap(data[q]) => q \in DOMAIN s.words /\ data[q] = s.words[q]
  BY ValueTypes DEF Speaks, Word
<1> QED  BY <1>1, <1>2, <1>3 DEF Cuts

LEMMA MergeIs ==
    ASSUME NEW dst, Tree(dst), NEW src, Tree(src), NEW p \in Paths
    PROVE  GetPath(MergeMaps(dst, src), p) =
             IF p \in DOMAIN src THEN src[p]
             ELSE IF \E q \in DOMAIN src : Above(q, p) /\ ~IsMap(src[q]) THEN None
             ELSE GetPath(dst, p)
<1>1. DOMAIN dst \subseteq Paths /\ DOMAIN src \subseteq Paths
  BY MappingType DEF Tree
<1> DEFINE stays == {r \in DOMAIN dst :
                       \A q \in DOMAIN src : Leads(q, r) => IsMap(src[q]) /\ IsMap(dst[q])}
<1>2. MergeMaps(dst, src) =
        [r \in DOMAIN src \cup stays |-> IF r \in DOMAIN src THEN src[r] ELSE dst[r]]
  BY DEF MergeMaps
<1>3. ASSUME p \in DOMAIN dst, p \notin DOMAIN src
      PROVE  p \in stays <=> ~\E q \in DOMAIN src : Above(q, p) /\ ~IsMap(src[q])
  <2>1. \A q \in DOMAIN src : Leads(q, p) <=> Above(q, p)
    BY <1>3 DEF Above
  <2>2. \A q \in DOMAIN src : Above(q, p) => IsMap(dst[q])
    BY <1>1, <1>3 DEF Tree
  <2> QED  BY <1>3, <2>1, <2>2
<1> HIDE DEF stays
<1>4. stays \subseteq DOMAIN dst
  BY DEF stays
<1> QED  BY <1>2, <1>3, <1>4 DEF GetPath

LEMMA MergeType ==
    ASSUME NEW dst, Tree(dst), NEW src, Tree(src)
    PROVE  Tree(MergeMaps(dst, src))
<1>1. /\ DOMAIN dst \subseteq Paths /\ \A p \in DOMAIN dst : dst[p] \in Values
      /\ DOMAIN src \subseteq Paths /\ \A p \in DOMAIN src : src[p] \in Values
  BY MappingType DEF Tree
<1> DEFINE stays == {r \in DOMAIN dst :
                       \A q \in DOMAIN src : Leads(q, r) => IsMap(src[q]) /\ IsMap(dst[q])}
           m == MergeMaps(dst, src)
<1>2. m = [r \in DOMAIN src \cup stays |-> IF r \in DOMAIN src THEN src[r] ELSE dst[r]]
  BY DEF MergeMaps
<1>3. m \in [DOMAIN src \cup stays -> Values] /\ DOMAIN src \cup stays \subseteq Paths
  BY <1>1, <1>2
<1>4. ASSUME NEW p \in DOMAIN src, NEW q \in Paths, Above(q, p)
      PROVE  q \in DOMAIN m /\ IsMap(m[q])
  BY <1>2, <1>4 DEF Tree
<1>5. ASSUME NEW p \in stays, NEW q \in Paths, Above(q, p)
      PROVE  q \in DOMAIN m /\ IsMap(m[q])
  <2>1. Leads(q, p) /\ p \in Paths /\ p \in DOMAIN dst
    BY <1>1, <1>5 DEF Above
  <2>2. q \in DOMAIN dst /\ IsMap(dst[q])
    BY <1>5, <2>1 DEF Tree
  <2>3. q \in DOMAIN src => IsMap(src[q])
    BY <1>5, <2>1
  <2>4. \A r \in DOMAIN src : Leads(r, q) => IsMap(src[r]) /\ IsMap(dst[r])
    BY <1>1, <1>5, <2>1, LeadsOn
  <2> QED  BY <1>2, <2>2, <2>3, <2>4
<1> HIDE DEF stays, m
<1>6. m \in Mappings(Values)
  BY <1>3 DEF Mappings
<1> QED  BY <1>2, <1>4, <1>5, <1>6 DEF Tree, m

\* A source is merged as it speaks: the last words hold again.
LEMMA MergeHolds ==
    ASSUME said \in Seq(Sayings), LastsFound, Tree(merged), Holds,
           NEW s \in Sayings, said' = Append(said, s),
           NEW data, Speaks(s, data), merged' = MergeMaps(merged, data)
    PROVE  Holds' /\ Tree(merged)'
<1>1. ASSUME NEW p \in Paths
      PROVE  GetPath(merged', p) = SaidOn(p)'
  <2>1. SaidOn(p)' = IF Names(s, p) THEN Word(s, p)
                     ELSE IF Cuts(s, p) THEN None ELSE SaidOn(p)
    BY OneMore
  <2> QED  BY <1>1, <2>1, MergeIs, CutsIs DEF Speaks, Holds
<1> QED  BY <1>1, MergeType DEF Holds, Speaks, GetPath

LEMMA MergeSources ==
    ASSUME said \in Seq(Sayings), LastsFound, Tree(merged), Holds, SourcesAreTrue,
           NEW s \in Sayings, said' = Append(said, s),
           NEW data, Speaks(s, data), merged' = MergeMaps(merged, data),
           NEW recorded, Leaves(recorded) = Leaves(data),
           source_map' = RecordSources(recorded, s.source)
    PROVE  SourcesAreTrue'
<1> SUFFICES ASSUME NEW p, p \in DOMAIN merged', ~IsMap(merged'[p])
             PROVE  p \in DOMAIN source_map' /\ source_map'[p] = LastOn(p)'.source
  BY DEF SourcesAreTrue, Leaves
<1>1. p \in Paths /\ Tree(data) /\ DOMAIN data \subseteq Paths
  BY MergeType, MappingType DEF Speaks, Tree
<1>2. GetPath(merged', p) = merged'[p] /\ merged'[p] # None
  BY MergeType, MappingType, ValueTypes DEF Speaks, Tree, GetPath
<1>3. Holds'
  BY MergeHolds
<1>4. SaidOn(p)' # None /\ p \in Spoken'
  BY <1>1, <1>2, <1>3 DEF Holds, GetPath, SaidOn
<1>5. CASE p \in DOMAIN data
  <2>1. Names(s, p) /\ p \in Leaves(data)
    BY <1>1, <1>2, <1>5, MergeIs DEF Speaks, Leaves
  <2>2. LastOn(p)' = s
    BY <1>4, <2>1, OneMore DEF Decides
  <2> QED  BY <2>1, <2>2 DEF RecordSources
<1>6. CASE p \notin DOMAIN data
  <2>1. ~Names(s, p) /\ ~Cuts(s, p) /\ GetPath(merged', p) = GetPath(merged, p)
    BY <1>1, <1>2, <1>6, MergeIs, CutsIs DEF Speaks
  <2>2. LastOn(p)' = LastOn(p)
    BY <1>4, <2>1, OneMore DEF Decides
  <2>3. p \in Leaves(merged) /\ p \notin Leaves(data)
    BY <1>2, <1>6, <2>1 DEF GetPath, Leaves
  <2> QED  BY <2>2, <2>3 DEF SourcesAreTrue, RecordSources
<1> QED  BY <1>5, <1>6

-----------------------------------------------------------------------------
(* A file speaks as it is normalized. *)

\* Where two paths of one length differ they do so first somewhere.
LEMMA FirstDifference ==
    ASSUME NEW p \in Paths, NEW q \in Paths, Len(p) = Len(q), p # q
    PROVE  \E n \in 1..Len(p) : p[n] # q[n] /\ \A i \in 1..n-1 : p[i] = q[i]
<1> DEFINE D == {n \in 1..Len(p) : p[n] # q[n]}
<1>1. Len(p) \in Nat /\ D # {} /\ D \subseteq Nat
  BY PathsAreLong, SeqEqual
<1>2. PICK n \in D : \A i \in D : <<i, n>> \notin OpToRel(<, Nat)
  BY <1>1, NatLessThanWellFounded, WFMin
<1>3. \A i \in D : ~(i < n)
  BY <1>1, <1>2 DEF OpToRel
<1> QED  BY <1>1, <1>3

LEMMA FileNode ==
    ASSUME NEW f, File(f), NEW i \in DOMAIN f.nodes
    PROVE  /\ f.nodes[i].path \in Paths /\ f.nodes[i].value \in Values
           /\ DOMAIN f.nodes \subseteq Nat
           /\ \A q \in Paths : Leads(q, f.nodes[i].path) =>
                 \E j \in DOMAIN f.nodes :
                    f.nodes[j].path = q /\ (q # f.nodes[i].path => f.nodes[j].value = Dict)
<1>1. f.nodes[i] \in [path : Paths, value : Values] /\ DOMAIN f.nodes \subseteq Nat
  <2> DEFINE Nodes == [path : Paths, value : Values]
  <2>1. f.nodes \in Seq(Nodes)
    BY DEF File
  <2> HIDE DEF Nodes
  <2>2. DOMAIN f.nodes = 1..Len(f.nodes) /\ Len(f.nodes) \in Nat
    BY <2>1, LenProperties
  <2>3. f.nodes[i] \in Nodes
    BY <2>1, <2>2, ElementOfSeq
  <2> QED  BY <2>2, <2>3 DEF Nodes
<1>2. \A q \in Paths : Leads(q, f.nodes[i].path) => q \in UpTo(f.nodes[i].path)
  BY <1>1, UpToLeads
<1> QED  BY <1>1, <1>2 DEF File

\* The part of a path that leads to it.
LEMMA Prefix ==
    ASSUME NEW p \in Paths, NEW n \in 1..Len(p)
    PROVE  /\ SubSeq(p, 1, n) \in Paths /\ Len(SubSeq(p, 1, n)) = n
           /\ \A i \in 1..n : SubSeq(p, 1, n)[i] = p[i]
           /\ Leads(SubSeq(p, 1, n), p)
<1>1. /\ SubSeq(p, 1, n) \in Seq(STRING) /\ Len(SubSeq(p, 1, n)) = n
      /\ \A i \in 1..n : SubSeq(p, 1, n)[i] = p[i]
  BY PathsAreLong
<1> QED  BY <1>1, PathsAreLong, EmptySeq DEF Paths, Leads

\* Of the entries that become one path one is kept.
LEMMA KeptOnce ==
    ASSUME NEW f, File(f), NEW i \in Kept(f.nodes), NEW k \in Kept(f.nodes),
           Path(f.nodes[i].path) = Path(f.nodes[k].path)
    PROVE  i = k
<1>1. /\ i \in DOMAIN f.nodes /\ k \in DOMAIN f.nodes
      /\ \A l \in DOMAIN f.nodes : Leads(f.nodes[l].path, f.nodes[i].path) => ~Hidden(f.nodes, l)
      /\ \A l \in DOMAIN f.nodes : Leads(f.nodes[l].path, f.nodes[k].path) => ~Hidden(f.nodes, l)
  BY DEF Kept
<1> DEFINE p == f.nodes[i].path
           q == f.nodes[k].path
<1>2. p \in Paths /\ q \in Paths
  BY <1>1, FileNode
<1>3. Len(p) = Len(q) /\ \A n \in 1..Len(p) : Lower(p[n]) = Lower(q[n])
  BY <1>2, PathType, PathsAreLong
<1>4. CASE p = q
  BY <1>1, <1>4 DEF File
<1>5. CASE p # q
  <2>1. PICK n \in 1..Len(p) : p[n] # q[n] /\ \A l \in 1..n-1 : p[l] = q[l]
    BY <1>2, <1>3, <1>5, FirstDifference
  <2>2. PICK a \in DOMAIN f.nodes : f.nodes[a].path = SubSeq(p, 1, n)
    <3>1. SubSeq(p, 1, n) \in Paths /\ Leads(SubSeq(p, 1, n), p)
      BY <1>2, <2>1, Prefix
    <3> QED  BY <1>1, <3>1, FileNode
  <2>3. PICK b \in DOMAIN f.nodes : f.nodes[b].path = SubSeq(q, 1, n)
    <3>1. SubSeq(q, 1, n) \in Paths /\ Leads(SubSeq(q, 1, n), q)
      BY <1>2, <1>3, <2>1, Prefix
    <3> QED  BY <1>1, <3>1, FileNode
  <2> DEFINE u == f.nodes[a].path
             v == f.nodes[b].path
  <2>4. /\ Len(u) = n /\ Len(v) = n /\ Leads(u, p) /\ Leads(v, q) /\ n \in Nat /\ n >= 1
        /\ \A l \in 1..n : u[l] = p[l] /\ v[l] = q[l]
    BY <1>2, <1>3, <2>1, <2>2, <2>3, Prefix, PathsAreLong
  <2> HIDE DEF p, q, u, v
  <2>5. /\ \A l \in 1..n-1 : u[l] = v[l]
        /\ Lower(u[n]) = Lower(v[n]) /\ u[n] # v[n]
    BY <1>3, <2>1, <2>4
  <2>6. a # b
    BY <2>5 DEF u, v
  <2>7. a \in Nat /\ b \in Nat
    BY <1>1, <2>2, <2>3, FileNode
  <2>8. ASSUME a < b
        PROVE  Hidden(f.nodes, a)
    BY <2>3, <2>4, <2>5, <2>7, <2>8 DEF Hidden, u, v
  <2>9. ASSUME b < a
        PROVE  Hidden(f.nodes, b)
    BY <2>2, <2>4, <2>5, <2>7, <2>9 DEF Hidden, u, v
  <2>10. ~Hidden(f.nodes, a) /\ ~Hidden(f.nodes, b)
    BY <1>1, <2>2, <2>3, <2>4 DEF p, q, u, v
  <2> QED  BY <2>6, <2>7, <2>8, <2>9, <2>10
<1> QED  BY <1>4, <1>5

LEMMA NormalizeValueType ==
    ASSUME NEW v \in Values
    PROVE  NormalizeValue(v) \in Values /\ (v = Dict => NormalizeValue(v) = Dict)
<1> DEFINE Items == [path : Seq(STRING), value : Scalars]
<1>1. CASE v.type = "list"
  <2>1. v \in Lists /\ v # Dict
    BY <1>1 DEF Values, Scalars, Lists, Null, Dict
  <2>2. v.items \in Seq(Items)
    BY <2>1 DEF Lists
  <2> DEFINE e == [i \in DOMAIN v.items |->
                     [path |-> Path(v.items[i].path), value |-> v.items[i].value]]
  <2>3. DOMAIN v.items = 1..Len(v.items) /\ Len(v.items) \in Nat
    BY <2>2, LenProperties
  <2>4. ASSUME NEW i \in DOMAIN v.items
        PROVE  [path |-> Path(v.items[i].path), value |-> v.items[i].value] \in Items
    <3> HIDE DEF Items
    <3>1. v.items[i] \in Items
      BY <2>2, <2>3, ElementOfSeq
    <3> QED  BY <3>1, PathType DEF Items
  <2>5. e \in [1..Len(v.items) -> Items]
    BY <2>3, <2>4
  <2>6. e \in Seq(Items)
    <3> HIDE DEF Items, e
    <3> QED  BY <2>3, <2>5, SeqDef
  <2> QED  BY <1>1, <2>1, <2>6 DEF NormalizeValue, Values, Lists, List
<1>2. CASE v.type # "list"
  BY <1>2 DEF NormalizeValue
<1> QED  BY <1>1, <1>2

LEMMA NormalizeType ==
    ASSUME NEW f, File(f)
    PROVE  Tree(Normalize(f.nodes))
<1> DEFINE nodes == f.nodes
           kept == Kept(nodes)
           data == Normalize(nodes)
           index(p) == CHOOSE i \in kept : Path(nodes[i].path) = p
<1>1. data = [p \in {Path(nodes[i].path) : i \in kept} |-> NormalizeValue(nodes[index(p)].value)]
  BY DEF Normalize
<1>2. kept \subseteq DOMAIN nodes
  BY DEF Kept
<1>3. ASSUME NEW i \in kept
      PROVE  /\ Path(nodes[i].path) \in DOMAIN data
             /\ data[Path(nodes[i].path)] = NormalizeValue(nodes[i].value)
             /\ Path(nodes[i].path) \in Paths
             /\ NormalizeValue(nodes[i].value) \in Values
  <2>1. index(Path(nodes[i].path)) = i
    BY KeptOnce
  <2>2. nodes[i].path \in Paths /\ nodes[i].value \in Values
    BY <1>2, FileNode
  <2> QED  BY <1>1, <2>1, <2>2, PathType, NormalizeValueType DEF Paths
<1>4. DOMAIN data = {Path(nodes[i].path) : i \in kept}
  BY <1>1
<1>5. data \in Mappings(Values)
  <2>1. \A p \in DOMAIN data : p \in Paths /\ data[p] \in Values
    BY <1>3, <1>4
  <2>2. data = [p \in DOMAIN data |-> data[p]]
    BY <1>1
  <2> HIDE DEF data
  <2>3. data \in [DOMAIN data -> Values]
    BY <2>1, <2>2
  <2> QED  BY <2>1, <2>3 DEF Mappings
<1>6. ASSUME NEW p \in DOMAIN data, NEW q \in Paths, Above(q, p)
      PROVE  q \in DOMAIN data /\ data[q] = Dict
  <2>1. PICK i \in kept : p = Path(nodes[i].path)
    BY <1>4
  <2> DEFINE r == nodes[i].path
             o == SubSeq(r, 1, Len(q))
  <2>2. r \in Paths
    BY <1>2, FileNode
  <2>3. Len(p) = Len(r) /\ p \in Paths /\ \A l \in 1..Len(r) : p[l] = Lower(r[l])
    BY <1>3, <2>1, <2>2, PathType, PathsAreLong
  <2>4. Len(q) \in 1..Len(r) /\ \A l \in 1..Len(q) : q[l] = p[l]
    BY <1>6, <2>2, <2>3, PathsAreLong DEF Above, Leads
  <2>5. /\ o \in Paths /\ Len(o) = Len(q) /\ Leads(o, r)
        /\ \A l \in 1..Len(q) : o[l] = r[l]
    BY <2>2, <2>4, Prefix
  <2>6. Path(o) = q
    <3>1. /\ Path(o) \in Paths /\ Len(Path(o)) = Len(q)
          /\ \A l \in 1..Len(q) : Path(o)[l] = Lower(o[l])
      BY <2>5, PathType DEF Paths
    <3>2. \A l \in 1..Len(q) : Path(o)[l] = q[l]
      BY <2>3, <2>4, <2>5, <3>1, PathsAreLong
    <3> QED  BY <3>1, <3>2, PathsAreLong, SeqEqual
  <2>7. o # r
    BY <1>6, <2>1, <2>6 DEF Above
  <2>8. PICK j \in DOMAIN nodes : nodes[j].path = o /\ nodes[j].value = Dict
    BY <1>2, <2>5, <2>7, FileNode
  <2>9. j \in kept
    <3>1. ASSUME NEW k \in DOMAIN nodes, Leads(nodes[k].path, o)
          PROVE  ~Hidden(nodes, k)
      <4>1. Leads(nodes[k].path, r)
        BY <2>2, <2>5, <3>1, FileNode, LeadsOn
      <4> QED  BY <3>1, <4>1 DEF Kept
    <3> QED  BY <2>8, <3>1 DEF Kept
  <2> QED  BY <1>3, <2>6, <2>8, <2>9, NormalizeValueType, ValueTypes
<1> QED  BY <1>5, <1>6, ValueTypes DEF Tree

\* A mapping is what is said when the words are that mapping.
LEMMA FileSpeaks ==
    ASSUME NEW s \in Sayings, Tree(s.words)
    PROVE  Speaks(s, s.words)
<1>1. DOMAIN s.words \subseteq Paths
  BY WordType
<1>2. ASSUME NEW p \in Paths
      PROVE  p \in DOMAIN s.words <=> Names(s, p)
  BY <1>1, LeadsSelf DEF Names, Tree, Above
<1> QED  BY <1>2 DEF Speaks, Word

-----------------------------------------------------------------------------
(* Variables and flags: what they say is in overrides, with the mappings   *)
(* around it.                                                              *)
Texted(texts) ==
    [p \in UNION {UpTo(q) : q \in DOMAIN texts} |->
        IF p \in DOMAIN texts THEN Str(texts[p]) ELSE Dict]

\* No text is below another.
Apart(texts) == \A p, q \in DOMAIN texts : Leads(p, q) => p = q

LEMMA TextedIs ==
    ASSUME NEW texts \in Mappings(STRING), NEW p
    PROVE  p \in DOMAIN Texted(texts)
             <=> p \in Paths /\ \E q \in DOMAIN texts : Leads(p, q)
  BY MappingType, UpToLeads DEF Texted

LEMMA OverrideKeeps ==
    ASSUME heard \in Mappings(STRING), overrides = Texted(heard), Apart(heard),
           NEW nodes, nodes = <<>> \/ nodes \in Paths, NEW text \in STRING,
           Override(nodes, text)
    PROVE  heard' \in Mappings(STRING) /\ overrides' = Texted(heard') /\ Apart(heard')
<1>1. CASE nodes = <<>>
  BY <1>1 DEF Override
<1>2. CASE nodes # <<>>
  <2> DEFINE stay == {q \in DOMAIN heard : ~Leads(q, nodes) /\ ~Leads(nodes, q)}
             kept == {q \in DOMAIN overrides : ~Leads(nodes, q)}
  <2>1. /\ nodes \in Paths /\ nodes \notin stay /\ Leads(nodes, nodes)
        /\ DOMAIN heard \subseteq Paths /\ \A p \in DOMAIN heard : heard[p] \in STRING
    BY <1>2, LeadsSelf, MappingType
  <2>2. heard' = [p \in stay \cup {nodes} |-> IF p = nodes THEN text ELSE heard[p]]
    BY <1>2 DEF Override
  <2>3. overrides' = [p \in kept \cup UpTo(nodes) |->
                        IF p = nodes THEN Str(text)
                        ELSE IF p \in UpTo(nodes) THEN Dict ELSE overrides[p]]
    BY <1>2 DEF Override, SetPath
  <2>4. \A p : p \in DOMAIN overrides <=> p \in Paths /\ \E q \in DOMAIN heard : Leads(p, q)
    BY TextedIs
  <2>5. \A p : p \in UpTo(nodes) <=> p \in Paths /\ Leads(p, nodes)
    BY <2>1, UpToLeads
  <2> HIDE DEF stay, kept
  <2>6. stay \subseteq DOMAIN heard /\ DOMAIN heard' = stay \cup {nodes}
    BY <2>2 DEF stay
  <2>7. heard' \in Mappings(STRING)
    <3>1. heard' \in [stay \cup {nodes} -> STRING] /\ stay \cup {nodes} \subseteq Paths
      BY <2>1, <2>2, <2>6
    <3> QED  BY <3>1 DEF Mappings
  <2>8. ASSUME NEW p
        PROVE  p \in kept \cup UpTo(nodes)
                 <=> p \in Paths /\ \E q \in stay \cup {nodes} : Leads(p, q)
    <3>1. ASSUME p \in kept
          PROVE  p \in Paths /\ \E q \in stay \cup {nodes} : Leads(p, q)
      <4>1. p \in Paths /\ ~Leads(nodes, p)
        BY <2>4, <3>1 DEF kept
      <4>2. PICK q \in DOMAIN heard : Leads(p, q)
        BY <2>4, <3>1 DEF kept
      <4>3. CASE q \in stay
        BY <4>1, <4>2, <4>3
      <4>4. CASE Leads(q, nodes)
        BY <2>1, <4>1, <4>2, <4>4, LeadsOn
      <4>5. CASE Leads(nodes, q)
        BY <2>1, <4>1, <4>2, <4>5, LeadsEither
      <4> QED  BY <4>3, <4>4, <4>5 DEF stay
    <3>2. ASSUME p \in Paths, NEW q \in stay, Leads(p, q)
          PROVE  p \in kept
      <4>1. q \in DOMAIN heard /\ q \in Paths /\ ~Leads(nodes, q)
        BY <2>1, <3>2 DEF stay
      <4>2. ~Leads(nodes, p)
        BY <2>1, <3>2, <4>1, LeadsOn
      <4> QED  BY <2>4, <3>2, <4>1, <4>2 DEF kept
    <3> QED  BY <2>5, <3>1, <3>2
  <2>9. \A p : p \in DOMAIN Texted(heard') <=>
                 p \in Paths /\ \E q \in stay \cup {nodes} : Leads(p, q)
    BY <2>6, <2>7, TextedIs
  <2>10. DOMAIN Texted(heard') = kept \cup UpTo(nodes)
    BY <2>8, <2>9
  <2>11. ASSUME NEW p \in kept \cup UpTo(nodes)
         PROVE  overrides'[p] = IF p \in DOMAIN heard' THEN Str(heard'[p]) ELSE Dict
    <3>1. CASE p = nodes
      BY <2>2, <2>3, <2>6, <3>1
    <3>2. CASE p # nodes /\ p \in UpTo(nodes)
      <4>1. p \notin stay
        BY <2>5, <3>2 DEF stay
      <4> QED  BY <2>3, <2>6, <3>2, <4>1
    <3>3. CASE p \notin UpTo(nodes)
      <4>1. p \in DOMAIN overrides /\ p \in Paths /\ ~Leads(nodes, p) /\ ~Leads(p, nodes)
        BY <2>4, <2>5, <3>3 DEF kept
      <4>2. p # nodes /\ (p \in stay <=> p \in DOMAIN heard)
        BY <2>1, <4>1 DEF stay
      <4>3. overrides'[p] = overrides[p]
        BY <2>3, <3>3, <4>2
      <4>4. overrides[p] = IF p \in DOMAIN heard THEN Str(heard[p]) ELSE Dict
        BY <4>1 DEF Texted
      <4> QED  BY <2>2, <2>6, <4>2, <4>3, <4>4
    <3> QED  BY <3>1, <3>2, <3>3
  <2>12. Apart(heard')
    BY <2>6 DEF Apart, stay
  <2>13. DOMAIN overrides' = kept \cup UpTo(nodes)
         /\ overrides' = [p \in DOMAIN overrides' |-> overrides'[p]]
    BY <2>3
  <2>14. overrides' = [p \in DOMAIN Texted(heard') |->
                         IF p \in DOMAIN heard' THEN Str(heard'[p]) ELSE Dict]
    BY <2>10, <2>11, <2>13
  <2> QED  BY <2>7, <2>12, <2>14 DEF Texted
<1> QED  BY <1>1, <1>2

LEMMA ReadingType ==
    ASSUME NEW hint, NEW t \in STRING
    PROVE  /\ ParseWithHint(hint, t) \in Readings(t)
           /\ \A v \in Readings(t) : v \in Values /\ ~IsMap(v)
<1>1. /\ ParseBool(t) \in {Bool("True"), Bool("False"), None}
      /\ ParseInt(t) = None \/ (t \in DOMAIN IntOf /\ ParseInt(t) = Number(IntOf[t]))
      /\ ParseFloat(t) = None \/ (t \in DOMAIN FloatOf /\ ParseFloat(t) = Float(FloatOf[t]))
  <2>1. ParseBool(t) \in {Bool("True"), Bool("False"), None}
    BY DEF ParseBool
  <2>2. ParseInt(t) = None \/ (t \in DOMAIN IntOf /\ ParseInt(t) = Number(IntOf[t]))
    BY DEF ParseInt
  <2>3. ParseFloat(t) = None \/ (t \in DOMAIN FloatOf /\ ParseFloat(t) = Float(FloatOf[t]))
    BY DEF ParseFloat
  <2> QED  BY <2>1, <2>2, <2>3
<1>2. ParseWithHint(hint, t) \in Readings(t)
  BY DEF ParseWithHint, Readings
<1>3. ASSUME NEW v \in Readings(t)
      PROVE  \E x \in STRING : v \in {Str(x), Bool(x), Number(x), Float(x)}
  <2>1. \/ v = Bool("True") \/ v = Bool("False") \/ v = Str(t)
        \/ v = Number(IntOf[t]) /\ t \in DOMAIN IntOf
        \/ v = Float(FloatOf[t]) /\ t \in DOMAIN FloatOf
    BY <1>1, <1>3 DEF Readings
  <2>2. "True" \in STRING /\ "False" \in STRING
    BY TextAssumption
  <2>3. /\ t \in DOMAIN IntOf => IntOf[t] \in STRING
        /\ t \in DOMAIN FloatOf => FloatOf[t] \in STRING
    BY TextAssumption
  <2> QED  BY <2>1, <2>2, <2>3
<1> QED  BY <1>2, <1>3, ValueTypes

LEMMA OverridesSpeak ==
    ASSUME said \in Seq(Sayings), LastsFound, Tree(merged), Holds,
           heard \in Mappings(STRING), Apart(heard), overrides = Texted(heard),
           NEW s \in Sayings,
           s.words = [p \in DOMAIN heard |-> ParseWithHint(SaidOn(p), heard[p])]
    PROVE  /\ Speaks(s, TypedOverrides(merged, overrides))
           /\ Leaves(overrides) = Leaves(TypedOverrides(merged, overrides))
<1> DEFINE data == TypedOverrides(merged, overrides)
<1>1. DOMAIN heard \subseteq Paths /\ \A p \in DOMAIN heard : heard[p] \in STRING
  BY MappingType
<1>2. \A p : p \in DOMAIN overrides <=> p \in Paths /\ \E q \in DOMAIN heard : Leads(p, q)
  BY TextedIs
<1>3. \A p \in DOMAIN overrides :
         overrides[p] = IF p \in DOMAIN heard THEN Str(heard[p]) ELSE Dict
  BY DEF Texted
<1>4. \A t : Str(t).val = t
  BY DEF Str
<1>5. /\ DOMAIN data = DOMAIN overrides /\ data = [p \in DOMAIN overrides |-> data[p]]
      /\ \A p \in DOMAIN overrides :
            data[p] = IF IsMap(overrides[p]) THEN overrides[p]
                      ELSE ParseWithHint(GetPath(merged, p), overrides[p].val)
  BY DEF TypedOverrides
<1> HIDE DEF data
<1>6. ASSUME NEW p \in DOMAIN overrides
      PROVE  /\ data[p] = IF p \in DOMAIN heard THEN ParseWithHint(SaidOn(p), heard[p]) ELSE Dict
             /\ data[p] \in Values /\ (IsMap(data[p]) <=> IsMap(overrides[p]))
             /\ IsMap(data[p]) <=> p \notin DOMAIN heard
  <2>1. p \in Paths
    BY <1>2
  <2>2. CASE p \in DOMAIN heard
    <3>1. overrides[p] = Str(heard[p]) /\ ~IsMap(overrides[p]) /\ heard[p] \in STRING
      BY <1>1, <1>3, <2>2, ValueTypes
    <3>2. data[p] = ParseWithHint(SaidOn(p), heard[p])
      BY <1>4, <1>5, <2>1, <3>1 DEF Holds
    <3> QED  BY <2>2, <3>1, <3>2, ReadingType
  <2>3. CASE p \notin DOMAIN heard
    BY <1>3, <1>5, <2>3, ValueTypes
  <2> QED  BY <2>2, <2>3
<1>7. Tree(data)
  <2>1. data \in [DOMAIN overrides -> Values] /\ DOMAIN overrides \subseteq Paths
    BY <1>2, <1>5, <1>6
  <2>2. ASSUME NEW p \in DOMAIN data, NEW q \in Paths, Above(q, p)
        PROVE  q \in DOMAIN data /\ IsMap(data[q])
    <3>1. PICK r \in DOMAIN heard : Leads(p, r)
      BY <1>2, <1>5
    <3>2. p \in Paths /\ Leads(q, p) /\ Leads(q, r)
      BY <1>1, <1>2, <1>5, <2>2, <3>1, LeadsOn DEF Above
    <3>3. q \notin DOMAIN heard
      BY <1>1, <2>2, <3>1, <3>2, LeadsBoth DEF Apart, Above
    <3> QED  BY <1>2, <1>5, <1>6, <3>2, <3>3
  <2> QED  BY <1>5, <2>1, <2>2 DEF Tree, Mappings
<1>8. ASSUME NEW p \in Paths
      PROVE  p \in DOMAIN data <=> Names(s, p)
  BY <1>2, <1>5 DEF Names
<1>9. Leaves(overrides) = Leaves(data)
  BY <1>5, <1>6 DEF Leaves
<1> QED  BY <1>5, <1>6, <1>7, <1>8, <1>9 DEF Speaks, Word, data

-----------------------------------------------------------------------------
(* What load() has gathered. *)
TypeOK ==
    /\ given \in Givens
    /\ at \in Files \cup {"env", "flags", "check", "decode", "done"}
    /\ Tree(merged)
    /\ source_map \in Mappings(SourceNames)
    /\ sources \in Seq(SourceNames)
    /\ heard \in Mappings(STRING) /\ Apart(heard) /\ overrides = Texted(heard)
    /\ said \in Seq(Sayings)
    /\ at \in Files \cup {"env"} => unread \subseteq given.env
    /\ at = "flags" => unread \in Seq([key : Seq(STRING), text : STRING])

\* A text is in the words as one of its readings.
TextsStand ==
    \A i \in DOMAIN said : \A p \in DOMAIN said[i].texts :
        p \in DOMAIN said[i].words /\ said[i].words[p] \in Readings(said[i].texts[p])

Gathered == TypeOK /\ LastsFound /\ Holds /\ SourcesAreTrue /\ TextsStand

LEMMA InitGathers == Init => Gathered
<1> SUFFICES ASSUME Init PROVE Gathered
  OBVIOUS
<1>1. /\ Empty \in Mappings(Values) /\ Empty \in Mappings(SourceNames)
      /\ Empty \in Mappings(STRING) /\ DOMAIN Empty = {}
  BY EmptyType
<1>2. Texted(Empty) = Empty
  BY DEF Texted, Empty
<1>3. /\ said = <<>> /\ said \in Seq(Sayings) /\ DOMAIN said = {} /\ Spoken = {}
      /\ sources \in Seq(SourceNames)
  BY DEF Init, Spoken
<1>4. TypeOK
  BY <1>1, <1>2, <1>3 DEF Init, TypeOK, Tree, Apart, Files
<1>5. Holds
  BY <1>1, <1>3 DEF Init, Holds, GetPath, SaidOn
<1>6. LastsFound /\ SourcesAreTrue /\ TextsStand
  BY <1>1, <1>3 DEF Init, LastsFound, SourcesAreTrue, Leaves, TextsStand
<1> QED  BY <1>4, <1>5, <1>6 DEF Gathered

\* A source with its words is added.
LEMMA SourceGathers ==
    ASSUME Gathered, NEW s \in Sayings, said' = Append(said, s),
           NEW data, Speaks(s, data), merged' = MergeMaps(merged, data),
           NEW recorded, Leaves(recorded) = Leaves(data),
           source_map' = RecordSources(recorded, s.source),
           \A p \in DOMAIN s.texts : p \in DOMAIN s.words /\ s.words[p] \in Readings(s.texts[p])
    PROVE  /\ LastsFound' /\ Holds' /\ SourcesAreTrue' /\ TextsStand'
           /\ Tree(merged') /\ said' \in Seq(Sayings)
           /\ source_map' \in Mappings(SourceNames)
<1> USE DEF Gathered
<1>1. said \in Seq(Sayings) /\ Tree(merged) /\ source_map \in Mappings(SourceNames)
  BY DEF TypeOK
<1>2. LastsFound' /\ said' \in Seq(Sayings)
  BY <1>1, OneMore
<1>3. Holds' /\ Tree(merged')
  BY <1>1, MergeHolds
<1>4. SourcesAreTrue'
  BY <1>1, MergeSources
<1>5. source_map' \in Mappings(SourceNames)
  <2>1. DOMAIN source_map \subseteq Paths /\ \A p \in DOMAIN source_map : source_map[p] \in SourceNames
    BY <1>1, MappingType
  <2>2. Leaves(recorded) \subseteq Paths
    BY MappingType DEF Speaks, Tree, Leaves
  <2>3. s.source \in SourceNames
    BY DEF Sayings
  <2>4. source_map' \in [Leaves(recorded) \cup DOMAIN source_map -> SourceNames]
    BY <2>1, <2>3 DEF RecordSources
  <2> QED  BY <2>1, <2>2, <2>4 DEF Mappings
<1>6. TextsStand'
  <2>1. PICK n \in Nat : n = Len(said)
    BY <1>1, LenProperties
  <2>2. /\ DOMAIN said = 1..n /\ DOMAIN said' = 1..n + 1 /\ said'[n + 1] = s
        /\ \A i \in 1..n : said'[i] = said[i]
    BY <1>1, <2>1, AppendProperties, LenProperties
  <2> QED  BY <2>2 DEF TextsStand
<1> QED  BY <1>2, <1>3, <1>4, <1>5, <1>6

\* What nothing is added to stays as it is.
LEMMA Stay ==
    ASSUME Gathered, UNCHANGED <<merged, source_map, said>>
    PROVE  /\ LastsFound' /\ Holds' /\ SourcesAreTrue' /\ TextsStand'
           /\ Tree(merged') /\ said' \in Seq(Sayings)
           /\ source_map' \in Mappings(SourceNames)
<1>1. /\ \A p : LastOn(p)' = LastOn(p)
      /\ Spoken' = Spoken
  BY DEF LastOn, Spoken
<1>2. \A p : SaidOn(p)' = SaidOn(p)
  BY <1>1 DEF SaidOn
<1>3. \A i, p : Lasts(i, p)' <=> Lasts(i, p)
  BY DEF Lasts
<1> QED
  BY <1>1, <1>2, <1>3
     DEF Gathered, TypeOK, LastsFound, Holds, SourcesAreTrue, TextsStand

LEMMA GivenType ==
    ASSUME given \in Givens
    PROVE  /\ \A f \in DOMAIN given.files : File(given.files[f])
           /\ \A v \in given.env : v.name \in Paths /\ v.text \in STRING
           /\ given.flags \in Seq([key : Seq(STRING), text : STRING])
           /\ given.prefix \in STRING /\ given.deploy \in Seq(STRING)
           /\ given.required \subseteq Paths
           /\ <<>> \in DOMAIN given.model /\ given.model[<<>>].tp \in {"class", "dict"}
           /\ \A p \in DOMAIN given.model :
                 given.model[p].tp \in {"class", "dict", "bool", "int", "float", "str"}
  BY GivenAssumption

LEMMA EnvNodesType ==
    ASSUME given \in Givens, NEW v \in given.env
    PROVE  EnvNodes(v.name) = <<>> \/ EnvNodes(v.name) \in Paths
<1>1. v.name \in Paths /\ given.prefix \in STRING /\ given.deploy \in Seq(STRING)
  BY GivenType
<1>2. Tail(v.name) \in Seq(STRING)
  BY <1>1, HeadTailProperties DEF Paths
<1>3. Tail(v.name) # <<>> => Path(Tail(v.name)) \in Paths
  BY <1>2, PathType
<1>4. <<Lower(given.prefix)>> \o Path(given.deploy) \in Paths
  <2>1. Path(given.deploy) \in Seq(STRING)
    BY <1>1, PathType
  <2>2. Lower(given.prefix) \in STRING
    BY <1>1, LowerType
  <2>3. <<Lower(given.prefix)>> \in Seq(STRING)
    BY <2>2
  <2>4. <<Lower(given.prefix)>> \o Path(given.deploy) # <<>>
    BY <2>1, <2>3
  <2> QED  BY <2>1, <2>3, <2>4 DEF Paths
<1> QED  BY <1>3, <1>4 DEF EnvNodes

LEMMA TakeFileGathers == ASSUME Gathered, TakeFile PROVE Gathered'
<1> USE DEF Gathered
<1>1. PICK f \in FilesFor(at) :
         LET data == Normalize(given.files[f].nodes) IN
         /\ merged' = MergeMaps(merged, data)
         /\ source_map' = RecordSources(data, at)
         /\ said' = Append(said, [source |-> at, words |-> data, texts |-> Empty])
  BY DEF TakeFile
<1> DEFINE data == Normalize(given.files[f].nodes)
           s == [source |-> at, words |-> data, texts |-> Empty]
<1>2. f \in DOMAIN given.files /\ given \in Givens
  BY DEF FilesFor, TypeOK
<1>3. Tree(data)
  BY <1>2, GivenType, NormalizeType
<1>4. at \in SourceNames /\ at \in Files
  BY DEF TakeFile, Files, SourceNames
<1> HIDE DEF data
<1>5. s \in Sayings
  <2>1. Empty \in Mappings(STRING) /\ data \in Mappings(Values)
    BY <1>3, EmptyType DEF Tree
  <2> QED  BY <1>4, <2>1 DEF Sayings
<1>6. /\ merged' = MergeMaps(merged, data) /\ source_map' = RecordSources(data, s.source)
      /\ said' = Append(said, s) /\ s.words = data /\ DOMAIN s.texts = {}
  BY <1>1, EmptyType DEF data
<1>7. Speaks(s, data)
  BY <1>3, <1>5, <1>6, FileSpeaks
<1> HIDE DEF s
<1>8. /\ LastsFound' /\ Holds' /\ SourcesAreTrue' /\ TextsStand'
      /\ Tree(merged') /\ said' \in Seq(Sayings)
      /\ source_map' \in Mappings(SourceNames)
  BY <1>5, <1>6, <1>7, SourceGathers
<1>9. TypeOK'
  <2>1. sources' \in Seq(SourceNames)
    BY <1>4 DEF TakeFile, TypeOK
  <2>2. /\ UNCHANGED <<given, overrides, unread, heard>>
        /\ at' \in {"env-file", "local", "env"}
    BY <1>4 DEF TakeFile, After, Files
  <2> QED  BY <1>4, <1>8, <2>1, <2>2 DEF TypeOK, Files
<1> QED  BY <1>8, <1>9

LEMMA ReadingGathers == ASSUME Gathered, ReadVariable \/ ReadFlag PROVE Gathered'
<1> USE DEF Gathered
<1>1. /\ LastsFound' /\ Holds' /\ SourcesAreTrue' /\ TextsStand'
      /\ Tree(merged') /\ said' \in Seq(Sayings)
      /\ source_map' \in Mappings(SourceNames)
  BY Stay DEF ReadVariable, ReadFlag
<1>2. ASSUME NEW nodes, nodes = <<>> \/ nodes \in Paths, NEW text \in STRING,
             Override(nodes, text)
      PROVE  heard' \in Mappings(STRING) /\ overrides' = Texted(heard') /\ Apart(heard')
  BY <1>2, OverrideKeeps DEF TypeOK
<1>3. CASE ReadVariable
  <2>1. at = "env" /\ at' = at /\ unread \subseteq given.env /\ UNCHANGED <<given, sources>>
    BY <1>3 DEF ReadVariable, TypeOK
  <2>2. PICK v \in unread : unread' = unread \ {v} /\ Override(EnvNodes(v.name), v.text)
    BY <1>3 DEF ReadVariable
  <2>3. v.text \in STRING /\ (EnvNodes(v.name) = <<>> \/ EnvNodes(v.name) \in Paths)
    BY <2>1, <2>2, GivenType, EnvNodesType DEF TypeOK
  <2>4. heard' \in Mappings(STRING) /\ overrides' = Texted(heard') /\ Apart(heard')
    BY <1>2, <2>2, <2>3
  <2> QED  BY <1>1, <2>1, <2>2, <2>4 DEF TypeOK, Files
<1>4. CASE ReadFlag
  <2> DEFINE Flags == [key : Seq(STRING), text : STRING]
  <2>1. /\ at = "flags" /\ at' = at /\ UNCHANGED <<given, sources>>
        /\ unread \in Seq(Flags) /\ unread # <<>> /\ unread' = Tail(unread)
        /\ Override(Path(Head(unread).key), Head(unread).text)
    BY <1>4 DEF ReadFlag, TypeOK
  <2>2. Head(unread) \in Flags /\ unread' \in Seq(Flags)
    <3> HIDE DEF Flags
    <3> QED  BY <2>1
  <2>3. Path(Head(unread).key) \in Seq(STRING) /\ Head(unread).text \in STRING
    BY <2>2, PathType
  <2>4. heard' \in Mappings(STRING) /\ overrides' = Texted(heard') /\ Apart(heard')
    BY <1>2, <2>1, <2>3 DEF Paths
  <2> QED  BY <1>1, <2>1, <2>2, <2>4 DEF TypeOK, Files
<1> QED  BY <1>3, <1>4

\* The next source's variables or flags are all unread.
LEMMA NextSourceType ==
    ASSUME TypeOK, ReadAll, NextSource
    PROVE  /\ given' = given /\ at' \in {"flags", "check"} /\ at \in SourceNames
           /\ at' = "flags" => unread' \in Seq([key : Seq(STRING), text : STRING])
  BY GivenType DEF TypeOK, ReadAll, NextSource, After, SourceNames

LEMMA MergeOverridesGathers == ASSUME Gathered, MergeOverrides PROVE Gathered'
<1> USE DEF Gathered
<1> DEFINE words == [p \in DOMAIN heard |-> ParseWithHint(SaidOn(p), heard[p])]
           s == [source |-> at, texts |-> heard, words |-> words]
           data == TypedOverrides(merged, overrides)
<1>1. /\ merged' = MergeMaps(merged, data) /\ source_map' = RecordSources(overrides, at)
      /\ sources' = Append(sources, at) /\ said' = Append(said, s)
      /\ overrides' = Empty /\ heard' = Empty /\ ReadAll /\ NextSource
  BY DEF MergeOverrides
<1>2. /\ given' = given /\ at' \in {"flags", "check"} /\ at \in SourceNames
      /\ at' = "flags" => unread' \in Seq([key : Seq(STRING), text : STRING])
  BY <1>1, NextSourceType
<1>3. DOMAIN heard \subseteq Paths /\ \A p \in DOMAIN heard : heard[p] \in STRING
  BY MappingType DEF TypeOK
<1>4. ASSUME NEW p \in DOMAIN heard
      PROVE  words[p] \in Readings(heard[p]) /\ words[p] \in Values
  BY <1>3, ReadingType
<1>5. words \in Mappings(Values) /\ DOMAIN words = DOMAIN heard
  <2>1. words \in [DOMAIN heard -> Values]
    BY <1>4
  <2> HIDE DEF words
  <2> QED  BY <1>3, <2>1 DEF Mappings
<1> HIDE DEF words
<1>6. s \in Sayings
  BY <1>2, <1>5 DEF Sayings, TypeOK
<1>7. Speaks(s, data) /\ Leaves(overrides) = Leaves(data)
  BY <1>6, OverridesSpeak DEF TypeOK, words
<1>8. \A p \in DOMAIN s.texts : p \in DOMAIN s.words /\ s.words[p] \in Readings(s.texts[p])
  BY <1>4, <1>5
<1>9. source_map' = RecordSources(overrides, s.source)
  BY <1>1
<1> HIDE DEF s, data
<1>10. /\ LastsFound' /\ Holds' /\ SourcesAreTrue' /\ TextsStand'
       /\ Tree(merged') /\ said' \in Seq(Sayings)
       /\ source_map' \in Mappings(SourceNames)
  BY <1>1, <1>6, <1>7, <1>8, <1>9, SourceGathers
<1>11. TypeOK'
  <2>1. sources' \in Seq(SourceNames)
    BY <1>1, <1>2 DEF TypeOK
  <2>2. Empty \in Mappings(STRING) /\ Apart(Empty) /\ Texted(Empty) = Empty
    BY EmptyType DEF Apart, Texted, Empty
  <2> QED  BY <1>1, <1>2, <1>10, <2>1, <2>2 DEF TypeOK, Files
<1> QED  BY <1>10, <1>11

LEMMA StillGathered ==
    ASSUME Gathered,
           \/ SkipFile \/ NoOverrides \/ UNCHANGED vars
           \/ UNCHANGED Unchecked /\ at' \in {"decode", "done"}
    PROVE  Gathered'
<1> USE DEF Gathered
<1>1. /\ LastsFound' /\ Holds' /\ SourcesAreTrue' /\ TextsStand'
      /\ Tree(merged') /\ said' \in Seq(Sayings)
      /\ source_map' \in Mappings(SourceNames)
  BY Stay DEF SkipFile, NoOverrides, vars, Unchecked
<1>2. CASE SkipFile
  BY <1>1, <1>2 DEF SkipFile, After, TypeOK, Files
<1>3. CASE NoOverrides
  BY <1>1, <1>3, NextSourceType DEF NoOverrides, TypeOK, Files
<1>4. CASE UNCHANGED vars
  BY <1>1, <1>4 DEF vars, TypeOK
<1>5. CASE UNCHANGED Unchecked /\ at' \in {"decode", "done"}
  BY <1>1, <1>5 DEF Unchecked, TypeOK, Files
<1> QED  BY <1>2, <1>3, <1>4, <1>5

LEMMA StepGathers == Gathered /\ [Next]_vars => Gathered'
<1> SUFFICES ASSUME Gathered, [Next]_vars PROVE Gathered'
  OBVIOUS
<1>1. ASSUME \/ RefuseFile \/ RefuseMissing \/ RefuseSecret \/ PassCheck \/ ValidatorRejects
             \/ RefuseDecode \/ RefuseIncomplete \/ Accept
      PROVE  UNCHANGED Unchecked /\ at' \in {"decode", "done"}
  BY <1>1, Zenon
     DEF RefuseFile, RefuseMissing, RefuseSecret, PassCheck, ValidatorRejects, RefuseDecode,
         RefuseIncomplete, Accept, End, Unchecked
<1> QED
  BY <1>1, TakeFileGathers, ReadingGathers, MergeOverridesGathers, StillGathered, Zenon DEF Next

-----------------------------------------------------------------------------
(* What the checks have made sure of. *)
Checked ==
    /\ outcome # "none" => at = "done"
    /\ at = "decode" \/ outcome = "accepted" => Safe
    /\ at = "decode" => summary = [p \in DOMAIN merged |-> MaskValue(p, merged[p])]
    /\ outcome = "crashed" /\ summary = Empty => \E p \in Secrets : Verdict(p) = "crashed"
    /\ outcome = "accepted" =>
          Faulty = {} /\ \A p \in Fields \ {<<>>} : GetPath(out, p) = Decode(p)

\* A value is no error; a field that has a value at all is refused or breaks.
LEMMA ErrorsAre ==
    ASSUME Gathered, NEW p \in Faulty
    PROVE  /\ Decode(p).val \in {"refused", "crashed"}
           /\ Decode(p).val = "crashed" => p \in DOMAIN merged
<1>1. /\ p \in Fields /\ IsError(Decode(p)) /\ p \in DOMAIN given.model
      /\ given \in Givens /\ Tree(merged)
  BY DEF Faulty, Fields, Gathered, TypeOK
<1>2. given.model[p].tp \in {"class", "dict", "bool", "int", "float", "str"}
  BY <1>1, GivenType
<1> DEFINE v == IF p = <<>> THEN Dict ELSE merged[p]
<1>3. v \in Values
  BY <1>1, MappingType, ValueTypes DEF Fields, Tree
<1>4. \A w \in Values : ~IsError(w)
  BY DEF Values, Scalars, Lists, Null, Dict, IsError
<1>5. \A o : Error(o).val = o
  BY DEF Error
<1>6. ASSUME NEW w, w \in {DecodeBool(v), DecodeInt(v), DecodeFloat(v)}, IsError(w)
      PROVE  w.val \in {"refused", "crashed"}
  <2>1. \A t : ~IsError(Bool(t)) /\ ~IsError(Number(t)) /\ ~IsError(Float(t)) /\ ~IsError(v)
    BY <1>3, <1>4 DEF IsError, Bool, Number, Float
  <2>2. CASE w = DecodeBool(v)
    BY <1>5, <1>6, <2>1, <2>2 DEF DecodeBool, ParseBool
  <2>3. CASE w = DecodeInt(v)
    BY <1>5, <1>6, <2>1, <2>3 DEF DecodeInt
  <2>4. CASE w = DecodeFloat(v)
    BY <1>5, <1>6, <2>1, <2>4 DEF DecodeFloat
  <2> QED  BY <1>6, <2>2, <2>3, <2>4
<1>7. \A t : ~IsError(Str(t))
  BY DEF Str, IsError
<1>8. p = <<>> => v = Dict /\ given.model[p].tp \in {"class", "dict"}
  BY <1>1, GivenType
<1> HIDE DEF v
<1>9. Decode(p).val \in {"refused", "crashed"}
  <2>1. ~IsError(Dict) /\ ~IsError(v)
    BY <1>3, <1>4, ValueTypes
  <2>2. CASE v = Null /\ given.model[p].optional
    BY <1>1, <2>1, <2>2 DEF Decode, v
  <2>3. CASE ~(v = Null /\ given.model[p].optional)
    <3> DEFINE tp == given.model[p].tp
    <3>1. CASE tp = "class"
      BY <1>1, <1>5, <2>1, <2>3, <3>1 DEF Decode, v
    <3>2. CASE tp = "dict"
      BY <1>1, <1>5, <2>1, <2>3, <3>2 DEF Decode, v
    <3>3. CASE tp = "str"
      BY <1>1, <1>7, <2>1, <2>3, <3>3 DEF Decode, v
    <3>4. CASE tp \in {"bool", "int", "float"}
      <4>1. Decode(p) \in {DecodeBool(v), DecodeInt(v), DecodeFloat(v)}
        BY <2>3, <3>4 DEF Decode, v
      <4> QED  BY <1>1, <1>6, <4>1
    <3> QED  BY <1>2, <3>1, <3>2, <3>3, <3>4
  <2> QED  BY <2>2, <2>3
<1>10. ASSUME p = <<>>
       PROVE  Decode(p).val # "crashed"
  BY <1>1, <1>4, <1>5, <1>8, <1>10, ValueTypes DEF Decode, v, Null, Dict
<1> QED  BY <1>1, <1>9, <1>10 DEF Fields

\* The judgements are about what no later step changes.
LEMMA SameJudgement ==
    ASSUME UNCHANGED Unchecked
    PROVE  /\ Safe' <=> Safe
           /\ Secrets' = Secrets /\ \A p : Verdict(p)' = Verdict(p)
           /\ Fields' = Fields /\ Faulty' = Faulty /\ \A p : Decode(p)' = Decode(p)
<1>1. UNCHANGED <<given, merged, source_map>>
  BY DEF Unchecked
<1>2. Secrets' = Secrets /\ \A p : Verdict(p)' = Verdict(p)
  BY <1>1 DEF Secrets, Leaves, Sensitive, Verdict, SafeSource
<1>3. Missing' = Missing
  BY <1>1 DEF Missing
<1>4. Safe' <=> Safe
  BY <1>2, <1>3 DEF Safe
<1>5. Fields' = Fields
  BY <1>1 DEF Fields
<1>6. \A p : Decode(p)' = Decode(p)
  BY <1>1 DEF Decode, Unknown
<1>7. Faulty' = Faulty
  BY <1>5, <1>6 DEF Faulty
<1> QED  BY <1>2, <1>4, <1>5, <1>6, <1>7

LEMMA StepChecks == Gathered /\ Checked /\ [Next]_vars => Checked'
<1> SUFFICES ASSUME Gathered, Checked, [Next]_vars PROVE Checked'
  OBVIOUS
<1>1. ASSUME outcome' \in {"none", "refused", "rejected", "incomplete"}, outcome' # "none" => at' = "done",
             at' # "decode"
      PROVE  Checked'
  BY <1>1 DEF Checked
<1>2. CASE SkipFile \/ TakeFile \/ ReadVariable \/ ReadFlag \/ MergeOverrides \/ NoOverrides
  <2>1. outcome' = outcome /\ at \in Files \cup {"env", "flags"}
    BY <1>2
       DEF SkipFile, TakeFile, ReadVariable, ReadFlag, MergeOverrides, NoOverrides, ReadAll,
           NextSource, Outputs, Files
  <2>2. outcome' = "none"
    BY <2>1 DEF Checked, Files
  <2>3. at' = at \/ at' = After(at)
    BY <1>2
       DEF SkipFile, TakeFile, ReadVariable, ReadFlag, MergeOverrides, NoOverrides, NextSource
  <2> QED  BY <1>1, <2>1, <2>2, <2>3 DEF After, Files
<1>3. CASE RefuseFile \/ RefuseMissing \/ ValidatorRejects \/ RefuseIncomplete
  BY <1>1, <1>3 DEF RefuseFile, RefuseMissing, ValidatorRejects, RefuseIncomplete, End
<1>4. CASE RefuseSecret
  <2>1. /\ at' = "done" /\ UNCHANGED Unchecked
        /\ \E p \in Secrets : outcome' = Verdict(p) /\ Verdict(p) \in {"refused", "crashed"}
    BY <1>4 DEF RefuseSecret, End, Verdict
  <2>2. \/ outcome' = "refused"
        \/ outcome' = "crashed" /\ \E p \in Secrets : Verdict(p) = "crashed"
    BY <2>1
  <2> QED  BY <1>1, <2>1, <2>2, SameJudgement DEF Checked
<1>5. CASE PassCheck
  <2>1. /\ at = "check" /\ outcome' = outcome /\ outcome = "none" /\ Safe
        /\ UNCHANGED Unchecked /\ at' = "decode"
        /\ summary' = [p \in DOMAIN merged |-> MaskValue(p, merged[p])]
    BY <1>5 DEF PassCheck, Checked
  <2>2. /\ merged' = merged
        /\ \A p, v : MaskValue(p, v)' = MaskValue(p, v)
    BY <2>1 DEF Unchecked, MaskValue, MaskScalar, Sensitive
  <2>3. summary' = [p \in DOMAIN merged |-> MaskValue(p, merged[p])]'
    BY <2>1, <2>2
  <2> QED  BY <2>1, <2>3, SameJudgement DEF Checked
<1>6. CASE RefuseDecode
  <2>1. PICK p \in Faulty : outcome' = Decode(p).val
    BY <1>6 DEF RefuseDecode, End
  <2>2. /\ at = "decode" /\ at' = "done" /\ UNCHANGED Unchecked /\ summary' = summary
        /\ summary = [q \in DOMAIN merged |-> MaskValue(q, merged[q])]
    BY <1>6 DEF RefuseDecode, End, Checked
  <2>3. outcome' \in {"refused", "crashed"} /\ (outcome' = "crashed" => p \in DOMAIN merged)
    BY <2>1, ErrorsAre
  <2>4. outcome' = "crashed" => summary' # Empty
    BY <2>2, <2>3 DEF Empty
  <2> QED  BY <2>2, <2>3, <2>4 DEF Checked
<1>7. CASE Accept
  <2>1. /\ at = "decode" /\ Faulty = {} /\ at' = "done" /\ outcome' = "accepted"
        /\ UNCHANGED Unchecked /\ Safe
    BY <1>7 DEF Accept, Decoded, End, Checked
  <2>2. \A p \in Fields \ {<<>>} : GetPath(out', p) = Decode(p)
    BY <1>7 DEF Accept, GetPath
  <2>3. \A p : GetPath(out, p)' = GetPath(out', p)
    BY DEF GetPath
  <2> QED  BY <2>1, <2>2, <2>3, SameJudgement DEF Checked
<1>8. CASE UNCHANGED vars
  <2>1. UNCHANGED Unchecked /\ UNCHANGED <<at, outcome, summary, out>>
    BY <1>8 DEF vars, Unchecked
  <2>2. /\ merged' = merged
        /\ \A p, v : MaskValue(p, v)' = MaskValue(p, v)
    BY <2>1 DEF Unchecked, MaskValue, MaskScalar, Sensitive
  <2>3. [p \in DOMAIN merged |-> MaskValue(p, merged[p])]'
          = [p \in DOMAIN merged |-> MaskValue(p, merged[p])]
    BY <2>2
  <2> QED  BY <2>1, <2>3, SameJudgement DEF Checked, GetPath
<1> QED  BY <1>2, <1>3, <1>4, <1>5, <1>6, <1>7, <1>8, Zenon DEF Next

-----------------------------------------------------------------------------
IInv == Gathered /\ Checked

(* The inductive invariant: what is gathered is what was said, and what    *)
(* the checks have judged is what is gathered.                             *)
THEOREM ConfigInductive == Spec => []IInv
<1>1. Init => Checked
  BY DEF Init, Checked
<1>2. IInv /\ [Next]_vars => IInv'
  BY StepGathers, StepChecks DEF IInv
<1> QED  BY <1>1, <1>2, InitGathers, PTL DEF Spec, IInv

(* What load() holds keeps its types: paths lead through mappings, what is *)
(* read of variables and flags is a mapping of texts, none below another   *)
(* (config.py:143-229).                                                    *)
THEOREM ConfigType == Spec => []TypeOK
<1>1. IInv => TypeOK
  BY DEF IInv, Gathered
<1> QED  BY <1>1, ConfigInductive, PTL

(* Whatever the sources, their order and their shapes: on every path the   *)
(* merged mapping has the last word said on it (config.py:56-98,143-164).  *)
THEOREM ConfigLastWordHolds == Spec => []LastWordHolds
<1>1. IInv => LastWordHolds
  BY HoldsIs DEF IInv, Gathered, TypeOK, Tree
<1> QED  BY <1>1, ConfigInductive, PTL

(* The source on record for a leaf is the one that had the last word on it *)
(* (config.py:292-300).                                                    *)
THEOREM ConfigSourcesAreTrue == Spec => []SourcesAreTrue
<1>1. IInv => SourcesAreTrue
  BY DEF IInv, Gathered
<1> QED  BY <1>1, ConfigInductive, PTL

\* The merged mapping by what was said.
LEMMA MergedIs ==
    ASSUME IInv
    PROVE  /\ DOMAIN merged = Told /\ Told \subseteq Paths
           /\ \A p \in Told : merged[p] = SaidOn(p) /\ merged[p] \in Values
<1>1. LastWordHolds /\ said \in Seq(Sayings) /\ LastsFound /\ Tree(merged)
  BY HoldsIs DEF IInv, Gathered, TypeOK, Tree
<1>2. DOMAIN merged = Told /\ \A p \in Told : merged[p] = SaidOn(p)
  BY <1>1 DEF LastWordHolds
<1> QED  BY <1>1, <1>2, MappingType DEF Tree

(* Whatever the sources hold: load() only goes on with every required      *)
(* value there and every secret from where secrets may come, but for those *)
(* within the lists that it does not look into, and only breaks down over  *)
(* a secret that is no text (config.py:281-315,361-369).                   *)
THEOREM ConfigSecretsAreSafe == Spec => []SecretsAreSafe
<1>1. IInv => SecretsAreSafe
  <2> SUFFICES ASSUME IInv PROVE SecretsAreSafe
    OBVIOUS
  <2> DEFINE Given(p) == ~IsMap(SaidOn(p)) /\ ~IsEmpty(SaidOn(p))
             Overlooked(p) == SaidOn(p).type = "list" /\ ~Sensitive(p)
             Text(p) == /\ LastOn(p).source \in {"env", "local"}
                        /\ SaidOn(p).type = "str" /\ SaidOn(p).val \notin Placeholders
  <2>1. /\ DOMAIN merged = Told /\ \A p \in Told : merged[p] = SaidOn(p)
        /\ SourcesAreTrue /\ Checked
    BY MergedIs DEF IInv, Gathered
  <2>2. \A p : p \in Secrets <=> p \in Told /\ Sensitive(p) /\ Given(p)
    BY <2>1 DEF Secrets, Leaves
  <2>3. ASSUME NEW p \in Secrets
        PROVE  source_map[p] = LastOn(p).source
    BY <2>1, <2>3 DEF SourcesAreTrue, Secrets
  <2>4. ASSUME Safe, NEW p \in given.required
        PROVE  p \in Told /\ (Given(p) \/ \E q \in Told : Above(p, q))
    BY <2>1, <2>4 DEF Safe, Missing
  <2>5. ASSUME Safe, NEW p \in Told, Sensitive(p), Given(p)
        PROVE  Text(p)
    <3>1. p \in Secrets /\ merged[p] = SaidOn(p)
      BY <2>1, <2>2, <2>5
    <3>2. Verdict(p) = "fine"
      BY <2>5, <3>1 DEF Safe
    <3>3. SafeSource(p) /\ merged[p].type = "str" /\ merged[p].val \notin Placeholders
      BY <3>2 DEF Verdict
    <3> QED  BY <2>3, <3>1, <3>3 DEF SafeSource
  <2>6. ASSUME NEW p \in Secrets, Verdict(p) = "crashed"
        PROVE  p \in Told /\ Sensitive(p) /\ Given(p) /\ SaidOn(p).type # "str"
    BY <2>1, <2>2, <2>6 DEF Verdict
  <2>7. ASSUME Safe, NEW p \in Told, NEW s \in ScalarsOf(p, SaidOn(p)),
               Sensitive(s[1]), ~IsEmpty(s[2])
        PROVE  Text(p) \/ Overlooked(p)
    <3>1. ~IsMap(SaidOn(p))
      BY <2>7 DEF ScalarsOf
    <3>2. CASE SaidOn(p).type = "list"
      <4>1. SaidOn(p).items # <<>>
        BY <2>7, <3>1, <3>2 DEF ScalarsOf
      <4>2. ~IsEmpty(SaidOn(p))
        <5>1. Null.type = "null" /\ Str("").type = "str" /\ List(<<>>).items = <<>>
          BY DEF Null, Str, List
        <5> QED  BY <3>2, <4>1, <5>1 DEF IsEmpty
      <4> QED  BY <2>5, <2>7, <3>1, <3>2, <4>2
    <3>3. CASE SaidOn(p).type # "list"
      <4>1. s = <<p, SaidOn(p)>>
        BY <2>7, <3>1, <3>3 DEF ScalarsOf
      <4> QED  BY <2>5, <2>7, <3>1, <4>1
    <3> QED  BY <3>2, <3>3
  <2> HIDE DEF Given, Overlooked, Text
  <2>8. at = "decode" \/ outcome = "accepted" =>
          /\ \A p \in given.required :
                p \in Told /\ (Given(p) \/ \E q \in Told : Above(p, q))
          /\ \A p \in Told : \A s \in ScalarsOf(p, SaidOn(p)) :
                Sensitive(s[1]) /\ ~IsEmpty(s[2]) => Text(p) \/ Overlooked(p)
    BY <2>1, <2>4, <2>7 DEF Checked
  <2>9. outcome = "crashed" /\ summary = Empty =>
          \E p \in Told : Sensitive(p) /\ Given(p) /\ SaidOn(p).type # "str"
    BY <2>1, <2>6 DEF Checked
  <2> QED  BY <2>8, <2>9 DEF SecretsAreSafe, Given, Overlooked, Text
<1> QED  BY <1>1, ConfigInductive, PTL

\* Masking by scalars.
LEMMA MaskedScalars ==
    ASSUME NEW p, NEW v
    PROVE  ScalarsOf(p, MaskValue(p, v)) =
             {<<s[1], IF Sensitive(s[1]) THEN Str("***") ELSE MaskUri(s[2])>> :
                s \in ScalarsOf(p, v)}
<1>1. CASE IsMap(v)
  BY <1>1 DEF ScalarsOf, MaskValue
<1>2. CASE v.type = "list"
  <2> DEFINE masked == [i \in DOMAIN v.items |->
                          [path |-> v.items[i].path,
                           value |-> MaskScalar(p \o v.items[i].path, v.items[i].value)]]
  <2>1. MaskValue(p, v) = List(masked) /\ ~IsMap(v)
    BY <1>2 DEF MaskValue, IsMap
  <2>2. List(masked).type = "list" /\ List(masked).items = masked /\ ~IsMap(List(masked))
    BY DEF List, IsMap
  <2>3. /\ DOMAIN masked = DOMAIN v.items
        /\ \A i \in DOMAIN v.items :
              /\ masked[i].path = v.items[i].path
              /\ masked[i].value = MaskScalar(p \o v.items[i].path, v.items[i].value)
    OBVIOUS
  <2> HIDE DEF masked
  <2>4. ScalarsOf(p, List(masked)) = {<<p \o masked[i].path, masked[i].value>> : i \in DOMAIN masked}
    BY <2>2 DEF ScalarsOf
  <2>5. ScalarsOf(p, v) = {<<p \o v.items[i].path, v.items[i].value>> : i \in DOMAIN v.items}
    BY <1>2, <2>1 DEF ScalarsOf
  <2> DEFINE Hide(s) == <<s[1], IF Sensitive(s[1]) THEN Str("***") ELSE MaskUri(s[2])>>
             Item(i) == <<p \o v.items[i].path, v.items[i].value>>
  <2>6. \A i \in DOMAIN v.items : <<p \o masked[i].path, masked[i].value>> = Hide(Item(i))
    BY <2>3 DEF MaskScalar
  <2>7. ScalarsOf(p, v) = {Item(i) : i \in DOMAIN v.items}
    BY <2>5
  <2> HIDE DEF Hide, Item
  <2>8. ScalarsOf(p, List(masked)) = {Hide(Item(i)) : i \in DOMAIN v.items}
    BY <2>3, <2>4, <2>6
  <2>9. ScalarsOf(p, MaskValue(p, v)) = {Hide(s) : s \in ScalarsOf(p, v)}
    BY <2>1, <2>7, <2>8
  <2> QED  BY <2>9 DEF Hide
<1>3. CASE ~IsMap(v) /\ v.type # "list"
  <2>1. MaskValue(p, v) = MaskScalar(p, v)
    BY <1>3 DEF MaskValue
  <2>2. ~IsMap(MaskScalar(p, v)) /\ MaskScalar(p, v).type # "list"
    BY <1>3 DEF MaskScalar, MaskUri, IsMap, Str
  <2>3. ScalarsOf(p, MaskScalar(p, v)) = {<<p, MaskScalar(p, v)>>} /\ ScalarsOf(p, v) = {<<p, v>>}
    BY <1>3, <2>2 DEF ScalarsOf
  <2> QED  BY <2>1, <2>3 DEF MaskScalar
<1> QED  BY <1>1, <1>2, <1>3

(* Whatever was merged: the summary for the log shows the last words, and  *)
(* what is sensitive by any key on its way, in lists too, only as ***      *)
(* (config.py:318-358).                                                    *)
THEOREM ConfigSummaryHidesSecrets == Spec => []SummaryHidesSecrets
<1>1. IInv => SummaryHidesSecrets
  <2> SUFFICES ASSUME IInv, at = "decode"
               PROVE  /\ DOMAIN summary = Told
                      /\ \A p \in Told :
                            ScalarsOf(p, summary[p]) =
                              {<<s[1], IF Sensitive(s[1]) THEN Str("***") ELSE MaskUri(s[2])>> :
                                 s \in ScalarsOf(p, SaidOn(p))}
    BY DEF SummaryHidesSecrets
  <2>1. DOMAIN summary = Told /\ \A p \in Told : summary[p] = MaskValue(p, SaidOn(p))
    BY MergedIs DEF IInv, Checked
  <2> QED  BY <2>1, MaskedScalars
<1> QED  BY <1>1, ConfigInductive, PTL

\* What a field makes of a reading, if it takes it.
LEMMA FieldReading ==
    ASSUME NEW t, NEW v \in Readings(t)
    PROVE  /\ v # Null
           /\ ~IsError(DecodeInt(v)) =>
                 \/ t \in DOMAIN IntOf /\ DecodeInt(v) = Number(IntOf[t])
                 \/ t \in DOMAIN FloatOf /\ DecodeInt(v) = Number(TruncOf[FloatOf[t]])
           /\ ~IsError(DecodeFloat(v)) => DecodeFloat(v) = Float(FloatOf[t])
           /\ ~IsError(DecodeBool(v)) => DecodeBool(v) = ParseBool(t)
           /\ StrOf(v) = v.val
<1>1. ParseBool(t) \in {Bool("True"), Bool("False"), None}
  BY DEF ParseBool
<1>2. /\ \A x : Str(x).type = "str" /\ Str(x).val = x
      /\ \A x : Bool(x).type = "bool" /\ Bool(x).val = x
      /\ \A x : Number(x).type = "int" /\ Number(x).val = x
      /\ \A x : Float(x).type = "float" /\ Float(x).val = x
      /\ Null.type = "null" /\ \A o : IsError(Error(o))
  BY DEF Str, Bool, Number, Float, Null, Error, IsError
<1>3. CASE v = Str(t)
  BY <1>2, <1>3 DEF DecodeInt, DecodeFloat, DecodeBool, StrOf
<1>4. CASE v = ParseBool(t) /\ v # None
  BY <1>1, <1>2, <1>4 DEF DecodeInt, DecodeFloat, DecodeBool, StrOf
<1>5. CASE v = Number(IntOf[t]) /\ t \in DOMAIN IntOf
  <2>1. IntOf[t] \in DOMAIN FloatOf /\ FloatOf[IntOf[t]] = FloatOf[t]
    BY <1>5, TextAssumption
  <2>2. v.type = "int" /\ v.val = IntOf[t] /\ v # Null
    BY <1>2, <1>5
  <2>3. DecodeInt(v) = v
    BY <2>2 DEF DecodeInt
  <2>4. IsError(DecodeBool(v)) /\ StrOf(v) = v.val
    BY <1>2, <2>2 DEF DecodeBool, StrOf
  <2>5. IsError(DecodeFloat(v)) \/ DecodeFloat(v) = Float(FloatOf[t])
    BY <1>2, <2>1, <2>2 DEF DecodeFloat
  <2> QED  BY <1>5, <2>2, <2>3, <2>4, <2>5
<1>6. CASE v = Float(FloatOf[t]) /\ t \in DOMAIN FloatOf
  <2>1. v.type = "float" /\ v.val = FloatOf[t] /\ v # Null
    BY <1>2, <1>6
  <2>2. IsError(DecodeInt(v)) \/ DecodeInt(v) = Number(TruncOf[FloatOf[t]])
    BY <1>2, <2>1 DEF DecodeInt
  <2>3. IsError(DecodeBool(v)) /\ StrOf(v) = v.val
    BY <1>2, <2>1 DEF DecodeBool, StrOf
  <2>4. DecodeFloat(v) = v
    BY <2>1 DEF DecodeFloat
  <2> QED  BY <1>6, <2>1, <2>2, <2>3, <2>4
<1> QED  BY <1>3, <1>4, <1>5, <1>6 DEF Readings, ParseInt, ParseFloat

(* Whatever type a text was given on the way: a field that a variable or a *)
(* flag has the last word on is what the text says to the field's type,    *)
(* but for the fraction that an int field cuts off and the spelling of     *)
(* what a text field's text was taken for (config.py:232-278,384-442).     *)
THEOREM ConfigFieldsTakeTheirTexts == Spec => []FieldsTakeTheirTexts
<1>1. IInv => FieldsTakeTheirTexts
  <2> SUFFICES ASSUME IInv, outcome = "accepted",
                      NEW i \in DOMAIN said, NEW p \in DOMAIN said[i].texts \cap DOMAIN given.model,
                      NEW t, t = said[i].texts[p], NEW tp, tp = given.model[p].tp,
                      LastOn(p) = said[i]
               PROVE  /\ tp = "int" => \/ t \in DOMAIN IntOf /\ GetPath(out, p) = Number(IntOf[t])
                                       \/ /\ t \in DOMAIN FloatOf
                                          /\ GetPath(out, p) = Number(TruncOf[FloatOf[t]])
                      /\ tp = "float" => GetPath(out, p) = Float(FloatOf[t])
                      /\ tp = "bool" => GetPath(out, p) = ParseBool(t)
                      /\ tp = "str" => \E v \in Readings(t) : GetPath(out, p) = Str(v.val)
    BY DEF FieldsTakeTheirTexts
  <2>1. said[i] \in Sayings /\ said \in Seq(Sayings) /\ LastsFound
    BY ElementOfSeq, LenProperties DEF IInv, Gathered, TypeOK
  <2>2. p \in DOMAIN said[i].words /\ said[i].words[p] \in Readings(t)
    BY DEF IInv, Gathered, TextsStand
  <2>3. t \in STRING /\ p \in Paths
    BY <2>1, MappingType DEF Sayings
  <2>4. Names(said[i], p) /\ p \in Spoken
    BY <2>1, <2>2, <2>3, LeadsSelf, SpokenIs DEF Names
  <2>5. SaidOn(p) = said[i].words[p]
    BY <2>2, <2>4 DEF SaidOn
  <2> DEFINE v == SaidOn(p)
  <2>6. v \in Readings(t) /\ v \in Values /\ v # None /\ v # Null /\ ~IsMap(v)
    BY <2>2, <2>3, <2>5, ReadingType, ValueTypes, FieldReading
  <2>7. p \in DOMAIN merged /\ merged[p] = v /\ p # <<>>
    BY <2>3, <2>6, ToldIs, MergedIs DEF Paths
  <2>8. p \in Fields \ {<<>>} /\ GetPath(out, p) = Decode(p) /\ ~IsError(Decode(p))
    BY <2>7 DEF Fields, IInv, Checked, Faulty
  <2>9. /\ tp = "int" => Decode(p) = DecodeInt(v)
        /\ tp = "float" => Decode(p) = DecodeFloat(v)
        /\ tp = "bool" => Decode(p) = DecodeBool(v)
        /\ tp = "str" => Decode(p) = Str(StrOf(v))
    BY <2>6, <2>7 DEF Decode
  <2> HIDE DEF v
  <2> QED  BY <2>6, <2>8, <2>9, FieldReading
<1> QED  BY <1>1, ConfigInductive, PTL
=============================================================================
