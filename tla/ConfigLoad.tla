------------------------------ MODULE ConfigLoad ------------------------------
(***************************************************************************)
(* config.py load: files, environment variables and flags are merged into  *)
(* one mapping, which is checked, masked for the log and decoded.  A step  *)
(* takes one source, or one item of one: os.environ has no order that a    *)
(* caller chooses.  A nested mapping is a function from the paths in it to *)
(* what is there, inner mappings among them, so no operator recurses.      *)
(* Texts and keys are whole; what int(), lower() and the like make of them *)
(* is given by constants.                                                  *)
(***************************************************************************)
EXTENDS Integers, Sequences

CONSTANTS Givens,     \* what load() may find: options, files, variables, flags
          LowerOf,    \* lower-case forms, of texts that have another
          IntOf,      \* the numerals that int() reads, each with its str()
          FloatOf,    \* those that float() reads, each with its str()
          TruncOf,    \* the str() of finite floats, each with that of its int()
          Upper,      \* words of upper-case letters, digits and underscores
          UriMasked,  \* URIs with user info, each with its masked form
          Placeholders \* texts that stand for a secret

VARIABLES given,      \* chosen at Init
          at,         \* the source or the check that is next
          merged, source_map, sources,
          overrides,  \* env_map or flag_map, as far as it is made
          unread,     \* the variables, or the flags, that are left
          outcome, summary, out,
          heard,      \* history: the texts that overrides is to hold, by path
          said        \* history: what each source that was merged says

vars == <<given, at, merged, source_map, sources, overrides, unread, outcome,
          summary, out, heard, said>>

-----------------------------------------------------------------------------
None == [type |-> "none"]
Null == [type |-> "null"]
Dict == [type |-> "map"]
Str(t) == [type |-> "str", val |-> t]
Bool(t) == [type |-> "bool", val |-> t]     \* t is "True" or "False"
Number(t) == [type |-> "int", val |-> t]
Float(t) == [type |-> "float", val |-> t]

Scalars == {Null} \cup [type : {"str", "bool", "int", "float"}, val : STRING]

\* A list is the scalars in it, each with the keys below which it is.
List(items) == [type |-> "list", items |-> items]
Lists == [type : {"list"}, items : Seq([path : Seq(STRING), value : Scalars])]

Values == Scalars \cup Lists \cup {Dict}

IsMap(v) == v.type = "map"
IsEmpty(v) == v \in {Null, Str(""), List(<<>>)}

Paths == Seq(STRING) \ {<<>>}
UpTo(p) == {SubSeq(p, 1, n) : n \in 1..Len(p)}
Leads(p, q) == Len(p) <= Len(q) /\ \A i \in 1..Len(p) : p[i] = q[i]
Above(p, q) == Leads(p, q) /\ p # q

Empty == [p \in {} |-> Dict]
Leaves(data) == {p \in DOMAIN data : ~IsMap(data[p])}

Lower(t) == IF t \in DOMAIN LowerOf THEN LowerOf[t] ELSE t
Path(words) == [i \in DOMAIN words |-> Lower(words[i])]

\* The entries of a file in their order: each path once, and in a mapping.
File(f) ==
    /\ f.root \in Values
    /\ f.nodes \in Seq([path : Paths, value : Values])
    /\ \A i, j \in DOMAIN f.nodes : f.nodes[i].path = f.nodes[j].path => i = j
    /\ \A i \in DOMAIN f.nodes : \A q \in UpTo(f.nodes[i].path) :
          \E j \in DOMAIN f.nodes :
             f.nodes[j].path = q /\ (q # f.nodes[i].path => f.nodes[j].value = Dict)

ASSUME GivenAssumption ==
    \A g \in Givens :
       /\ \A f \in DOMAIN g.files : File(g.files[f])
       /\ \A v \in g.env : v.name \in Paths /\ v.text \in STRING
       /\ g.flags \in Seq([key : Seq(STRING), text : STRING])
       /\ g.prefix \in STRING /\ g.deploy \in Seq(STRING)
       /\ g.required \subseteq Paths
       /\ <<>> \in DOMAIN g.model /\ g.model[<<>>].tp \in {"class", "dict"}
       /\ \A p \in DOMAIN g.model :
             g.model[p].tp \in {"class", "dict", "bool", "int", "float", "str"}

ASSUME TextAssumption ==
    /\ \A t \in DOMAIN LowerOf : LowerOf[t] \in STRING
    /\ \A t \in DOMAIN IntOf : IntOf[t] \in STRING
    /\ \A t \in DOMAIN FloatOf : FloatOf[t] \in STRING
    /\ \A t \in DOMAIN TruncOf : TruncOf[t] \in STRING /\ t \notin {"inf", "-inf"}
    /\ \A t \in DOMAIN IntOf :
          {t, IntOf[t]} \subseteq DOMAIN FloatOf /\ FloatOf[IntOf[t]] = FloatOf[t]
    /\ {"True", "False"} \subseteq STRING

TrueWords == {"true", "1", "t", "yes", "y", "on"}
FalseWords == {"false", "0", "f", "no", "n", "off"}

Files == {"default", "env-file", "local"}

After(s) ==
    CASE s = "default" -> "env-file"
      [] s = "env-file" -> "local"
      [] s = "local" -> "env"
      [] s = "env" -> "flags"
      [] OTHER -> "check"

Init ==
    /\ given \in Givens
    /\ at = "default"
    /\ merged = Empty /\ source_map = Empty /\ sources = <<>>
    /\ overrides = Empty /\ unread = given.env /\ heard = Empty /\ said = <<>>
    /\ outcome = "none" /\ summary = Empty /\ out = Empty

-----------------------------------------------------------------------------
\* Keys that differ in case are one key in the end, and the last entry has it.
Hidden(nodes, k) ==
    \E j \in DOMAIN nodes :
       LET p == nodes[k].path
           q == nodes[j].path IN
       /\ j > k /\ Len(q) = Len(p)
       /\ \A i \in 1..Len(p) - 1 : q[i] = p[i]
       /\ Lower(q[Len(q)]) = Lower(p[Len(p)])

Kept(nodes) ==
    {i \in DOMAIN nodes :
        \A k \in DOMAIN nodes : Leads(nodes[k].path, nodes[i].path) => ~Hidden(nodes, k)}

NormalizeValue(v) ==
    IF v.type = "list"
    THEN List([i \in DOMAIN v.items |->
                  [path |-> Path(v.items[i].path), value |-> v.items[i].value]])
    ELSE v

Normalize(nodes) ==
    LET kept == Kept(nodes) IN
    [p \in {Path(nodes[i].path) : i \in kept} |->
        NormalizeValue(nodes[CHOOSE i \in kept : Path(nodes[i].path) = p].value)]

\* Mutant: a mapping replaces the mapping below it.
MergeMaps_Shallow(dst, src) ==
    [p \in DOMAIN src \cup {q \in DOMAIN dst : <<q[1]>> \notin DOMAIN src} |->
        IF p \in DOMAIN src THEN src[p] ELSE dst[p]]

\* What is in dst stays where src has nothing, and src only mappings above it.
MergeMaps(dst, src) ==
    LET stays == {p \in DOMAIN dst :
                     \A q \in DOMAIN src : Leads(q, p) => IsMap(src[q]) /\ IsMap(dst[q])} IN
    [p \in DOMAIN src \cup stays |-> IF p \in DOMAIN src THEN src[p] ELSE dst[p]]

SetPath(data, nodes, value) ==
    [p \in {q \in DOMAIN data : ~Leads(nodes, q)} \cup UpTo(nodes) |->
        IF p = nodes THEN value ELSE IF p \in UpTo(nodes) THEN Dict ELSE data[p]]

GetPath(data, p) == IF p \in DOMAIN data THEN data[p] ELSE None

ParseBool(t) ==
    IF Lower(t) \in TrueWords THEN Bool("True")
    ELSE IF Lower(t) \in FalseWords THEN Bool("False") ELSE None

ParseInt(t) == IF t \in DOMAIN IntOf THEN Number(IntOf[t]) ELSE None
ParseFloat(t) == IF t \in DOMAIN FloatOf THEN Float(FloatOf[t]) ELSE None

ParseWithHint(hint, t) ==
    LET any == IF ParseBool(t) # None THEN ParseBool(t)
               ELSE IF ParseInt(t) # None THEN ParseInt(t) ELSE ParseFloat(t)
        parsed == CASE hint.type = "bool" -> ParseBool(t)
                    [] hint.type = "int" -> ParseInt(t)
                    [] hint.type = "float" -> ParseFloat(t)
                    [] OTHER -> any IN
    IF parsed = None THEN Str(t) ELSE parsed

TypedOverrides(base, f) ==
    [p \in DOMAIN f |-> IF IsMap(f[p]) THEN f[p] ELSE ParseWithHint(GetPath(base, p), f[p].val)]

\* Mutant: what is recorded stays.
RecordSources_First(data, source) ==
    [p \in Leaves(data) \cup DOMAIN source_map |->
        IF p \in DOMAIN source_map THEN source_map[p] ELSE source]

RecordSources(data, source) ==
    [p \in Leaves(data) \cup DOMAIN source_map |->
        IF p \in Leaves(data) THEN source ELSE source_map[p]]

-----------------------------------------------------------------------------
(* What the sources say, told without the merge: the words of a source are *)
(* by path; of variables and flags only the texts, not the mappings around *)
(* them.                                                                   *)
Names(s, p) == \E q \in DOMAIN s.words : Leads(p, q)
Cuts(s, p) == \E q \in DOMAIN s.words : Above(q, p) /\ ~IsMap(s.words[q])
Decides(s, p) == Names(s, p) \/ Cuts(s, p)

\* The last source that has a say on path p.
LastOn(p) ==
    said[CHOOSE i \in DOMAIN said :
            Decides(said[i], p) /\ \A j \in i+1..Len(said) : ~Decides(said[j], p)]

\* The paths that some source names.
Spoken == UNION {UNION {UpTo(q) : q \in DOMAIN said[i].words} : i \in DOMAIN said}

\* What is on path p by the last word on it.
SaidOn(p) ==
    IF p \notin Spoken \/ ~Names(LastOn(p), p) THEN None
    ELSE IF p \in DOMAIN LastOn(p).words THEN LastOn(p).words[p] ELSE Dict

Told == {p \in Spoken : SaidOn(p) # None}

-----------------------------------------------------------------------------
DeployVar ==
    IF given.deploy = <<>> \/ given.prefix = "" THEN given.deploy
    ELSE <<given.prefix>> \o given.deploy

DeployEnv ==
    {Lower(v.text) : v \in {w \in given.env : w.name = DeployVar /\ DeployVar # <<>>
                                              /\ w.text # ""}}

\* config.local.yaml is read a second time when the deployment is "local".
FilesFor(s) ==
    {f \in DOMAIN given.files : IF s = "env-file" THEN f \in DeployEnv ELSE f = s}

End(o) == at' = "done" /\ outcome' = o

Outputs == <<outcome, summary, out>>

\* What Python takes for false is an empty mapping.
IsMapping(f) ==
    \/ IsMap(given.files[f].root) \/ IsEmpty(given.files[f].root)
    \/ given.files[f].root \in {Bool("False"), Number("0"), Float("0.0"), Float("-0.0")}

\* No such file, or no deployment.
SkipFile ==
    /\ at \in Files /\ FilesFor(at) = {}
    /\ at' = After(at)
    /\ UNCHANGED <<given, merged, source_map, sources, overrides, unread, Outputs, heard, said>>

TakeFile ==
    /\ at \in Files
    /\ \E f \in FilesFor(at) :
          LET data == Normalize(given.files[f].nodes) IN
          /\ IsMapping(f)
          /\ merged' = MergeMaps(merged, data)
          /\ source_map' = RecordSources(data, at)
          /\ said' = Append(said, [source |-> at, words |-> data, texts |-> Empty])
    /\ sources' = Append(sources, at)
    /\ at' = After(at)
    /\ UNCHANGED <<given, overrides, unread, Outputs, heard>>

\* A file that is no mapping.
RefuseFile ==
    /\ at \in Files
    /\ \E f \in FilesFor(at) : ~IsMapping(f)
    /\ End("refused")
    /\ UNCHANGED <<given, merged, source_map, sources, overrides, unread, summary, out,
                   heard, said>>

\* Where a variable's text goes; <<>> where it is ignored.
EnvNodes(name) ==
    LET words == Tail(name) IN
    IF given.prefix = "" \/ name[1] # given.prefix \/ words = <<>>
       \/ ~(\A i \in DOMAIN name : name[i] \in Upper) THEN <<>>
    ELSE IF name = DeployVar /\ given.deploy # <<>>
         THEN <<Lower(given.prefix)>> \o Path(given.deploy)
    ELSE IF \E i \in DOMAIN words : words[i] = "" THEN <<>> ELSE Path(words)

Override(nodes, text) ==
    IF nodes = <<>> THEN UNCHANGED <<overrides, heard>>
    ELSE /\ overrides' = SetPath(overrides, nodes, Str(text))
         /\ heard' = [p \in {q \in DOMAIN heard : ~Leads(q, nodes) /\ ~Leads(nodes, q)}
                               \cup {nodes} |-> IF p = nodes THEN text ELSE heard[p]]

ReadVariable ==
    /\ at = "env"
    /\ \E v \in unread :
          /\ unread' = unread \ {v}
          /\ Override(EnvNodes(v.name), v.text)
    /\ UNCHANGED <<given, at, merged, source_map, sources, Outputs, said>>

\* Flags come in their order; a key <<>> is no flag, or has no name.
ReadFlag ==
    /\ at = "flags" /\ unread # <<>>
    /\ unread' = Tail(unread)
    /\ Override(Path(Head(unread).key), Head(unread).text)
    /\ UNCHANGED <<given, at, merged, source_map, sources, Outputs, said>>

NextSource ==
    /\ at' = After(at)
    /\ unread' = IF at = "env" THEN given.flags ELSE unread
    /\ UNCHANGED <<given, Outputs>>

ReadAll == \/ at = "env" /\ unread = {}
           \/ at = "flags" /\ unread = <<>>

MergeOverrides ==
    /\ ReadAll /\ overrides # Empty
    /\ merged' = MergeMaps(merged, TypedOverrides(merged, overrides))
    /\ source_map' = RecordSources(overrides, at)
    /\ sources' = Append(sources, at)
    /\ said' = Append(said, [source |-> at, texts |-> heard,
                  words |-> [p \in DOMAIN heard |-> ParseWithHint(SaidOn(p), heard[p])]])
    /\ overrides' = Empty /\ heard' = Empty
    /\ NextSource

NoOverrides ==
    /\ ReadAll /\ overrides = Empty
    /\ NextSource
    /\ UNCHANGED <<merged, source_map, sources, overrides, heard, said>>

-----------------------------------------------------------------------------
\* What is sensitive is so by any part of its path.
Sensitive(p) == \E i \in DOMAIN p : p[i] \in given.sensitive

Missing ==
    {p \in given.required :
        \/ p \notin DOMAIN merged \/ IsEmpty(merged[p])
        \/ IsMap(merged[p]) /\ ~\E q \in DOMAIN merged : Above(p, q)}

Secrets == {p \in Leaves(merged) : Sensitive(p) /\ ~IsEmpty(merged[p])}

\* Mutant: the file of a deployment may hold secrets, too.
SafeSource_EnvFile(p) == p \in DOMAIN source_map /\ source_map[p] \in {"env", "local", "env-file"}

SafeSource(p) == p \in DOMAIN source_map /\ source_map[p] \in {"env", "local"}

\* What a secret makes of load(): one that is no text has no strip().
Verdict(p) ==
    IF ~SafeSource(p) THEN "refused"
    ELSE IF merged[p].type # "str" THEN "crashed"
    ELSE IF merged[p].val \in Placeholders THEN "refused" ELSE "fine"

Unchecked == <<given, merged, source_map, sources, overrides, unread, heard, said>>

RefuseMissing ==
    /\ at = "check" /\ Missing # {}
    /\ End("refused")
    /\ UNCHANGED <<Unchecked, summary, out>>

\* The first that is wrong, in the order of the mapping.
RefuseSecret ==
    /\ at = "check" /\ Missing = {}
    /\ \E p \in Secrets : Verdict(p) # "fine" /\ End(Verdict(p))
    /\ UNCHANGED <<Unchecked, summary, out>>

Safe == Missing = {} /\ \A p \in Secrets : Verdict(p) = "fine"

MaskUri(v) ==
    IF v.type = "str" /\ v.val \in DOMAIN UriMasked THEN Str(UriMasked[v.val]) ELSE v

\* Mutant: a key below a sensitive one is not sensitive.
MaskScalar_KeyOnly(p, v) ==
    IF Sensitive(<<p[Len(p)]>>) THEN Str("***") ELSE MaskUri(v)

MaskScalar(p, v) == IF Sensitive(p) THEN Str("***") ELSE MaskUri(v)

MaskValue(p, v) ==
    IF IsMap(v) THEN v
    ELSE IF v.type = "list"
         THEN List([i \in DOMAIN v.items |->
                       [path |-> v.items[i].path,
                        value |-> MaskScalar(p \o v.items[i].path, v.items[i].value)]])
    ELSE MaskScalar(p, v)

PassCheck ==
    /\ at = "check" /\ Safe
    /\ summary' = [p \in DOMAIN merged |-> MaskValue(p, merged[p])]
    /\ at' = "decode"
    /\ UNCHANGED <<Unchecked, outcome, out>>

-----------------------------------------------------------------------------
Error(o) == [type |-> "error", val |-> o]
IsError(v) == v.type = "error"

\* str(), by which a text that was taken for something else is another one.
StrOf(v) == IF v.type \in {"str", "bool", "int", "float"} THEN v.val ELSE "{...}"

\* Mutant: a text is true unless it is empty.
DecodeBool_Truthy(v) ==
    IF v.type = "bool" THEN v
    ELSE IF v.type = "str" THEN Bool(IF v.val = "" THEN "False" ELSE "True")
    ELSE Error("refused")

DecodeBool(v) ==
    IF v.type = "bool" THEN v
    ELSE IF v.type = "str" /\ ParseBool(v.val) # None THEN ParseBool(v.val)
    ELSE Error("refused")

\* int() cuts off the fraction of a float; that of nan is a ValueError, that of
\* an infinite one an OverflowError, which nobody catches.
DecodeInt(v) ==
    CASE v.type = "int" -> v
      [] v.type = "float" /\ v.val \in DOMAIN TruncOf -> Number(TruncOf[v.val])
      [] v.type = "float" /\ v.val \in {"inf", "-inf"} -> Error("crashed")
      [] v.type = "str" /\ v.val \in DOMAIN IntOf -> Number(IntOf[v.val])
      [] OTHER -> Error("refused")

\* Of an integer that is too large for it, float() is an OverflowError.
DecodeFloat(v) ==
    IF v.type = "float" THEN v
    ELSE IF v.type \notin {"int", "str"} \/ v.val \notin DOMAIN FloatOf THEN Error("refused")
    ELSE IF v.type = "int" /\ FloatOf[v.val] \in {"inf", "-inf"} THEN Error("crashed")
    ELSE Float(FloatOf[v.val])

\* The parts of the model that there is a value for.
Fields == {p \in DOMAIN given.model : p = <<>> \/ p \in DOMAIN merged}

Unknown(p) == \E q \in DOMAIN merged : Len(q) = Len(p) + 1 /\ Leads(p, q)
                                       /\ q \notin DOMAIN given.model

\* An unknown field is refused if load() is strict, and left out otherwise.
Decode(p) ==
    LET v == IF p = <<>> THEN Dict ELSE merged[p]
        tp == given.model[p].tp IN
    IF v = Null /\ given.model[p].optional THEN v ELSE
    CASE tp = "class" ->
            IF ~IsMap(v) \/ (given.strict /\ Unknown(p)) THEN Error("refused") ELSE v
      [] tp = "dict" ->
            IF IsMap(v) THEN v
            ELSE IF v \in {Str(""), List(<<>>)} THEN Dict ELSE Error("crashed")
      [] tp = "bool" -> DecodeBool(v)
      [] tp = "int" -> DecodeInt(v)
      [] tp = "float" -> DecodeFloat(v)
      [] tp = "str" -> IF v = Null THEN v ELSE Str(StrOf(v))

Faulty == {p \in Fields : IsError(Decode(p))}

\* A field, the first in the order of its class, that cannot be had.
RefuseDecode ==
    /\ at = "decode"
    /\ \E p \in Faulty : (\A q \in Faulty : ~Above(q, p)) /\ End(Decode(p).val)
    /\ UNCHANGED <<Unchecked, summary, out>>

\* Classes with a field that has neither a value nor a default.
Incomplete ==
    {p \in Fields :
        /\ given.model[p].tp = "class" /\ IsMap(Decode(p))
        /\ \E q \in DOMAIN given.model \ DOMAIN merged :
              Len(q) = Len(p) + 1 /\ Leads(p, q) /\ ~given.model[q].default}

\* The class is called when its fields are decoded: a TypeError.
RefuseIncomplete ==
    /\ at = "decode"
    /\ \E p \in Incomplete : \A q \in Faulty : ~Leads(p, q) /\ ~Leads(q, p)
    /\ End("incomplete")
    /\ UNCHANGED <<Unchecked, summary, out>>

Decoded == at = "decode" /\ Faulty = {} /\ Incomplete = {}

Accept ==
    /\ Decoded
    /\ End("accepted")
    /\ LET inDict == {p \in DOMAIN merged :
                         \E q \in Fields : Above(q, p) /\ given.model[q].tp = "dict"} IN
       out' = [p \in (Fields \ {<<>>}) \cup inDict |->
                  IF p \in Fields THEN Decode(p) ELSE merged[p]]
    /\ UNCHANGED <<Unchecked, summary>>

\* A caller's validate_map or validate_config raises.
ValidatorRejects ==
    /\ (at = "check" /\ Safe) \/ Decoded
    /\ End("rejected")
    /\ UNCHANGED <<Unchecked, summary, out>>

Next ==
    \/ SkipFile \/ TakeFile \/ RefuseFile \/ ReadVariable \/ ReadFlag
    \/ MergeOverrides \/ NoOverrides \/ RefuseMissing \/ RefuseSecret \/ PassCheck
    \/ ValidatorRejects \/ RefuseDecode \/ RefuseIncomplete \/ Accept

Spec == Init /\ [][Next]_vars

-----------------------------------------------------------------------------
(* The merged mapping is, on every path, what the last source says that    *)
(* has a say on it: files, then variables, then flags, whatever has a      *)
(* scalar where another has a mapping, and in whatever order the variables *)
(* come (README.md:63, config.py:143-164).                                 *)
LastWordHolds == merged = [p \in Told |-> SaidOn(p)]

(* The source on record for a leaf is the one whose word it is, although   *)
(* source_map keeps what was overridden since (config.py:292-300).         *)
SourcesAreTrue ==
    \A p \in Leaves(merged) : p \in DOMAIN source_map /\ source_map[p] = LastOn(p).source

\* The scalars of a value at p with their paths, those in lists, too.
ScalarsOf(p, v) ==
    IF IsMap(v) THEN {}
    ELSE IF v.type = "list" THEN {<<p \o v.items[i].path, v.items[i].value>> : i \in DOMAIN v.items}
    ELSE {<<p, v>>}

(* load() only goes on to decode if what is required is there, and every   *)
(* secret is a text that the environment or the local file had the last    *)
(* word on, and no placeholder - every one but those within a list whose   *)
(* own path is not sensitive, which nobody looks into, and which may come  *)
(* from any source.  It only breaks down over a secret that was no text    *)
(* any more (README.md:70, config.py:281-315,361-369).                     *)
SecretsAreSafe ==
    LET Given(p) == ~IsMap(SaidOn(p)) /\ ~IsEmpty(SaidOn(p))
        Overlooked(p) == SaidOn(p).type = "list" /\ ~Sensitive(p) IN
    /\ at = "decode" \/ outcome = "accepted" =>
          /\ \A p \in given.required :
                p \in Told /\ (Given(p) \/ \E q \in Told : Above(p, q))
          /\ \A p \in Told : \A s \in ScalarsOf(p, SaidOn(p)) :
                Sensitive(s[1]) /\ ~IsEmpty(s[2]) =>
                    \/ /\ LastOn(p).source \in {"env", "local"}
                       /\ SaidOn(p).type = "str" /\ SaidOn(p).val \notin Placeholders
                    \/ Overlooked(p)
    /\ outcome = "crashed" /\ summary = Empty =>
          \E p \in Told : Sensitive(p) /\ Given(p) /\ SaidOn(p).type # "str"

(* The summary that goes to the log shows the last words of the sources,   *)
(* but what is sensitive, and nothing else, as *** - below a sensitive key *)
(* and within lists, too (README.md:71, config.py:318-358).                *)
SummaryHidesSecrets ==
    at = "decode" =>
        /\ DOMAIN summary = Told
        /\ \A p \in Told :
              ScalarsOf(p, summary[p]) =
                  {<<s[1], IF Sensitive(s[1]) THEN Str("***") ELSE MaskUri(s[2])>> :
                      s \in ScalarsOf(p, SaidOn(p))}

\* What a text may be taken for.
Readings(t) == {Str(t)} \cup ({ParseBool(t), ParseInt(t), ParseFloat(t)} \ {None})

(* A field that a variable or a flag has the last word on is what its text *)
(* says to the field's type, whatever type the text was given on the way.  *)
(* Two types may lose some of it: an int field may get what is left of the *)
(* float that its text was taken for, and a text field the spelling of the *)
(* truth or the number (config.py:232-278,384-442).                        *)
FieldsTakeTheirTexts ==
    outcome = "accepted" =>
        \A i \in DOMAIN said : \A p \in DOMAIN said[i].texts \cap DOMAIN given.model :
            LET t == said[i].texts[p]
                tp == given.model[p].tp IN
            LastOn(p) = said[i] =>
                /\ tp = "int" => \/ t \in DOMAIN IntOf /\ GetPath(out, p) = Number(IntOf[t])
                                 \/ /\ t \in DOMAIN FloatOf
                                    /\ GetPath(out, p) = Number(TruncOf[FloatOf[t]])
                /\ tp = "float" => GetPath(out, p) = Float(FloatOf[t])
                /\ tp = "bool" => GetPath(out, p) = ParseBool(t)
                /\ tp = "str" => \E v \in Readings(t) : GetPath(out, p) = Str(v.val)
=============================================================================
