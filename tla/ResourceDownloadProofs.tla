----------------------- MODULE ResourceDownloadProofs -----------------------
(***************************************************************************)
(* Proofs about ResourceDownload for any number of calls, any limits, any  *)
(* sizes of chunks and pieces and any contents.                            *)
(***************************************************************************)
EXTENDS ResourceDownload, TLAPS

LEMMA MinOfTwo ==
    ASSUME NEW a \in Int, NEW b \in Int
    PROVE  Min({a, b}) = IF a <= b THEN a ELSE b
  <1>1. \E x \in {a, b} : \A y \in {a, b} : x =< y
    OBVIOUS
  <1>2. /\ Min({a, b}) \in {a, b}
        /\ \A y \in {a, b} : Min({a, b}) =< y
    BY <1>1 DEF Min
  <1> QED  BY <1>2

LEMMA SizeFacts ==
    /\ MaxBytes \in Nat /\ DataMaxBytes \in Nat /\ Chunk \in Nat /\ Piece \in Nat
    /\ Endless \in Nat
    /\ 0 < MaxBytes /\ 0 < Chunk /\ 0 < Piece /\ MaxBytes + Piece <= Endless
    /\ MaxBytes < Endless
    /\ \A s \in Sizes : s \in Nat /\ s < Endless
  BY SizeAssumption

LEMMA RequestFacts ==
    ASSUME NEW r \in Requests \cup {NoReq}
    PROVE  /\ r.how \in {"download", "open"}
           /\ r.kind \in {"data", "http", "custom"}
           /\ r.size \in 0..Endless /\ r.declared \in Int
           /\ r.kind # "http" => r.size < Endless
  <1>1. CASE r = NoReq  BY <1>1, SizeFacts DEF NoReq
  <1>2. CASE r \in Requests
    <2>1. \E how \in {"download", "open"}, kind \in {"data", "http", "custom"},
             size \in Sizes \cup {Endless}, declared \in {-1, MaxBytes, MaxBytes + 1} \cup Sizes :
             /\ r = [how |-> how, kind |-> kind, size |-> size, declared |-> declared]
             /\ kind # "http" => size \in Sizes
      BY <1>2 DEF Requests
    <2> QED  BY <2>1, SizeFacts
  <1> QED  BY <1>1, <1>2

\* The case split on the next-state relation that every step proof uses.
LEMMA StepCases ==
    ASSUME [Next]_vars
    PROVE  \/ \E c \in Calls :
                \/ Request(c) \/ OpenFails(c) \/ DataRefused(c) \/ Opened(c)
                \/ Refuse(c) \/ Prepare(c) \/ PrepareFails(c) \/ Create(c)
                \/ Fetch(c) \/ LimitedRead(c) \/ OverLimit(c) \/ PlainRead(c)
                \/ Write(c) \/ Raises(c) \/ DeclaredTooBig(c) \/ Replace(c)
                \/ Close(c) \/ RemoveFails(c) \/ CloseFails(c) \/ LateOpen(c)
                \/ Crash(c)
           \/ UNCHANGED vars
  BY Zenon DEF Next, Step, Fault

\* What is left of the limit, and that a limited read asks for something.
LEMMA AskedFacts ==
    ASSUME TypeOK, NEW c \in Calls
    PROVE  /\ Remaining(c) \in 0..MaxBytes
           /\ Limited(c) => Asked(c) \in 1..(MaxBytes + 1)
           /\ ~Limited(c) => Asked(c) \in Nat \ {0}
           /\ ~Limited(c) /\ ~Downloads(c) => Asked(c) = Endless
           /\ Limited(c) /\ ~Downloads(c) => Asked(c) = Remaining(c) + 1
  <1>1. job[c].counted \in 0..MaxBytes  BY DEF TypeOK, Job
  <1>2. Remaining(c) \in 0..MaxBytes  BY <1>1, SizeFacts DEF Remaining
  <1> QED  BY <1>2, SizeFacts DEF Asked

-----------------------------------------------------------------------------
LEMMA TypeStep == TypeOK /\ [Next]_vars => TypeOK'
  <1> SUFFICES ASSUME TypeOK, [Next]_vars PROVE TypeOK'
    OBVIOUS
  <1> USE SizeFacts
  <1>a. ASSUME NEW c \in Calls, NEW j \in Job, job' = [job EXCEPT ![c] = j],
               req' \in [Calls -> Requests \cup {NoReq}],
               dst' \in [by : Calls, bytes : 0..Endless] \cup {NoFile}
        PROVE  TypeOK'
    BY <1>a DEF TypeOK
  <1>b. \A c \in Calls : job[c] \in Job  BY DEF TypeOK
  <1>1. ASSUME NEW c \in Calls, Request(c) PROVE TypeOK'
    <2> PICK r \in Requests : /\ req' = [req EXCEPT ![c] = r]
                              /\ job' = [job EXCEPT ![c].pc = "open", ![c].left = r.size]
      BY <1>1 DEF Request
    <2> DEFINE j == [job[c] EXCEPT !.pc = "open", !.left = r.size]
    <2>1. r.size \in 0..Endless  BY RequestFacts
    <2>2. j \in Job  BY <1>b, <2>1 DEF Job
    <2>3. job' = [job EXCEPT ![c] = j]  BY DEF TypeOK
    <2>4. req' \in [Calls -> Requests \cup {NoReq}] /\ dst' = dst
      BY <1>1 DEF Request, TypeOK
    <2> QED  BY <1>a, <2>2, <2>3, <2>4 DEF TypeOK
  <1>2. ASSUME NEW c \in Calls,
               OpenFails(c) \/ DataRefused(c) \/ Opened(c) \/ Refuse(c) \/ Prepare(c)
        PROVE  TypeOK'
    BY <1>2 DEF OpenFails, DataRefused, Opened, Refuse, Prepare, End, Failures,
                TypeOK, Job, Ends
  <1>3. ASSUME NEW c \in Calls,
               PrepareFails(c) \/ Create(c) \/ OverLimit(c) \/ Raises(c) \/ DeclaredTooBig(c)
        PROVE  TypeOK'
    BY <1>3 DEF PrepareFails, Create, OverLimit, Raises, DeclaredTooBig, Failures,
                TypeOK, Job, Ends
  <1>4. ASSUME NEW c \in Calls,
               Close(c) \/ RemoveFails(c) \/ CloseFails(c) \/ Crash(c)
        PROVE  TypeOK'
    BY <1>4 DEF Close, RemoveFails, CloseFails, Crash, Failures, TypeOK, Job, Ends
  <1>11. ASSUME NEW c \in Calls, LateOpen(c) PROVE TypeOK'
    <2>1. PICK tmp \in BOOLEAN, slips \in SUBSET {"prepare", "close", "remove", "late"} :
             job' = [job EXCEPT ![c] = [job[c] EXCEPT !.late = FALSE, !.tmp = tmp,
                                                      !.slips = slips]]
      <3>1. job[c].tmp \in BOOLEAN
        BY <1>b DEF Job
      <3>2. job[c].slips \in SUBSET {"prepare", "close", "remove", "late"}
        BY <1>b DEF Job
      <3>3. CASE job' = [job EXCEPT ![c].late = FALSE]
        <4>1. [job[c] EXCEPT !.late = FALSE] =
                 [job[c] EXCEPT !.late = FALSE, !.tmp = job[c].tmp, !.slips = job[c].slips]
          BY <1>b DEF Job
        <4> QED  BY <3>1, <3>2, <3>3, <4>1 DEF TypeOK
      <3>4. CASE job' = [job EXCEPT ![c].late = FALSE, ![c].tmp = TRUE,
                    ![c].slips = IF job[c].pc = "done" THEN @ \cup {"late"} ELSE @]
        BY <3>2, <3>4 DEF TypeOK
      <3> QED  BY <1>11, <3>3, <3>4 DEF LateOpen
    <2> DEFINE j == [job[c] EXCEPT !.late = FALSE, !.tmp = tmp, !.slips = slips]
    <2>2. j \in Job
      <3> DEFINE e == [job[c] EXCEPT !.late = FALSE, !.tmp = tmp]
      <3>1. e \in Job  BY <1>b DEF Job
      <3>2. [e EXCEPT !.slips = slips] \in Job
        <4> HIDE DEF e
        <4> QED  BY <3>1 DEF Job
      <3> QED  BY <3>2
    <2> QED  BY <1>11, <1>a, <2>1, <2>2 DEF LateOpen, TypeOK
  <1>5. ASSUME NEW c \in Calls, Fetch(c) PROVE TypeOK'
    <2>1. CASE job[c].left = 0 /\ job' = [job EXCEPT ![c].eof = TRUE]
      <3> DEFINE j == [job[c] EXCEPT !.eof = TRUE]
      <3>1. j \in Job  BY <1>b DEF Job
      <3>2. job' = [job EXCEPT ![c] = j]  BY <2>1 DEF TypeOK
      <3> QED  BY <1>5, <1>a, <3>1, <3>2 DEF Fetch, TypeOK
    <2>2. ASSUME NEW n \in 1..Min({Piece, job[c].left}),
                 job' = [job EXCEPT ![c].buf = @ + n,
                                    ![c].left = IF @ = Endless THEN @ ELSE @ - n]
          PROVE  TypeOK'
      <3> DEFINE left == IF job[c].left = Endless THEN job[c].left ELSE job[c].left - n
                 j == [job[c] EXCEPT !.buf = @ + n, !.left = left]
      <3>1. /\ job[c].buf \in 0..Endless /\ job[c].left \in 0..Endless
            /\ job[c].buf < Asked(c) /\ Asked(c) <= MaxBytes + 1
        BY <1>5, AskedFacts DEF Fetch, TypeOK, Job
      <3>2. n \in Nat /\ n <= Piece /\ n <= job[c].left  BY <3>1, MinOfTwo
      <3>3. left \in 0..Endless /\ job[c].buf + n \in 0..Endless
        BY <3>1, <3>2, AskedFacts
      <3>4. j \in Job
        <4> HIDE DEF left
        <4> QED  BY <1>b, <3>3 DEF Job
      <3>5. job' = [job EXCEPT ![c] = j]  BY <2>2 DEF TypeOK
      <3> QED  BY <1>5, <1>a, <3>4, <3>5 DEF Fetch, TypeOK
    <2> QED  BY <1>5, <2>1, <2>2 DEF Fetch
  <1>6. ASSUME NEW c \in Calls, LimitedRead(c) PROVE TypeOK'
    BY <1>6, AskedFacts, MinOfTwo DEF LimitedRead, After, Remaining, TypeOK, Job
  <1>7. ASSUME NEW c \in Calls, PlainRead(c) PROVE TypeOK'
    BY <1>7, AskedFacts, MinOfTwo DEF PlainRead, After, TypeOK, Job
  <1>8. ASSUME NEW c \in Calls, Write(c) PROVE TypeOK'
    <2> DEFINE n == Min({job[c].got + job[c].chunk, Endless})
               j == [job[c] EXCEPT !.pc = "read", !.chunk = 0, !.got = n]
    <2>1. n \in 0..Endless  BY <1>b, MinOfTwo DEF Job
    <2>2. j \in Job
      <3>1. ASSUME NEW k \in Job, NEW m \in 0..Endless
            PROVE  [k EXCEPT !.pc = "read", !.chunk = 0, !.got = m] \in Job
        <4> DEFINE e == [k EXCEPT !.chunk = 0, !.got = m]
        <4>1. 0 \in 0..Endless  OBVIOUS
        <4>2. e \in Job  BY <3>1, <4>1 DEF Job
        <4>3. [e EXCEPT !.pc = "read"] \in Job
          <5> HIDE DEF e
          <5> QED  BY <4>2 DEF Job
        <4> QED  BY <4>3
      <3> QED  BY <1>b, <2>1, <3>1
    <2>3. job' = [job EXCEPT ![c] = j]  BY <1>8 DEF Write, TypeOK
    <2> QED  BY <1>8, <1>a, <2>2, <2>3 DEF Write, TypeOK
  <1>9. ASSUME NEW c \in Calls, Replace(c) PROVE TypeOK'
    <2> DEFINE j == [job[c] EXCEPT !.pc = "close", !.ok = TRUE, !.tmp = FALSE]
    <2>1. j \in Job  BY <1>b DEF Job
    <2>2. job' = [job EXCEPT ![c] = j]  BY <1>9 DEF Replace, TypeOK
    <2>3. dst' \in [by : Calls, bytes : 0..Endless]  BY <1>9, <1>b DEF Replace, Job
    <2> QED  BY <1>9, <1>a, <2>1, <2>2, <2>3 DEF Replace, TypeOK
  <1>10. CASE UNCHANGED vars  BY <1>10 DEF vars, TypeOK
  <1> QED  BY <1>1, <1>2, <1>3, <1>4, <1>5, <1>6, <1>7, <1>8, <1>9, <1>10, <1>11, StepCases

\* Calls and files keep their types.
THEOREM DownloadType == Spec => []TypeOK
  <1>1. Init => TypeOK
    BY SizeFacts DEF Init, TypeOK, Job, NewJob, NoReq, Ends
  <1> QED  BY <1>1, TypeStep, PTL DEF Spec, SafetySpec

-----------------------------------------------------------------------------
\* Nothing is lost between a source and its target: what is still to come,
\* what is buffered and what was handed on make up the content.
CountsOK(r, j) ==
    /\ r.kind = "http" => /\ j.counted = j.got + j.chunk
                          /\ IF r.size = Endless THEN j.left = Endless
                             ELSE j.left + j.buf + j.counted = r.size
    /\ r.kind # "http" => j.left + j.chunk + j.got = r.size
    /\ j.eof => j.left = 0
    /\ j.chunk # 0 => j.pc \in {"write", "close", "done"}
    /\ r.how = "open" /\ j.pc \notin {"close", "done"} => j.got = 0

\* A content is complete when its file is about to take the target's place.
WholeOK(r, j) ==
    /\ j.pc \in {"prepare", "create", "write", "flush"} => r.how = "download"
    /\ j.pc = "flush" => j.got = r.size /\ r.size < Endless
    /\ j.pc \notin {"idle", "open", "done"} /\ r.kind = "data" => r.size <= DataMaxBytes

\* What a call that has ended its work reports.
ReportOK(r, j) ==
    /\ j.pc \notin {"close", "done"} => j.error = "none"
    /\ j.pc \in {"close", "done"} /\ j.error = "none" =>
          /\ r.how = "download" => j.ok
          /\ r.how = "open" /\ r.kind = "http" => j.got = r.size /\ r.size <= MaxBytes
    /\ j.ok => /\ j.pc \in {"close", "done"} /\ ~j.tmp /\ ~j.late
               /\ j.error \in {"none", "crashed"} \/ "close" \in j.slips

RefusalOK(r, j) ==
    /\ j.pc = "refuse" => r.declared > MaxBytes
    /\ j.error = "too_big" => \/ r.size >= MaxBytes \/ r.declared > MaxBytes
                              \/ r.kind = "data" /\ r.size > DataMaxBytes

\* What a call still holds.
HoldsOK(j) ==
    /\ j.pc = "idle" => j = NewJob
    /\ j.pc \in {"idle", "open"} => j.stream = "none"
    /\ j.pc \in {"idle", "open", "refuse", "prepare"} => ~j.tmp
    /\ j.late => j.pc \in {"close", "done"}
    /\ j.pc = "done" =>
          /\ j.stream = "open" => j.slips \cap {"prepare", "close"} # {}
          /\ j.tmp => \/ j.slips \cap {"close", "remove", "late"} # {}
                      \/ j.error = "crashed"

CallOK(r, j) ==
    CountsOK(r, j) /\ WholeOK(r, j) /\ ReportOK(r, j) /\ RefusalOK(r, j) /\ HoldsOK(j)

DownloadInv ==
    /\ TypeOK
    /\ \A c \in Calls : CallOK(req[c], job[c])
    /\ dst # NoFile => job[dst.by].pc # "idle"
    /\ WholeContent

\* The fields of a call and of its request.
LEMMA CallFacts ==
    ASSUME TypeOK, NEW c \in Calls
    PROVE  /\ req[c].how \in {"download", "open"}
           /\ req[c].kind \in {"data", "http", "custom"}
           /\ req[c].size \in 0..Endless /\ req[c].declared \in Int
           /\ req[c].kind # "http" => req[c].size < Endless
           /\ job[c].left \in 0..Endless /\ job[c].buf \in 0..Endless
           /\ job[c].counted \in 0..MaxBytes
           /\ job[c].chunk \in 0..Endless /\ job[c].got \in 0..Endless
           /\ job[c].pc \in {"idle", "open", "refuse", "prepare", "create", "read",
                            "write", "flush", "close", "done"}
           /\ job[c].error \in Ends
  <1>1. req[c] \in Requests \cup {NoReq} /\ job[c] \in Job  BY DEF TypeOK
  <1> QED  BY <1>1, RequestFacts DEF Job

\* A step of a call keeps what holds of it.
LEMMA CallStep ==
    ASSUME DownloadInv, NEW c \in Calls
    PROVE  Request(c) \/ Step(c) \/ Fault(c) => CallOK(req[c], job[c])'
  <1> DEFINE r == req[c]
             j == job[c]
  <1>1. CallOK(r, j) /\ TypeOK  BY DEF DownloadInv
  <1>2. j \in Job /\ job \in [Calls -> Job]  BY <1>1 DEF TypeOK
  <1> USE DEF CallOK, CountsOK, WholeOK, ReportOK, RefusalOK, HoldsOK, Downloads, Limited
  <1>3. ASSUME Request(c) PROVE CallOK(r, j)'
    <2> PICK q \in Requests : /\ req' = [req EXCEPT ![c] = q]
                              /\ job' = [job EXCEPT ![c].pc = "open", ![c].left = q.size]
      BY <1>3 DEF Request
    <2>1. r' = q  BY <1>1 DEF TypeOK
    <2>2. q.size \in 0..Endless  BY RequestFacts
    <2>3. j' = [NewJob EXCEPT !.pc = "open", !.left = q.size]
      BY <1>1, <1>2, <1>3 DEF Request
    <2>4. /\ j'.pc = "open" /\ j'.left = q.size /\ j'.buf = 0 /\ ~j'.eof
          /\ j'.counted = 0 /\ j'.chunk = 0 /\ j'.got = 0 /\ ~j'.tmp
          /\ ~j'.late /\ j'.stream = "none" /\ ~j'.ok /\ j'.error = "none"
      <3> DEFINE k == [NewJob EXCEPT !.pc = "open", !.left = q.size]
      <3>1. /\ k.pc = "open" /\ k.left = q.size /\ k.buf = 0 /\ ~k.eof
            /\ k.counted = 0 /\ k.chunk = 0 /\ k.got = 0 /\ ~k.tmp
            /\ ~k.late /\ k.stream = "none" /\ ~k.ok /\ k.error = "none"
        BY DEF NewJob
      <3>2. j' = k  BY <2>3
      <3> HIDE DEF k
      <3> QED  BY <3>1, <3>2
    <2>5. CallOK(q, j')  BY <2>2, <2>4, SizeFacts
    <2> QED  BY <2>1, <2>5
  <1>4. ASSUME OpenFails(c) PROVE CallOK(r, j)'
    BY <1>1, <1>2, <1>4 DEF OpenFails, End, Failures
  <1>5. ASSUME DataRefused(c) PROVE CallOK(r, j)'
    BY <1>1, <1>2, <1>5, CallFacts, AskedFacts, SizeFacts DEF DataRefused, End, TooMuchData
  <1>6. ASSUME Opened(c) PROVE CallOK(r, j)'
    BY <1>1, <1>2, <1>6, CallFacts, AskedFacts, SizeFacts DEF Opened, TooMuchData
  <1>7. ASSUME Refuse(c) PROVE CallOK(r, j)'
    BY <1>1, <1>2, <1>7 DEF Refuse
  <1>8. ASSUME Prepare(c) PROVE CallOK(r, j)'
    BY <1>1, <1>2, <1>8 DEF Prepare
  <1>9. ASSUME PrepareFails(c) PROVE CallOK(r, j)'
    BY <1>1, <1>2, <1>9 DEF PrepareFails
  <1>10. ASSUME Create(c) PROVE CallOK(r, j)'
    BY <1>1, <1>2, <1>10 DEF Create
  <1>11. ASSUME Raises(c) PROVE CallOK(r, j)'
    BY <1>1, <1>2, <1>11 DEF Raises, Failures
  <1>12. ASSUME DeclaredTooBig(c) PROVE CallOK(r, j)'
    BY <1>1, <1>2, <1>12 DEF DeclaredTooBig
  <1>13. ASSUME Close(c) PROVE CallOK(r, j)'
    BY <1>1, <1>2, <1>13 DEF Close
  <1>14. ASSUME Crash(c) PROVE CallOK(r, j)'
    BY <1>1, <1>2, <1>14 DEF Crash
  <1>15. ASSUME OverLimit(c) PROVE CallOK(r, j)'
    BY <1>1, <1>2, <1>15, CallFacts, AskedFacts, SizeFacts DEF OverLimit, Remaining
  <1>16. ASSUME Replace(c) PROVE CallOK(r, j)'
    BY <1>1, <1>2, <1>16, CallFacts DEF Replace
  <1>17. ASSUME RemoveFails(c) PROVE CallOK(r, j)'
    <2>1. /\ j.tmp /\ r' = r
          /\ j' = [j EXCEPT !.pc = "done", !.stream = "closed", !.error = "failed",
                            !.slips = @ \cup {"remove"}]
      BY <1>2, <1>17 DEF RemoveFails
    <2>2. j'.slips \cap {"close", "remove", "late"} # {}
      BY <1>2, <2>1 DEF Job
    <2> QED  BY <1>1, <1>2, <2>1, <2>2 DEF Job
  <1>18. ASSUME CloseFails(c) PROVE CallOK(r, j)'
    <2> PICK e \in Failures, s \in {"open", "closed"} :
          job' = [job EXCEPT ![c].pc = "done", ![c].stream = s, ![c].error = e,
                             ![c].slips = @ \cup {"close"}]
      BY <1>18 DEF CloseFails
    <2>1. /\ r' = r /\ j.pc \in {"close", "refuse"}
          /\ j' = [j EXCEPT !.pc = "done", !.stream = s, !.error = e,
                            !.slips = @ \cup {"close"}]
      BY <1>2, <1>18 DEF CloseFails
    <2>2. /\ j'.slips \cap {"close", "remove", "late"} # {}
          /\ j'.slips \cap {"prepare", "close"} # {}
          /\ "close" \in j'.slips
      BY <1>2, <2>1 DEF Job
    <2>3. CountsOK(r, j)' /\ WholeOK(r, j)'
      BY <1>1, <1>2, <2>1 DEF Job
    <2>4. ReportOK(r, j)'
      BY <1>1, <1>2, <2>1, <2>2 DEF Job, Failures
    <2>5. RefusalOK(r, j)' /\ HoldsOK(j)'
      BY <1>1, <1>2, <2>1, <2>2 DEF Job, Failures
    <2> QED  BY <2>3, <2>4, <2>5
  <1>19. ASSUME LateOpen(c) PROVE CallOK(r, j)'
    <2>1. r' = r /\ j.late /\ j.pc \in {"close", "done"} /\ ~j.ok
      BY <1>1, <1>2, <1>19 DEF LateOpen, Job
    <2>2. CASE job' = [job EXCEPT ![c].late = FALSE]
      BY <1>1, <1>2, <2>1, <2>2 DEF Job
    <2>3. CASE job' = [job EXCEPT ![c].late = FALSE, ![c].tmp = TRUE,
                    ![c].slips = IF job[c].pc = "done" THEN @ \cup {"late"} ELSE @]
      <3> DEFINE slips == IF j.pc = "done" THEN j.slips \cup {"late"} ELSE j.slips
      <3>1. j' = [j EXCEPT !.late = FALSE, !.tmp = TRUE, !.slips = slips]
        BY <1>2, <2>3
      <3>2. j.pc = "done" => slips \cap {"close", "remove", "late"} # {}
        OBVIOUS
      <3>3. j.slips \cap {"prepare", "close"} # {} => slips \cap {"prepare", "close"} # {}
        OBVIOUS
      <3> HIDE DEF slips
      <3> QED  BY <1>1, <1>2, <2>1, <3>1, <3>2, <3>3 DEF Job
    <2> QED  BY <1>19, <2>2, <2>3 DEF LateOpen
  <1>20. ASSUME Fetch(c) PROVE CallOK(r, j)'
    <2>1. CASE j.left = 0 /\ job' = [job EXCEPT ![c].eof = TRUE]
      BY <1>1, <1>2, <1>20, <2>1 DEF Fetch
    <2>2. ASSUME NEW n \in 1..Min({Piece, j.left}),
                 job' = [job EXCEPT ![c].buf = @ + n,
                                    ![c].left = IF @ = Endless THEN @ ELSE @ - n]
          PROVE  CallOK(r, j)'
      <3> DEFINE left == IF j.left = Endless THEN j.left ELSE j.left - n
      <3>1. j' = [j EXCEPT !.buf = @ + n, !.left = left] /\ r' = r /\ j.pc = "read"
        BY <1>2, <1>20, <2>2 DEF Fetch
      <3>2. n \in Nat /\ n <= j.left  BY CallFacts, MinOfTwo, SizeFacts, <1>1
      <3>3. ~j.eof /\ r.kind = "http"  BY <1>20 DEF Fetch
      <3>4. IF r.size = Endless THEN left = Endless
            ELSE left + (j.buf + n) + j.counted = r.size
        BY <1>1, <3>2, <3>3, CallFacts
      <3>5. CountsOK(r, j)'
        <4> HIDE DEF left
        <4> QED  BY <1>1, <1>2, <3>1, <3>3, <3>4 DEF Job
      <3>6. WholeOK(r, j)' /\ ReportOK(r, j)' /\ RefusalOK(r, j)' /\ HoldsOK(j)'
        <4> HIDE DEF left
        <4> QED  BY <1>1, <1>2, <3>1 DEF Job
      <3> QED  BY <3>5, <3>6
    <2> QED  BY <1>20, <2>1, <2>2 DEF Fetch
  <1>21. ASSUME LimitedRead(c) PROVE CallOK(r, j)'
    <2> DEFINE n == Min({Asked(c), j.buf})
               chunk == IF Downloads(c) THEN n ELSE 0
               got == IF Downloads(c) THEN j.got ELSE n
    <2>1. j' = [j EXCEPT !.buf = @ - n, !.counted = @ + n, !.chunk = chunk, !.got = got,
                         !.pc = After(c, n)] /\ r' = r /\ j.pc = "read"
      BY <1>2, <1>21 DEF LimitedRead
    <2>2. /\ n \in Nat /\ n <= j.buf /\ n <= Remaining(c)
          /\ r.kind = "http"
          /\ n = 0 \/ ~Downloads(c) => n = j.buf /\ j.eof
      <3>1. /\ Asked(c) \in 1..(MaxBytes + 1) /\ Remaining(c) \in 0..MaxBytes
            /\ ~Downloads(c) => Asked(c) = Remaining(c) + 1
            /\ n <= Remaining(c)
            /\ j.buf >= Asked(c) \/ j.eof
            /\ r.kind = "http"
        BY <1>1, <1>21, AskedFacts DEF LimitedRead
      <3>2. j.buf \in Nat  BY <1>1, CallFacts, SizeFacts
      <3>3. n = IF Asked(c) <= j.buf THEN Asked(c) ELSE j.buf
        BY <3>1, <3>2, MinOfTwo
      <3> HIDE DEF n
      <3> QED  BY <3>1, <3>2, <3>3
    <2>3. n = 0 \/ ~Downloads(c) => j.left = 0 /\ j.buf - n = 0 /\ r.size < Endless
                                 /\ j.counted + n = r.size
      <3> HIDE DEF n
      <3> QED  BY <1>1, <2>2, CallFacts, SizeFacts
    <2>4. After(c, n) = IF Downloads(c) THEN IF n = 0 THEN "flush" ELSE "write" ELSE "close"
      BY DEF After
    <2>5. /\ j.chunk = 0 /\ j.counted = j.got /\ got + chunk = j.counted + n
          /\ ~Downloads(c) => j.got = 0
          /\ j.counted + n \in 0..MaxBytes
      BY <1>1, <2>1, <2>2, CallFacts, AskedFacts, SizeFacts DEF Remaining
    <2>6. /\ j'.counted = j'.got + j'.chunk
          /\ j'.counted = j.counted + n /\ j'.left = j.left /\ j'.buf = j.buf - n
          /\ j'.eof = j.eof /\ j'.chunk = chunk /\ j'.got = got /\ j'.pc = After(c, n)
      <3> HIDE DEF n, chunk, got
      <3> QED  BY <1>2, <2>1, <2>5, CallFacts DEF Job
    <2>7. /\ j'.ok = j.ok /\ j'.tmp = j.tmp /\ j'.late = j.late /\ j'.error = j.error
          /\ j'.slips = j.slips /\ j'.stream = j.stream
      <3> HIDE DEF n, chunk, got
      <3> QED  BY <1>2, <2>1 DEF Job
    <2>8. /\ j'.pc \in {"write", "flush", "close"} /\ (j'.pc = "close" <=> ~Downloads(c))
          /\ j'.chunk # 0 => j'.pc = "write"
          /\ j'.pc \in {"flush", "close"} => j'.got = r.size /\ r.size <= MaxBytes
      <3>1. CASE n = 0 \/ ~Downloads(c)
        <4>1. n \in Nat /\ j.got \in Nat /\ j.counted \in Nat
          BY <1>1, <2>2, CallFacts, SizeFacts
        <4>2. j'.got = r.size /\ r.size <= MaxBytes
          <5> HIDE DEF n
          <5> QED  BY <2>3, <2>5, <2>6, <3>1, <4>1, SizeFacts
        <4>3. j'.pc \in {"flush", "close"} /\ (j'.pc = "close" <=> ~Downloads(c)) /\ j'.chunk = 0
          <5> HIDE DEF n
          <5> QED  BY <2>4, <2>6, <3>1
        <4> QED  BY <4>2, <4>3
      <3>2. CASE n # 0 /\ Downloads(c)
        BY <2>2, <2>4, <2>6, <3>2
      <3> QED  BY <3>1, <3>2
    <2>9. CountsOK(r, j)'
      <3>1. (j.left + (j.buf - n)) + (j.counted + n) = (j.left + j.buf) + j.counted
        <4> HIDE DEF n
        <4> QED  BY <1>1, <2>2, CallFacts, SizeFacts
      <3> HIDE DEF n
      <3> QED  BY <1>1, <2>1, <2>2, <2>6, <2>8, <3>1
    <2>10. WholeOK(r, j)'
      BY <1>1, <2>1, <2>2, <2>8, CallFacts, SizeFacts
    <2>11. ReportOK(r, j)'
      BY <1>1, <2>1, <2>2, <2>7, <2>8
    <2>12. RefusalOK(r, j)' /\ HoldsOK(j)'
      BY <1>1, <2>1, <2>7, <2>8
    <2> QED  BY <2>9, <2>10, <2>11, <2>12
  <1>22. ASSUME PlainRead(c) PROVE CallOK(r, j)'
    <2>1. PICK n \in 0..Min({Asked(c), j.left}) :
             /\ n = 0 => j.left = 0
             /\ j' = [j EXCEPT !.left = @ - n, !.chunk = IF Downloads(c) THEN n ELSE 0,
                              !.got = IF Downloads(c) THEN @ ELSE n, !.pc = After(c, n)]
      BY <1>2, <1>22 DEF PlainRead
    <2>2. r' = r /\ j.pc = "read" /\ r.kind # "http"  BY <1>22 DEF PlainRead
    <2>3. n \in Nat /\ n <= j.left /\ j.left \in Nat /\ r.size < Endless
      BY <1>1, <2>1, <2>2, CallFacts, AskedFacts, MinOfTwo, SizeFacts
    <2>4. After(c, n) = IF Downloads(c) THEN IF n = 0 THEN "flush" ELSE "write" ELSE "close"
      BY DEF After
    <2>5. j.chunk = 0 /\ (~Downloads(c) => j.got = 0) /\ j.left + j.got = r.size
      BY <1>1, <2>2, CallFacts, SizeFacts
    <2>6. CountsOK(r, j)'
      BY <1>1, <1>2, <2>1, <2>2, <2>3, <2>4, <2>5, CallFacts DEF Job
    <2>7. WholeOK(r, j)' /\ ReportOK(r, j)' /\ RefusalOK(r, j)' /\ HoldsOK(j)'
      BY <1>1, <1>2, <2>1, <2>2, <2>3, <2>4, <2>5, CallFacts DEF Job
    <2> QED  BY <2>6, <2>7
  <1>23. ASSUME Write(c) PROVE CallOK(r, j)'
    <2> DEFINE n == Min({j.got + j.chunk, Endless})
    <2>1. j' = [j EXCEPT !.pc = "read", !.chunk = 0, !.got = n] /\ r' = r /\ j.pc = "write"
      BY <1>2, <1>23 DEF Write
    <2>2. j.got + j.chunk <= Endless
      BY <1>1, CallFacts, SizeFacts
    <2>3. n = j.got + j.chunk
      BY <1>1, <2>2, CallFacts, SizeFacts, MinOfTwo
    <2>4. CountsOK(r, j)'
      <3> HIDE DEF n
      <3> QED  BY <1>1, <1>2, <2>1, <2>3, CallFacts DEF Job
    <2>5. WholeOK(r, j)' /\ ReportOK(r, j)' /\ RefusalOK(r, j)' /\ HoldsOK(j)'
      <3> HIDE DEF n
      <3> QED  BY <1>1, <1>2, <2>1 DEF Job
    <2> QED  BY <2>4, <2>5
  <1> QED  BY <1>3, <1>4, <1>5, <1>6, <1>7, <1>8, <1>9, <1>10, <1>11, <1>12, <1>13,
              <1>14, <1>15, <1>16, <1>17, <1>18, <1>19, <1>20, <1>21, <1>22, <1>23, Zenon
           DEF Step, Fault

\* Only Request and Replace touch more than a call's own job.
LEMMA Frame ==
    ASSUME DownloadInv, NEW c \in Calls, Request(c) \/ Step(c) \/ Fault(c)
    PROVE  /\ \A d \in Calls \ {c} : req'[d] = req[d] /\ job'[d] = job[d]
           /\ job'[c].pc # "idle"
           /\ job[c].pc # "idle" => req' = req
           /\ dst' = dst \/ Replace(c)
  <1> DEFINE Own == (\A d \in Calls \ {c} : job'[d] = job[d]) /\ job'[c].pc # "idle"
  <1>0. job \in [Calls -> Job] /\ job[c] \in Job /\ req \in [Calls -> Requests \cup {NoReq}]
    BY DEF DownloadInv, TypeOK
  <1>1. CASE Request(c)
    <2>1. PICK r \in Requests : /\ req' = [req EXCEPT ![c] = r]
                                /\ job' = [job EXCEPT ![c].pc = "open", ![c].left = r.size]
      BY <1>1 DEF Request
    <2>2. Own  BY <1>0, <2>1 DEF Job
    <2> QED  BY <1>0, <1>1, <2>1, <2>2 DEF Request
  <1>2. ASSUME \/ OpenFails(c) \/ DataRefused(c) \/ Opened(c) \/ Refuse(c)
               \/ Prepare(c) \/ PrepareFails(c) \/ Create(c) \/ OverLimit(c)
        PROVE  Own /\ req' = req /\ dst' = dst
    BY <1>0, <1>2 DEF OpenFails, DataRefused, Opened, Refuse, Prepare, PrepareFails,
                      Create, OverLimit, End, Job
  <1>5. ASSUME Raises(c) PROVE Own /\ req' = req /\ dst' = dst
    BY <1>0, <1>5 DEF Raises, Job
  <1>6. ASSUME DeclaredTooBig(c) PROVE Own /\ req' = req /\ dst' = dst
    BY <1>0, <1>6 DEF DeclaredTooBig, Job
  <1>7. ASSUME Close(c) PROVE Own /\ req' = req /\ dst' = dst
    BY <1>0, <1>7 DEF Close, Job
  <1>8. ASSUME Crash(c) PROVE Own /\ req' = req /\ dst' = dst
    BY <1>0, <1>8 DEF Crash, Job
  <1>9. ASSUME RemoveFails(c) PROVE Own /\ req' = req /\ dst' = dst
    BY <1>0, <1>9 DEF RemoveFails, Job
  <1>10. ASSUME CloseFails(c) PROVE Own /\ req' = req /\ dst' = dst
    BY <1>0, <1>10 DEF CloseFails, Job
  <1>11. ASSUME Fetch(c) PROVE Own /\ req' = req /\ dst' = dst
    <2>1. CASE job' = [job EXCEPT ![c].eof = TRUE]
      BY <1>0, <1>11, <2>1 DEF Fetch, Job
    <2>2. ASSUME NEW n \in 1..Min({Piece, job[c].left}),
                 job' = [job EXCEPT ![c].buf = @ + n,
                                    ![c].left = IF @ = Endless THEN @ ELSE @ - n]
          PROVE  Own
      <3> DEFINE left == IF job[c].left = Endless THEN Endless ELSE job[c].left - n
      <3>1. job' = [job EXCEPT ![c] = [job[c] EXCEPT !.buf = @ + n, !.left = left]]
        BY <1>0, <2>2
      <3>2. job[c].pc = "read"  BY <1>11 DEF Fetch
      <3> HIDE DEF left
      <3> QED  BY <1>0, <3>1, <3>2 DEF Job
    <2> QED  BY <1>11, <2>1, <2>2 DEF Fetch
  <1>12. ASSUME Write(c) PROVE Own /\ req' = req /\ dst' = dst
    BY <1>0, <1>12 DEF Write, Job
  <1>13. ASSUME LimitedRead(c) PROVE Own /\ req' = req /\ dst' = dst
    BY <1>0, <1>13 DEF LimitedRead, After, Job
  <1>14. ASSUME PlainRead(c) PROVE Own /\ req' = req /\ dst' = dst
    BY <1>0, <1>14 DEF PlainRead, After, Job
  <1>3. ASSUME Replace(c)
        PROVE  Own /\ req' = req
    BY <1>0, <1>3 DEF Replace, Job
  <1>4. ASSUME LateOpen(c)
        PROVE  Own /\ req' = req /\ dst' = dst
    <2>1. job[c].pc \in {"close", "done"}
      BY <1>4 DEF LateOpen, DownloadInv, CallOK, HoldsOK
    <2> QED  BY <1>0, <1>4, <2>1 DEF LateOpen, Job
  <1> HIDE DEF Own
  <1>15. CASE Step(c) \/ Fault(c)
    <2>1. Own /\ req' = req /\ (dst' = dst \/ Replace(c))
      BY <1>2, <1>3, <1>4, <1>15, <1>5, <1>6, <1>7, <1>8, <1>9, <1>10, <1>11, <1>12,
         <1>13, <1>14, Zenon DEF Step, Fault
    <2> QED  BY <2>1 DEF Own
  <1> QED  BY <1>1, <1>15

LEMMA DownloadStep == DownloadInv /\ [Next]_vars => DownloadInv'
  <1> SUFFICES ASSUME DownloadInv, [Next]_vars PROVE DownloadInv'
    OBVIOUS
  <1>1. TypeOK'  BY TypeStep DEF DownloadInv
  <1>2. CASE UNCHANGED vars
    BY <1>1, <1>2 DEF vars, DownloadInv, WholeContent
  <1>3. ASSUME NEW c \in Calls, Request(c) \/ Step(c) \/ Fault(c)
        PROVE  DownloadInv'
    <2>1. /\ \A d \in Calls \ {c} : req'[d] = req[d] /\ job'[d] = job[d]
          /\ job'[c].pc # "idle"
          /\ job[c].pc # "idle" => req' = req
          /\ dst' = dst \/ Replace(c)
      BY <1>3, Frame DEF DownloadInv
    <2>2. \A d \in Calls : CallOK(req[d], job[d])'
      BY <1>3, <2>1, CallStep DEF DownloadInv
    <2>3. (dst # NoFile => job[dst.by].pc # "idle")' /\ WholeContent'
      <3>1. CASE dst' = dst
        BY <2>1, <3>1 DEF DownloadInv, WholeContent, TypeOK
      <3>2. CASE Replace(c)
        <4>1. /\ job[c].pc = "flush" /\ CallOK(req[c], job[c])
              /\ dst' = [by |-> c, bytes |-> job[c].got] /\ req' = req
          BY <3>2 DEF Replace, DownloadInv
        <4>2. /\ job[c].got = req[c].size /\ req[c].size < Endless
              /\ req[c].kind = "data" => req[c].size <= DataMaxBytes
          BY <4>1 DEF CallOK, WholeOK
        <4>3. req[c].kind = "http" => req[c].size <= MaxBytes
          BY <4>1, <4>2, CallFacts, SizeFacts DEF CallOK, CountsOK, DownloadInv
        <4> QED  BY <2>1, <4>1, <4>2, <4>3 DEF WholeContent
      <3> QED  BY <2>1, <3>1, <3>2
    <2> QED  BY <1>1, <2>2, <2>3 DEF DownloadInv
  <1> QED  BY <1>2, <1>3 DEF Next

THEOREM DownloadInductive == Spec => []DownloadInv
  <1>1. Init => DownloadInv
    <2> SUFFICES ASSUME Init PROVE DownloadInv
      OBVIOUS
    <2>1. TypeOK  BY SizeFacts DEF Init, TypeOK, Job, NewJob, NoReq, Ends
    <2>2. \A c \in Calls : CallOK(req[c], job[c])
      BY SizeFacts DEF Init, NewJob, NoReq, CallOK, CountsOK, WholeOK, ReportOK,
                       RefusalOK, HoldsOK
    <2> QED  BY <2>1, <2>2 DEF Init, DownloadInv, WholeContent
  <1> QED  BY <1>1, DownloadStep, PTL DEF Spec, SafetySpec

\* The target is never anything but one whole content within its handler's
\* limit, for any number of downloads to it.
THEOREM DownloadWholeContent == Spec => []WholeContent
  <1>1. DownloadInv => WholeContent  BY DEF DownloadInv
  <1> QED  BY <1>1, DownloadInductive, PTL

\* What a call reports is what it has done.
THEOREM DownloadReportIsTrue == Spec => []ReportIsTrue
  <1>1. DownloadInv => ReportIsTrue
    BY CallFacts DEF DownloadInv, ReportIsTrue, CallOK, ReportOK, Downloads, Limited
  <1> QED  BY <1>1, DownloadInductive, PTL

\* No content below the limit is refused for its size.
THEOREM DownloadRefusalIsTrue == Spec => []RefusalIsTrue
  <1>1. DownloadInv => RefusalIsTrue
    BY DEF DownloadInv, RefusalIsTrue, CallOK, RefusalOK, TooMuchData
  <1> QED  BY <1>1, DownloadInductive, PTL

\* An ended call has no stream and no temporary file left but for the causes
\* that NothingLeft names.
THEOREM DownloadNothingLeft == Spec => []NothingLeft
  <1>1. DownloadInv => NothingLeft
    BY DEF DownloadInv, NothingLeft, CallOK, HoldsOK
  <1> QED  BY <1>1, DownloadInductive, PTL

-----------------------------------------------------------------------------
\* How much of a call is left at most: what may still be read, fetched and
\* found to be the end, and the stages that follow.
ToRead(r, j) ==
    IF r.kind = "http"
    THEN 2 * (MaxBytes - j.counted) + (MaxBytes + Endless - j.counted - j.buf)
         + (IF j.eof THEN 0 ELSE 1)
    ELSE 2 * j.left

Effort(r, j) ==
    CASE j.pc = "open" -> 7 + ToRead(r, j)
      [] j.pc = "prepare" -> 6 + ToRead(r, j)
      [] j.pc = "create" -> 5 + ToRead(r, j)
      [] j.pc = "write" -> 4 + ToRead(r, j)
      [] j.pc = "read" -> 3 + ToRead(r, j)
      [] j.pc = "flush" -> 2
      [] j.pc \in {"refuse", "close"} -> 1
      [] OTHER -> 0

LEMMA EffortFacts ==
    ASSUME NEW r, NEW j \in Job
    PROVE  /\ ToRead(r, j) \in Nat /\ Effort(r, j) \in Nat
           /\ j.pc \in {"open", "prepare", "create", "write", "read"} => Effort(r, j) > 2
           /\ j.pc = "flush" => Effort(r, j) = 2
           /\ j.pc \in {"refuse", "close"} => Effort(r, j) = 1
           /\ j.pc = "done" => Effort(r, j) = 0
           /\ j.pc # "idle" /\ Effort(r, j) = 0 => j.pc = "done"
  <1>1. /\ j.counted \in 0..MaxBytes /\ j.buf \in 0..Endless /\ j.left \in 0..Endless
        /\ j.pc \in {"idle", "open", "refuse", "prepare", "create", "read",
                     "write", "flush", "close", "done"}
    BY DEF Job
  <1>2. ToRead(r, j) \in Nat
    BY <1>1, SizeFacts DEF ToRead
  <1> QED  BY <1>1, <1>2 DEF Effort

\* A step that leaves the counts alone and goes a stage on, or breaks off.
LEMMA StageOn ==
    ASSUME NEW r, NEW j \in Job, NEW k \in Job,
           \/ /\ k.counted = j.counted /\ k.buf = j.buf /\ k.eof = j.eof /\ k.left = j.left
              /\ \/ j.pc = "open" /\ k.pc \in {"prepare", "read"}
                 \/ j.pc = "prepare" /\ k.pc = "create"
                 \/ j.pc = "create" /\ k.pc = "read"
                 \/ j.pc = "write" /\ k.pc = "read"
           \/ j.pc \in {"open", "create", "write", "read", "flush"}
              /\ k.pc \in {"refuse", "close", "done"}
           \/ j.pc \notin {"idle", "done"} /\ k.pc = "done"
    PROVE  Effort(r, k) < Effort(r, j)
  <1>1. CASE k.counted = j.counted /\ k.buf = j.buf /\ k.eof = j.eof /\ k.left = j.left
    <2>1. ToRead(r, k) = ToRead(r, j)
      BY <1>1 DEF ToRead
    <2> QED  BY <2>1, EffortFacts DEF Effort
  <1>2. CASE k.pc \in {"refuse", "close", "done"}
    <2>1. k.pc = "done" => Effort(r, k) = 0
      BY EffortFacts
    <2>2. k.pc \in {"refuse", "close"} => Effort(r, k) = 1
      BY EffortFacts
    <2>3. Effort(r, j) \in Nat /\ (j.pc # "done" /\ j.pc # "idle" => Effort(r, j) # 0)
      BY EffortFacts
    <2>4. j.pc \in {"open", "create", "write", "read", "flush"} => Effort(r, j) >= 2
      BY <2>3, EffortFacts
    <2> QED  BY <1>2, <2>1, <2>2, <2>3, <2>4
  <1> QED  BY <1>1, <1>2

\* A read, or a piece that is fetched for it, leaves less to read.
LEMMA ReadOn ==
    ASSUME TypeOK, TypeOK', NEW c \in Calls, req' = req, job[c].pc = "read",
           Fetch(c) \/ LimitedRead(c) \/ PlainRead(c)
    PROVE  Effort(req'[c], job'[c]) < Effort(req[c], job[c])
  <1>1. job[c] \in Job /\ job'[c] \in Job /\ job \in [Calls -> Job]
    BY DEF TypeOK
  <1>2. /\ Effort(req[c], job[c]) = 3 + ToRead(req[c], job[c])
        /\ ToRead(req[c], job[c]) \in Nat /\ ToRead(req'[c], job'[c]) \in Nat
    <2>1. ToRead(req'[c], job'[c]) \in Nat
      BY <1>1, EffortFacts
    <2> QED  BY <1>1, <2>1, EffortFacts DEF Effort
  <1>3. CASE Fetch(c)
    <2>1. Limited(c) /\ ~job[c].eof
      BY <1>3 DEF Fetch
    <2>2. job'[c].pc = "read" /\ ToRead(req'[c], job'[c]) < ToRead(req[c], job[c])
      <3>1. CASE job' = [job EXCEPT ![c].eof = TRUE]
        <4>1. /\ job'[c].eof /\ job'[c].counted = job[c].counted /\ job'[c].buf = job[c].buf
              /\ job'[c].pc = "read"
          BY <1>1, <3>1 DEF Job
        <4> QED  BY <2>1, <4>1, CallFacts, SizeFacts, <1>1 DEF ToRead, Limited
      <3>2. ASSUME NEW n \in 1..Min({Piece, job[c].left}),
                   job' = [job EXCEPT ![c].buf = @ + n,
                                      ![c].left = IF @ = Endless THEN @ ELSE @ - n]
            PROVE  job'[c].pc = "read" /\ ToRead(req'[c], job'[c]) < ToRead(req[c], job[c])
        <4> DEFINE left == IF job[c].left = Endless THEN Endless ELSE job[c].left - n
        <4>1. job' = [job EXCEPT ![c] = [job[c] EXCEPT !.buf = @ + n, !.left = left]]
          BY <1>1, <3>2
        <4> HIDE DEF left
        <4>2. /\ job'[c].eof = job[c].eof /\ job'[c].counted = job[c].counted
              /\ job'[c].buf = job[c].buf + n /\ job'[c].pc = "read"
          BY <1>1, <4>1 DEF Job
        <4>3. n \in Nat /\ n >= 1
          BY CallFacts, SizeFacts, MinOfTwo
        <4> QED  BY <2>1, <4>2, <4>3, CallFacts, SizeFacts, <1>1 DEF ToRead, Limited
      <3> QED  BY <1>3, <3>1, <3>2 DEF Fetch
    <2> QED  BY <1>2, <2>2 DEF Effort
  <1>4. CASE LimitedRead(c)
    <2> DEFINE n == Min({Asked(c), job[c].buf})
    <2>1. /\ Limited(c)
          /\ job'[c].buf = job[c].buf - n /\ job'[c].counted = job[c].counted + n
          /\ job'[c].eof = job[c].eof /\ job'[c].pc = After(c, n)
      BY <1>1, <1>4 DEF LimitedRead, Job
    <2>2. n \in Nat
      BY <2>1, AskedFacts, MinOfTwo, CallFacts
    <2> HIDE DEF n
    <2>3. CASE n = 0
      BY <2>1, <2>3, StageOn, EffortFacts, <1>2 DEF After, Effort
    <2>4. CASE n >= 1
      <3>1. ToRead(req'[c], job'[c]) <= ToRead(req[c], job[c]) - 2
        BY <2>1, <2>2, <2>4, CallFacts, SizeFacts, <1>1 DEF ToRead, Limited
      <3>2. Effort(req'[c], job'[c]) <= 4 + ToRead(req'[c], job'[c])
        BY <1>2, <2>1, <2>4 DEF After, Effort
      <3> QED  BY <1>1, <1>2, <3>1, <3>2, EffortFacts
    <2> QED  BY <2>2, <2>3, <2>4
  <1>5. CASE PlainRead(c)
    <2>1. PICK n \in 0..Min({Asked(c), job[c].left}) :
             job' = [job EXCEPT ![c].left = @ - n,
                                ![c].chunk = IF Downloads(c) THEN n ELSE 0,
                                ![c].got = IF Downloads(c) THEN @ ELSE n,
                                ![c].pc = After(c, n)]
      BY <1>5 DEF PlainRead
    <2>2. ~Limited(c) /\ job'[c].left = job[c].left - n /\ job'[c].pc = After(c, n)
      <3> DEFINE chunk == IF Downloads(c) THEN n ELSE 0
                 got == IF Downloads(c) THEN job[c].got ELSE n
                 pc == After(c, n)
      <3>1. job' = [job EXCEPT ![c] = [job[c] EXCEPT !.left = @ - n, !.chunk = chunk,
                                                     !.got = got, !.pc = pc]]
        BY <1>1, <2>1
      <3>2. ~Limited(c)
        BY <1>5 DEF PlainRead
      <3>3. pc = After(c, n)
        OBVIOUS
      <3> HIDE DEF chunk, got, pc
      <3>4. job'[c].left = job[c].left - n /\ job'[c].pc = pc
        BY <1>1, <3>1 DEF Job
      <3> QED  BY <3>2, <3>3, <3>4
    <2>3. n \in Nat
      BY <2>2, AskedFacts, MinOfTwo, CallFacts
    <2>4. CASE n = 0
      BY <1>2, <2>2, <2>4 DEF After, Effort
    <2>5. CASE n >= 1
      <3>1. ToRead(req'[c], job'[c]) <= ToRead(req[c], job[c]) - 2
        BY <2>2, <2>3, <2>5, CallFacts, <1>1 DEF ToRead, Limited
      <3>2. Effort(req'[c], job'[c]) <= 4 + ToRead(req'[c], job'[c])
        BY <1>2, <2>2, <2>5 DEF After, Effort
      <3> QED  BY <1>1, <1>2, <3>1, <3>2, EffortFacts
    <2> QED  BY <2>3, <2>4, <2>5
  <1> QED  BY <1>3, <1>4, <1>5

LEMMA EffortTaken ==
    ASSUME TypeOK, TypeOK', NEW c \in Calls, Step(c) \/ (Fault(c) /\ ~LateOpen(c))
    PROVE  Effort(req'[c], job'[c]) < Effort(req[c], job[c])
  <1>1. job[c] \in Job /\ job'[c] \in Job /\ job \in [Calls -> Job]
    BY DEF TypeOK
  <1>2. req' = req
    BY Zenon DEF Step, Fault, OpenFails, DataRefused, Opened, Refuse, Prepare, PrepareFails,
                 Create, Fetch, LimitedRead, OverLimit, PlainRead, Write, Raises,
                 DeclaredTooBig, Replace, Close, RemoveFails, CloseFails, Crash
  <1>3. ASSUME OpenFails(c) \/ DataRefused(c) \/ Refuse(c) \/ PrepareFails(c)
               \/ OverLimit(c) \/ DeclaredTooBig(c) \/ Close(c) \/ RemoveFails(c)
        PROVE  Effort(req'[c], job'[c]) < Effort(req[c], job[c])
    BY <1>1, <1>2, <1>3, StageOn
    DEF OpenFails, DataRefused, End, Refuse, PrepareFails, OverLimit, DeclaredTooBig,
        Close, RemoveFails, Job
  <1>4. ASSUME Raises(c) \/ Replace(c) \/ CloseFails(c) \/ Crash(c)
        PROVE  Effort(req'[c], job'[c]) < Effort(req[c], job[c])
    <2>1. CASE Raises(c)
      <3>1. /\ job[c].pc \in {"create", "read", "write", "flush"}
            /\ job'[c].pc = "close"
        BY <1>1, <2>1 DEF Raises, Job
      <3> QED  BY <1>1, <1>2, <3>1, StageOn
    <2>2. CASE Replace(c)
      <3>1. job[c].pc = "flush" /\ job'[c].pc = "close"
        BY <1>1, <2>2 DEF Replace, Job
      <3> QED  BY <1>1, <1>2, <3>1, StageOn
    <2>3. CASE CloseFails(c)
      <3>1. job[c].pc \in {"close", "refuse"} /\ job'[c].pc = "done"
        BY <1>1, <2>3 DEF CloseFails, Job
      <3> QED  BY <1>1, <1>2, <3>1, StageOn
    <2>4. CASE Crash(c)
      <3>1. job[c].pc \notin {"idle", "done"} /\ job'[c].pc = "done"
        BY <1>1, <2>4 DEF Crash, Job
      <3> QED  BY <1>1, <1>2, <3>1, StageOn
    <2> QED  BY <1>4, <2>1, <2>2, <2>3, <2>4
  <1>5. ASSUME Opened(c) \/ Prepare(c) \/ Create(c) \/ Write(c)
        PROVE  Effort(req'[c], job'[c]) < Effort(req[c], job[c])
    BY <1>1, <1>2, <1>5, StageOn DEF Opened, Prepare, Create, Write, Job
  <1>6. ASSUME Fetch(c) \/ LimitedRead(c) \/ PlainRead(c)
        PROVE  Effort(req'[c], job'[c]) < Effort(req[c], job[c])
    BY <1>2, <1>6, ReadOn DEF Fetch, LimitedRead, PlainRead
  <1> QED  BY <1>3, <1>4, <1>5, <1>6, Zenon DEF Step, Fault

\* What is left of a call before and after a step.
Left(c) == Effort(req[c], job[c])
LeftAfter(c) == Effort(req'[c], job'[c])

\* Every step of a call takes some of its effort, so does what breaks it off,
\* and nothing gives any back.
Settles(c) ==
    job[c].pc # "idle" =>
        /\ Left(c) \in Nat /\ LeftAfter(c) <= Left(c)
        /\ Step(c) \/ (Fault(c) /\ ~LateOpen(c)) => LeftAfter(c) < Left(c)
        /\ Left(c) = 0 <=> job[c].pc = "done"

Settling == [][\A c \in Calls : Settles(c)]_vars

(* A call has but so many steps, whatever the sizes, limits and pieces, and *)
(* of a content without end, too: what CallSettles leaves to fairness is    *)
(* only that they are taken (resource.py:320-341,544-574, _async.py:50-59). *)
THEOREM DownloadSettles == Spec => Settling
  <1>1. ASSUME DownloadInv, [Next]_vars, NEW c \in Calls
        PROVE  Settles(c)
    <2> SUFFICES ASSUME job[c].pc # "idle"
                 PROVE  /\ Left(c) \in Nat /\ LeftAfter(c) <= Left(c)
                        /\ Step(c) \/ (Fault(c) /\ ~LateOpen(c)) => LeftAfter(c) < Left(c)
                        /\ Left(c) = 0 <=> job[c].pc = "done"
      BY DEF Settles
    <2> USE DEF Left, LeftAfter
    <2>1. TypeOK /\ TypeOK'
      BY <1>1, TypeStep DEF DownloadInv
    <2>2. Effort(req[c], job[c]) \in Nat /\ Effort(req'[c], job'[c]) \in Nat
      BY <2>1, EffortFacts DEF TypeOK
    <2>3. CASE Step(c) \/ (Fault(c) /\ ~LateOpen(c))
      BY <2>1, <2>2, <2>3, EffortTaken, EffortFacts DEF TypeOK
    <2>4. CASE req'[c] = req[c] /\ job'[c].pc = job[c].pc /\ job'[c].left = job[c].left
               /\ job'[c].counted = job[c].counted /\ job'[c].buf = job[c].buf
               /\ job'[c].eof = job[c].eof
      <3>1. Effort(req'[c], job'[c]) = Effort(req[c], job[c])
        BY <2>4 DEF Effort, ToRead, Limited
      <3> QED  BY <1>1, <2>1, <2>2, <3>1, EffortTaken, EffortFacts DEF TypeOK
    <2>5. CASE LateOpen(c)
      <3>1. req' = req /\ job[c] \in Job /\ job \in [Calls -> Job]
        BY <2>1, <2>5 DEF LateOpen, TypeOK
      <3> QED  BY <2>4, <2>5, <3>1 DEF LateOpen, Job
    <2>6. ASSUME NEW d \in Calls \ {c}, Request(d) \/ Step(d) \/ Fault(d)
          PROVE  req'[c] = req[c] /\ job'[c] = job[c]
      BY <1>1, <2>6, Frame
    <2>7. ~Request(c)
      BY <1>1 DEF Request
    <2> QED  BY <1>1, <2>3, <2>4, <2>5, <2>6, <2>7, Zenon DEF Next, vars
  <1>2. DownloadInv /\ [Next]_vars => [\A c \in Calls : Settles(c)]_vars
    BY <1>1
  <1> QED  BY <1>2, DownloadInductive, PTL DEF Spec, SafetySpec, Settling
=============================================================================
