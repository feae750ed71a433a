-------------------------- MODULE ResourceDownload --------------------------
(***************************************************************************)
(* resource.py Manager.open and Manager.download, the size limit around an *)
(* HTTP body and the readable adapter of _async.py underneath it.  Calls   *)
(* run as tasks that may download to one target file.  A step goes from    *)
(* one await to the next; at an await a call may also fail or be           *)
(* cancelled, and its process may die at any time.  Contents are kept as   *)
(* numbers of bytes.                                                       *)
(***************************************************************************)
EXTENDS Integers, FiniteSetsExt

CONSTANTS Calls,      \* calls of open() or download(), one task each
          None,       \* no file
          MaxBytes,   \* max_bytes
          DataMaxBytes, \* data_max_bytes
          Chunk,      \* what download asks for at a time
          Piece,      \* the most that the network delivers at a time
          Sizes,      \* sizes of contents
          Endless     \* the size of a content without end; bound: from here on
                      \* only that a file has as much is kept

ASSUME CallAssumption == None \notin Calls
ASSUME SizeAssumption ==
    /\ {MaxBytes, DataMaxBytes, Chunk, Piece, Endless} \subseteq Nat \ {0}
    /\ MaxBytes + Piece <= Endless /\ Sizes \subseteq 0..(Endless - 1)

VARIABLES req,    \* what each call was asked for, and what the source has
          job,    \* where each call is, and what it holds
          dst     \* the target: which call put it there, its bytes

vars == <<req, job, dst>>

NoReq == [how |-> "download", kind |-> "data", size |-> 0, declared |-> 0]

\* How an identifier's handler is found: "custom" stands for registered ones.
\* `declared` is Stream.size: -1 is unknown.  What a server declares need not
\* be what is read, as of a compressed answer.
Requests ==
    LET Of(kind, sizes, declared) ==
            [how : {"download", "open"}, kind : {kind}, size : sizes, declared : declared]
        Unsure == {-1, MaxBytes, MaxBytes + 1} IN
    Of("http", Sizes \cup {Endless}, Unsure) \cup Of("custom", Sizes, Unsure)
        \cup {r \in Of("data", Sizes, Sizes) : r.declared = r.size}

Ends == {"none", "failed", "cancelled", "too_big", "crashed"}

Job == [pc : {"idle", "open", "refuse", "prepare", "create", "read", "write",
              "flush", "close", "done"},
        left : 0..Endless,    \* what the source still has
        buf : 0..Endless,     \* len(_buffer) of the adapter
        eof : BOOLEAN,        \* its _eof
        counted : 0..MaxBytes, \* read_bytes of the limit
        chunk : 0..Endless,   \* what was read and not yet written
        got : 0..Endless,     \* what was written, or returned to the reader
        tmp : BOOLEAN,        \* the temporary file exists
        late : BOOLEAN,       \* a thread is left that may open it still
        stream : {"none", "open", "closed"},
        ok : BOOLEAN,         \* `ok`
        error : Ends,         \* what the call raises
        slips : SUBSET {"prepare", "close", "remove", "late"}]
                              \* history: where cleaning up went wrong

NewJob == [pc |-> "idle", left |-> 0, buf |-> 0, eof |-> FALSE, counted |-> 0,
           chunk |-> 0, got |-> 0, tmp |-> FALSE, late |-> FALSE, stream |-> "none",
           ok |-> FALSE, error |-> "none", slips |-> {}]

NoFile == [by |-> None, bytes |-> 0]

TypeOK ==
    /\ req \in [Calls -> Requests \cup {NoReq}]
    /\ job \in [Calls -> Job]
    /\ dst \in [by : Calls, bytes : 0..Endless] \cup {NoFile}

Init ==
    /\ req = [c \in Calls |-> NoReq]
    /\ job = [c \in Calls |-> NewJob]
    /\ dst = NoFile

Limited(c) == req[c].kind = "http"
Downloads(c) == req[c].how = "download"
Failures == {"failed", "cancelled"}

-----------------------------------------------------------------------------
Request(c) ==
    /\ job[c].pc = "idle"
    /\ \E r \in Requests :
          /\ req' = [req EXCEPT ![c] = r]
          /\ job' = [job EXCEPT ![c].pc = "open", ![c].left = r.size]
    /\ UNCHANGED dst

End(c, e) == job' = [job EXCEPT ![c].pc = "done", ![c].error = e]

\* The identifier cannot be parsed, there is no handler, or it raises; an
\* http request that fails has closed what it opened (HttpxAgent).
OpenFails(c) ==
    /\ job[c].pc = "open"
    /\ \E e \in Failures : End(c, e)
    /\ UNCHANGED <<req, dst>>

\* The handler of data URLs refuses before there is a stream.
TooMuchData(c) == req[c].kind = "data" /\ req[c].size > DataMaxBytes

DataRefused(c) ==
    /\ job[c].pc = "open" /\ TooMuchData(c)
    /\ End(c, "too_big")
    /\ UNCHANGED <<req, dst>>

\* The handler has a stream; that of http refuses a Content-Length.
Opened(c) ==
    /\ job[c].pc = "open" /\ ~TooMuchData(c)
    /\ job' = [job EXCEPT
                 ![c].stream = "open",
                 ![c].pc = IF Limited(c) /\ req[c].declared > MaxBytes THEN "refuse"
                           ELSE IF Downloads(c) THEN "prepare" ELSE "read"]
    /\ UNCHANGED <<req, dst>>

Refuse(c) ==
    /\ job[c].pc = "refuse"
    /\ job' = [job EXCEPT ![c].pc = "done", ![c].error = "too_big",
                          ![c].stream = "closed"]
    /\ UNCHANGED <<req, dst>>

\* The target's directory is looked at and the temporary file made.
Prepare(c) ==
    /\ job[c].pc = "prepare"
    /\ job' = [job EXCEPT ![c].pc = "create", ![c].tmp = TRUE]
    /\ UNCHANGED <<req, dst>>

\* No directory, or no file: nothing closes the stream.
PrepareFails(c) ==
    /\ job[c].pc = "prepare"
    /\ job' = [job EXCEPT ![c].pc = "done", ![c].error = "failed",
                          ![c].slips = @ \cup {"prepare"}]
    /\ UNCHANGED <<req, dst>>

Create(c) ==
    /\ job[c].pc = "create"
    /\ job' = [job EXCEPT ![c].pc = "read"]
    /\ UNCHANGED <<req, dst>>

-----------------------------------------------------------------------------
\* Mutant: content has to stay a byte below the limit.
Remaining_Exclusive(c) == MaxBytes - 1 - job[c].counted

Remaining(c) == MaxBytes - job[c].counted

\* What the limit lets a read have: one byte more than may be read.  read()
\* without a size, with which a stream's user reads it, asks for all of that.
Asked(c) ==
    IF Limited(c) /\ ~(Downloads(c) /\ Chunk <= Remaining(c)) THEN Remaining(c) + 1
    ELSE IF Downloads(c) THEN Chunk ELSE Endless

\* The adapter under the limit waits for the next piece, or for the end.
Fetch(c) ==
    /\ job[c].pc = "read" /\ Limited(c) /\ Remaining(c) > 0
    /\ job[c].buf < Asked(c) /\ ~job[c].eof
    /\ \/ \E n \in 1..Min({Piece, job[c].left}) :
             job' = [job EXCEPT ![c].buf = @ + n,
                                ![c].left = IF @ = Endless THEN @ ELSE @ - n]
       \/ job[c].left = 0 /\ job' = [job EXCEPT ![c].eof = TRUE]
    /\ UNCHANGED <<req, dst>>

\* Mutant: a read of less than was asked for is taken for the last.
After_Short(c, n) ==
    IF Downloads(c) THEN IF n < Chunk THEN "flush" ELSE "write" ELSE "close"

\* Where a call goes with the n bytes it has read.
After(c, n) ==
    IF Downloads(c) THEN IF n = 0 THEN "flush" ELSE "write" ELSE "close"

\* Mutant: what is read does not count.
LimitedRead_Uncounted(c) ==
    /\ job[c].pc = "read" /\ Limited(c) /\ Remaining(c) > 0
    /\ job[c].buf >= Asked(c) \/ job[c].eof
    /\ LET n == Min({Asked(c), job[c].buf}) IN
          /\ n <= Remaining(c)
          /\ job' = [job EXCEPT ![c].buf = @ - n,
                                ![c].chunk = IF Downloads(c) THEN n ELSE 0,
                                ![c].got = IF Downloads(c) THEN @ ELSE n,
                                ![c].pc = After(c, n)]
    /\ UNCHANGED <<req, dst>>

\* The limited read returns what it asked for, or what there was.
LimitedRead(c) ==
    /\ job[c].pc = "read" /\ Limited(c) /\ Remaining(c) > 0
    /\ job[c].buf >= Asked(c) \/ job[c].eof
    /\ LET n == Min({Asked(c), job[c].buf}) IN
          /\ n <= Remaining(c)
          /\ job' = [job EXCEPT ![c].buf = @ - n, ![c].counted = @ + n,
                                ![c].chunk = IF Downloads(c) THEN n ELSE 0,
                                ![c].got = IF Downloads(c) THEN @ ELSE n,
                                ![c].pc = After(c, n)]
    /\ UNCHANGED <<req, dst>>

\* The limited read has gone past the limit, or had reached it before.
OverLimit(c) ==
    /\ job[c].pc = "read" /\ Limited(c)
    /\ Remaining(c) <= 0 \/ (job[c].buf >= Asked(c) /\ Asked(c) > Remaining(c))
    /\ job' = [job EXCEPT ![c].pc = "close", ![c].error = "too_big"]
    /\ UNCHANGED <<req, dst>>

\* Any other body's read: a registered handler's may return less than asked.
PlainRead(c) ==
    /\ job[c].pc = "read" /\ ~Limited(c)
    /\ \E n \in 0..Min({Asked(c), job[c].left}) :
          /\ n = 0 => job[c].left = 0
          /\ req[c].kind = "data" => n = Min({Asked(c), job[c].left})
          /\ job' = [job EXCEPT ![c].left = @ - n,
                                ![c].chunk = IF Downloads(c) THEN n ELSE 0,
                                ![c].got = IF Downloads(c) THEN @ ELSE n,
                                ![c].pc = After(c, n)]
    /\ UNCHANGED <<req, dst>>

Write(c) ==
    /\ job[c].pc = "write"
    /\ job' = [job EXCEPT ![c].pc = "read", ![c].chunk = 0,
                          ![c].got = Min({@ + job[c].chunk, Endless})]
    /\ UNCHANGED <<req, dst>>

\* An await of the call raises.  A thread that was to open the temporary file
\* when its task was cancelled may do so still.
Raises(c) ==
    /\ job[c].pc \in {"create", "read", "write", "flush"}
    /\ \E e \in Failures :
          job' = [job EXCEPT ![c].pc = "close", ![c].error = e,
                             ![c].late = (job[c].pc = "create" /\ e = "cancelled")]
    /\ UNCHANGED <<req, dst>>

\* Mutant: the size is looked at when the file is in place.
DeclaredTooBig_Late(c) ==
    /\ job[c].pc = "flush" /\ req[c].declared > MaxBytes
    /\ dst' = [by |-> c, bytes |-> job[c].got]
    /\ job' = [job EXCEPT ![c].pc = "close", ![c].error = "too_big", ![c].ok = TRUE,
                          ![c].tmp = FALSE]
    /\ UNCHANGED req

\* The size of the stream is over the limit all the same, which only data URLs
\* and registered handlers get to.
DeclaredTooBig(c) ==
    /\ job[c].pc = "flush" /\ req[c].declared > MaxBytes
    /\ job' = [job EXCEPT ![c].pc = "close", ![c].error = "too_big"]
    /\ UNCHANGED <<req, dst>>

\* The file is complete and takes the target's place.
Replace(c) ==
    /\ job[c].pc = "flush" /\ req[c].declared <= MaxBytes
    /\ dst' = [by |-> c, bytes |-> job[c].got]
    /\ job' = [job EXCEPT ![c].pc = "close", ![c].ok = TRUE, ![c].tmp = FALSE]
    /\ UNCHANGED req

-----------------------------------------------------------------------------
\* Mutant: the temporary file is left.
Close_KeepsTmp(c) ==
    /\ job[c].pc = "close"
    /\ job' = [job EXCEPT ![c].pc = "done", ![c].stream = "closed"]
    /\ UNCHANGED <<req, dst>>

\* The stream is closed, then the temporary file removed if it is left.
Close(c) ==
    /\ job[c].pc = "close"
    /\ job' = [job EXCEPT ![c].pc = "done", ![c].stream = "closed", ![c].tmp = FALSE]
    /\ UNCHANGED <<req, dst>>

\* It cannot be removed.
RemoveFails(c) ==
    /\ job[c].pc = "close" /\ job[c].tmp
    /\ job' = [job EXCEPT ![c].pc = "done", ![c].stream = "closed",
                          ![c].error = "failed", ![c].slips = @ \cup {"remove"}]
    /\ UNCHANGED <<req, dst>>

\* The stream's close raises, its client closed or not: the rest is skipped.
CloseFails(c) ==
    /\ job[c].pc \in {"close", "refuse"}
    /\ \E e \in Failures, s \in {"open", "closed"} :
          job' = [job EXCEPT ![c].pc = "done", ![c].stream = s, ![c].error = e,
                             ![c].slips = @ \cup {"close"}]
    /\ UNCHANGED <<req, dst>>

\* The thread that was left opens the file, which makes it again, or does not.
LateOpen(c) ==
    /\ job[c].late
    /\ \/ job' = [job EXCEPT ![c].late = FALSE]
       \/ job' = [job EXCEPT ![c].late = FALSE, ![c].tmp = TRUE,
                             ![c].slips = IF job[c].pc = "done" THEN @ \cup {"late"} ELSE @]
    /\ UNCHANGED <<req, dst>>

\* The process dies, and its connections with it.
Crash(c) ==
    /\ job[c].pc \notin {"idle", "done"}
    /\ job' = [job EXCEPT ![c].pc = "done", ![c].error = "crashed", ![c].late = FALSE,
                          ![c].stream = IF @ = "open" THEN "closed" ELSE @]
    /\ UNCHANGED <<req, dst>>

\* What a call does by itself, or with what it waits for.
Step(c) ==
    \/ DataRefused(c) \/ Opened(c) \/ Refuse(c) \/ Prepare(c) \/ Create(c)
    \/ Fetch(c) \/ LimitedRead(c) \/ OverLimit(c) \/ PlainRead(c) \/ Write(c)
    \/ DeclaredTooBig(c) \/ Replace(c) \/ Close(c)

Fault(c) ==
    \/ OpenFails(c) \/ PrepareFails(c) \/ Raises(c) \/ RemoveFails(c)
    \/ CloseFails(c) \/ LateOpen(c) \/ Crash(c)

Next == \E c \in Calls : Request(c) \/ Step(c) \/ Fault(c)

SafetySpec == Init /\ [][Next]_vars

\* The event loop and its threads run, sources and files answer: a client's
\* timeout is between two bits of an answer.
Spec == SafetySpec /\ \A c \in Calls : WF_vars(Step(c))

-----------------------------------------------------------------------------
(* The target is never anything but one whole content that keeps to its    *)
(* handler's limit, whichever downloads to it fail, are cut off or overlap *)
(* (resource.py:320-335,551-574).                                          *)
WholeContent ==
    dst # NoFile =>
        LET r == req[dst.by] IN
        /\ dst.bytes = r.size
        /\ r.kind = "http" => r.size <= MaxBytes
        /\ r.kind = "data" => r.size <= DataMaxBytes

(* A call that reports success has put its content in place, or given all  *)
(* of it to the reader; one that reports a failure has left the target     *)
(* alone, unless its stream could not be closed afterwards                 *)
(* (resource.py:335-345).                                                  *)
ReportIsTrue ==
    \A c \in Calls : job[c].pc = "done" =>
        /\ job[c].error = "none" /\ Downloads(c) => job[c].ok
        /\ job[c].error = "none" /\ ~Downloads(c) /\ Limited(c) =>
              job[c].got = req[c].size /\ req[c].size <= MaxBytes
        /\ job[c].ok => \/ job[c].error \in {"none", "crashed"}
                        \/ "close" \in job[c].slips

(* Only content that reaches the limit is refused for its size             *)
(* (resource.py:461-462,520-523,551-574).                                  *)
RefusalIsTrue ==
    \A c \in Calls : job[c].error = "too_big" =>
        \/ req[c].size >= MaxBytes \/ req[c].declared > MaxBytes
        \/ TooMuchData(c)

(* A call that ends leaves neither an open stream nor a temporary file     *)
(* behind, unless the directory or the file could not be had at all, or    *)
(* cleaning up itself went wrong (resource.py:316-341).                    *)
NothingLeft ==
    \A c \in Calls : job[c].pc = "done" =>
        /\ job[c].stream = "open" => job[c].slips \cap {"prepare", "close"} # {}
        /\ job[c].tmp => \/ job[c].slips \cap {"close", "remove", "late"} # {}
                         \/ job[c].error = "crashed"

(* Every call comes to an end, of content without end, too: what limits    *)
(* its length limits its time (resource.py:544-574, _async.py:50-59).      *)
CallSettles == \A c \in Calls : job[c].pc # "idle" ~> job[c].pc = "done"
=============================================================================
