------------------------- MODULE MCResourceDownload -------------------------
\* The bounds of the runs of ResourceDownload.
EXTENDS ResourceDownload

MCSizes == {1, 2, 3}

\* Bound: a download that crosses another is of one byte, by a registered
\* handler.
Small(c) ==
    \/ job[c].pc = "idle"
    \/ Downloads(c) /\ req[c].kind = "custom" /\ req[c].size = 1 /\ req[c].declared = -1

OneSmall == \A c, d \in Calls : c # d => Small(c) \/ Small(d)
=============================================================================
