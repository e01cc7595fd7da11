---------------------------- MODULE SyncRegister ----------------------------
(* SyncRows implements Register: the refinement mapping.                   *)
EXTENDS SyncRows

\* What a database shows of a document.  Of one in the trash only that it is
\* there: the row loop leaves a pair of tombstones alone.  The bodies are left to
\* SameStampSameBody.
View(d) ==
    IF d = NoDoc THEN [state |-> "none", stamp |-> 0]
    ELSE IF d.purged THEN [state |-> "purged", stamp |-> 0]
    ELSE IF ~IsLive(d) THEN [state |-> "trashed", stamp |-> 0]
    ELSE [state |-> "live", stamp |-> d.upd]

\* A service holds its slim reads and the document it is about to copy.
HeldBy(s, r) ==
    LET jobs == {j \in {job[s]} : j.row = r}
    IN  {View(d) : d \in {snap[s][side][r] : side \in Sides}
                         \cup {CopyWrite(j.kind, j.full, j.full) : j \in jobs}}

Reg == INSTANCE Register WITH
    Stamps <- 1..MaxTime,
    value  <- [r \in Rows |-> View(last[r])],
    shown  <- [st \in Stores |-> [r \in Rows |-> View(store[st][r])]],
    held   <- [r \in Rows |-> (UNION {HeldBy(s, r) : s \in Services}) \ {View(NoDoc)}]

\* The loops of all services together are a replicated register: a pass copies
\* what another database shows and never the last trace of the latest write
\* away, although it decides on slim reads and writes several steps later.
IsRegister == Reg!Spec
=============================================================================
