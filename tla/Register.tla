------------------------------ MODULE Register ------------------------------
(***************************************************************************)
(* What hybrid sync promises for one collection: a replicated register per *)
(* row that keeps the last write.  Users write in any database.  Otherwise *)
(* a database comes to show only what another one shows, or showed when it *)
(* was read; the last write is never gone from all of them, and in the end *)
(* they all show it.  A delete for ever is the last write of its row.      *)
(* What is read may be lifted from the trash before it is carried on.      *)
(***************************************************************************)
EXTENDS Naturals

CONSTANTS
    Stores, Rows,
    Stamps      \* the timestamps in use

Value == [state : {"none", "live", "trashed", "purged"}, stamp : Stamps \cup {0}]

VARIABLES
    value,      \* the last write to each row
    shown,      \* what each database shows of it
    held        \* what was read of it and may still be written elsewhere

vars == <<value, shown, held>>

Init ==
    /\ value \in [Rows -> {v \in Value : v.state = "none"}]
    /\ shown = [st \in Stores |-> value]
    /\ held = [r \in Rows |-> {}]

Write(st, r, v) ==
    /\ v.state # "none"
    /\ shown[st][r].state = "purged" => v.state = "purged"
    /\ v.state = "live" => v.stamp > value[r].stamp /\ v.stamp > shown[st][r].stamp
    /\ shown' = [shown EXCEPT ![st][r] = v]
    /\ value' = [value EXCEPT ![r] = IF @.state = "purged" THEN @ ELSE v]
    /\ UNCHANGED held

\* Forgetting what is held is always allowed: passes end, and may die.
Forget == \A r \in Rows : held'[r] \subseteq held[r]

\* Whoever decided to bring a live row back lifts the tombstone that has come
\* over it in the meantime.
Lifted(r) == {v \in Value : v.state = "live"
                             /\ \E st \in Stores : shown[st][r].state = "trashed"}

Read ==
    /\ \A r \in Rows :
          held'[r] \subseteq held[r] \cup {shown[st][r] : st \in Stores} \cup Lifted(r)
    /\ UNCHANGED <<value, shown>>

Carry(to, r, v) ==
    /\ v \in held[r]
    /\ shown' = [shown EXCEPT ![to][r] = v]
    /\ \E st \in Stores : shown'[st][r] = value[r]
    /\ Forget
    /\ UNCHANGED value

Next ==
    \/ Read
    \/ \E st \in Stores, r \in Rows :
          \/ \E v \in Value : Write(st, r, v)
          \/ \E v \in held[r] : Carry(st, r, v)

Agreed == \A st \in Stores : shown[st] = value

Safety == Init /\ [][Next]_vars
Spec   == Safety /\ <>[]Agreed
=============================================================================
