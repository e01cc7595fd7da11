----------------------------- MODULE MCSyncRows -----------------------------
(* Small instances of SyncRows for TLC. *)
EXTENDS SyncRegister, TLC

CONSTANTS r1, r2, s1, s2, l1, l2

\* One desktop syncing two rows.
OneLocal == (s1 :> l1)

\* Two desktops that share the remote database.
TwoDesktops == (s1 :> l1) @@ (s2 :> l2)

\* One desktop whose previous service still runs: both have the same pair.
SamePair == (s1 :> l1) @@ (s2 :> l1)
=============================================================================
