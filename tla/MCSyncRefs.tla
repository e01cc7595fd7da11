----------------------------- MODULE MCSyncRefs -----------------------------
(* Small instances of SyncRefs for TLC. *)
EXTENDS SyncRefs
CONSTANTS bin1, bin2, red, blue, base

Game(legacy, locations, time, limit) ==
    [legacy |-> legacy, locs |-> locations, time |-> time, faults |-> 0, limit |-> limit]

Plain == {Game({}, Locs, MaxTime, MaxFaults)}

\* Databases that this version alone has written, and databases last synced by a
\* version before GH #116; failures in both.
Both == {Game({}, {bin1}, 3, 2), Game({"loc", "parent"}, {bin1, bin2}, 2, 2)}
=============================================================================
