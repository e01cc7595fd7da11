----------------------------- MODULE MCSyncNames -----------------------------
(* Small instances of SyncNames for TLC. *)
EXTENDS SyncNames, TLC

CONSTANTS ra, rb, rc, nx, ny, nz, s1, s2, lap, desk, cloud

Homes == s1 :> lap @@ s2 :> desk

Row3(d1, d2, d3) == ra :> d1 @@ rb :> d2 @@ rc :> d3
N(n, t) == [name |-> n, upd |-> t, del |-> 0]
D(n, t) == [name |-> n, upd |-> t, del |-> t]
Docs(l, k, r) == lap :> l @@ desk :> k @@ cloud :> r
P(services, docs, edits, kinds, crashes, fails) ==
    [services |-> services, once |-> {s2}, docs |-> docs, edits |-> edits, kinds |-> kinds,
     crashes |-> s1 :> crashes @@ s2 :> 0, fails |-> fails]

Gone == Row3(NoDoc, NoDoc, NoDoc)
SwapUp == Docs(Row3(N(ny, 3), N(nx, 2), NoDoc), Gone, Row3(N(nx, 1), N(ny, 1), NoDoc))
Rotate == Docs(Row3(N(ny, 3), N(nz, 2), N(nx, 2)), Gone, Row3(N(nx, 1), N(ny, 1), N(nz, 1)))
\* rc is new, and wants the name rb gives up to take ra's, which ra leaves for nz
Chain == Docs(Row3(N(nz, 2), N(nx, 3), N(ny, 2)), Gone, Row3(N(nx, 1), N(ny, 1), NoDoc))
\* rb and rc both want nz
Stuck == Docs(Row3(N(ny, 3), N(nz, 3), N(nx, 1)), Gone, Row3(N(nx, 1), N(ny, 1), N(nz, 4)))
Trashed == Docs(Row3(N(nx, 3), N(ny, 3), NoDoc), Gone, Row3(D(nx, 1), N(nx, 2), NoDoc))
\* the desk has yet to insert ra
SwapUp2 == Docs(Row3(N(ny, 3), N(nx, 2), NoDoc), Row3(NoDoc, N(ny, 1), NoDoc), Row3(N(nx, 1), N(ny, 1), NoDoc))

All == {"name", "trash", "restore", "create"}
Calm == {P({s1}, d, 0, {}, 0, 0) : d \in {SwapUp, Rotate, Chain, Stuck}}
        \cup {P({s1}, SwapUp, 0, {}, 1, 1), P({s1}, Rotate, 0, {}, 1, 0), P({s1}, Chain, 0, {}, 0, 1)}
Edited == {P({s1}, d, 1, All, 0, 0) : d \in {Stuck, Trashed}} \cup {P({s1}, SwapUp, 1, All, 0, 0)}
Shared == {P({s1, s2}, SwapUp2, 0, {}, 1, 0)}
\* Violates PlaceholdersStay: the desk moves the cloud's ra aside while lap, where ra was
\* in the trash, brings it back; and a user trashes the placeholder.
BroughtBack == Docs(Row3(D(nx, 2), N(ny, 1), NoDoc), Row3(N(ny, 4), N(nx, 4), NoDoc),
                    Row3(N(nx, 3), N(ny, 1), NoDoc))
BehindTheGuard == {P({s1, s2}, BroughtBack, 1, {"trash"}, 0, 0)}
NamePlays == Calm \cup Edited \cup Shared
=============================================================================
