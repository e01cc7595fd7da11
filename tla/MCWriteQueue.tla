----------------------------- MODULE MCWriteQueue -----------------------------
(* Small instances of WriteQueue for TLC. *)
EXTENDS WriteQueue, TLC

CONSTANTS w1, w2, w3, u, p, q, s, t

SpoolOfEdit == w1 :> p @@ w2 :> p @@ w3 :> q @@ u :> p

P(edits, losses, kills, switches) ==
    [edits |-> edits, losses |-> losses, kills |-> kills, switches |-> switches, other |-> 0,
     unsaved |-> 0, late |-> FALSE, midSave |-> FALSE]

Lawful == {P({w1, w2, u}, 1, 1, 0), P({w1, w2, w3}, 2, 0, 0), P({w1, w3}, 2, 0, 1), P({w1, w2, u}, 1, 0, 1),
           [P({w1, w2}, 1, 0, 1) EXCEPT !.unsaved = 1], [P({w1, u}, 1, 1, 0) EXCEPT !.late = TRUE],
           [P({w1, w2}, 2, 0, 0) EXCEPT !.other = 1], P({w1, w2}, 2, 0, 2)}
Concurrent == {[P({w1}, 1, 0, 0) EXCEPT !.other = 1]}
GivenUp == {[P({w1, w2}, 1, 0, 0) EXCEPT !.late = TRUE]}
Remounted == {P({w1, w2}, 1, 0, 0)}
MidSave == {[P({w1}, 1, 0, 1) EXCEPT !.midSave = TRUE]}
Unsaved == {[P({w1}, 1, 0, 1) EXCEPT !.unsaved = 1]}
===============================================================================
