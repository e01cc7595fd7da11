----------------------------- MODULE MCFamilies -----------------------------
(* Small instances of Families for TLC. *)
EXTENDS Families, TLC

CONSTANTS
    a, b, e, s1, s2, c1, c2,
    Roots,      \* the filaments that exist from the start
    C1Kinds,    \* the kinds of request that client c1 sends
    C2Kinds     \* and client c2

Game(rows, roots, traits, kinds1, kinds2, fails) ==
    [rows |-> rows, roots |-> roots, traits |-> traits, fails |-> fails,
     kinds |-> [c \in Clients |-> IF c = c1 THEN kinds1 ELSE kinds2]]

Alike == {Game(Rows, Roots, Traits, C1Kinds, C1Kinds, MaxFails)}
Apart == {Game(Rows, Roots, Traits, C1Kinds, C2Kinds, MaxFails)}

\* Two clients re-parent, some parents are promoted first.
Adoptions == {Game({a, b, e}, {a, b}, {}, {"adopt"},
                   {"adopt", "addSpool", "detach", "trash"}, 0)}
\* An import revives a row from the trash while the application fills it.
Revivals == {Game({e, f}, {e}, {"color", "alarm"}, {"revive"},
                  {"create", "trash", "purge", "addSpool", "paint"}, 1) : f \in {a, b}}
Gates == Adoptions \cup Revivals

\* Documents that start out alike are interchangeable, and so are clients
\* that send the same requests.
RowSymmetry == Permutations(Roots) \cup Permutations(Rows \ Roots)
Symmetry    == Permutations(Clients) \cup RowSymmetry
=============================================================================
