------------------------------- MODULE MCNfc -------------------------------
(* Small instances of Nfc for TLC. *)
EXTENDS Nfc

CONSTANTS r1, r2, t1, t2, t3, t4, t5, t6, po, pn, pc, px, c1, c2

\* A small NTAG that is blank, a larger one whose CC promises too little and
\* holds a short record, an SLIX2 with a record of this program's, one with
\* another's record, a large NTAG and a Bambu tag this program must not touch.
Kind == [t \in Tags |-> CASE t = t1 -> "n213" [] t = t2 -> "n215" [] t \in {t3, t4} -> "slix2"
                          [] t = t5 -> "n216" [] OTHER -> "bambu"]
Holding(a, b) == [i \in 1..3 |-> CASE i = 1 -> a [] i = 2 -> b [] OTHER -> Zero]
AtFirst == [t \in Tags |->
    LET m(cc, size, mem) == [cc |-> cc, size |-> size, locked |-> FALSE, mem |-> mem,
                             spoilt |-> FALSE]
    IN CASE t = t1 -> m("blank", 0, Holding(Zero, Zero))
         [] t = t2 -> m("ndef", 1, Holding(pc, pn))
         [] t = t3 -> m("ndef", 2, Holding(po, po))
         [] t = t4 -> m("ndef", 2, Holding(px, Zero))
         [] OTHER -> m("foreign", 3, Holding(Torn, Torn))]

Kept == [p \in Payloads |-> CASE p = po -> "openprinttag" [] p = px -> "other" [] OTHER -> "opentag3d"]
Long == [p \in Payloads |-> IF p \in {po, pn} THEN 2 ELSE 1]

Asking(asks, calls, tags, moves, fails) ==
    [asks |-> asks, calls |-> calls, readers |-> {r1}, tags |-> tags, moves |-> moves,
     fails |-> fails, phantoms |-> {}, unplugs |-> {}, shorts |-> FALSE]
Watching(readers, tags, moves) == [Asking({}, {}, tags, moves, 0) EXCEPT !.readers = readers]

\* One request with tags swapped and an exchange that fails; two requests; and
\* readers that only watch.
Lawful ==
    {Asking({"write", "read"}, {c1}, {t1, t2, t3}, 2, 1),
     Asking({"write"}, {c1}, {t4, t5, t6}, 2, 0),
     Asking({"erase", "lock", "unlock"}, {c1}, {t1, t3, t4}, 2, 1),
     Asking({"erase", "unlock"}, {c1}, {t2, t5, t6}, 2, 0),
     Asking({"erase", "lock", "unlock"}, {c1, c2}, {t1, t3}, 2, 0),
     Watching({r1, r2}, {t2, t3, t4}, 3),
     [Watching({r1}, {t2, t3}, 3) EXCEPT !.unplugs = {r1}],
     [Watching({r1}, {t3}, 2) EXCEPT !.phantoms = {r1}]}

\* An exchange fails while a tag is erased.
Erasing == {Asking({"erase"}, {c1}, {t3}, 1, 1)}
\* The reader answers short for pages that are not there.
Short == {[Asking({"write"}, {c1}, {t1, t2}, 1, 0) EXCEPT !.shorts = TRUE]}
\* One of two readers reports a tag that is not there, or is pulled out.
Haunted == {[Watching({r1, r2}, {t3}, 1) EXCEPT !.phantoms = {r1}]}
Pulled == {[Watching({r1, r2}, {t3}, 1) EXCEPT !.unplugs = {r1}]}
\* Two tags, one after the other.
Swapped == {Watching({r1}, {t2, t3}, 2)}
=============================================================================
