------------------------------ MODULE MCDesktop ------------------------------
(* Model values and plays for TLC.                                          *)
EXTENDS Desktop

CONSTANTS s1, s2, d1, d2, p1, p2, p3, p4, v1, v2, v3

MCSaves == {s1, s2}
MCDbs == {d1, d2}
MCProcs == {p1, p2, p3, p4}
MCServices == {v1, v2, v3}

Game(modes, saves, kinds, fails, ends) ==
    [mode : modes, lan : {TRUE}, saves : {saves}, kinds : {kinds}, together : {FALSE},
     srv : {FALSE}, fails : {fails}, ends : {ends}]

\* Two switches in a row, with something going wrong; or one, and a quit beside it.
Switches ==
    Game(Modes, 2, Modes, 1, FALSE) \cup Game({"offline"}, 1, {"atlas"}, 1, TRUE)
        \cup Game({"hybrid"}, 1, {"atlas"}, 1, TRUE) \cup Game({"atlas"}, 0, {}, 1, TRUE)
\* A toggle of sharing around a switch, and a reset.
Toggles == Game(Modes, 2, {"lan", "atlas", "reset"}, 1, FALSE)
\* A server that crashes until it is given up, with one save.
Crashes == Game({"hybrid", "atlas"}, 1, {"atlas", "offline"}, 3, FALSE)
\* A restart that looks up an SRV address, beside a save.
Lookups == {[g EXCEPT !.srv = TRUE] : g \in Game({"atlas"}, 1, {"lan", "offline"}, 1, FALSE)}
\* Saves that overlap.
Overlaps == {[g EXCEPT !.together = TRUE] : g \in Game({"offline", "atlas"}, 2, {"atlas", "offline"}, 0, FALSE)}
\* A toggle that fails twice; a boot that the quit overtakes.
Refusals == Game({"offline"}, 1, {"lan"}, 2, FALSE)
Overtaken == Game({"atlas"}, 0, {}, 0, TRUE)
Lawful == Switches \cup Toggles \cup Crashes \cup Lookups \cup Overlaps
=============================================================================
