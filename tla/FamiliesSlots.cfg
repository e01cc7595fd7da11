\* Spools come and go while their filament is promoted, twice interrupted.
SPECIFICATION Spec
CONSTANTS
    a = a  b = b  e = e  s1 = s1  s2 = s2  c1 = c1  c2 = c2
    Rows = {a, b, e}
    Roots = {a}
    Traits = {"color"}
    Spools = {s1, s2}
    Clients = {c1, c2}
    C1Kinds = {"create", "promote", "addSpool", "removeSpool", "paint"}
    C2Kinds = {"create", "promote", "addSpool", "removeSpool", "paint"}
    Plays <- Alike
    None = None
    NoDoc = NoDoc
    MaxFails = 2
SYMMETRY Symmetry
PROPERTIES
    NeverResurrected
INVARIANTS
    SlotResolves
    LiveOnce
