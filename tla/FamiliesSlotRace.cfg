\* The fresh copy is trashed while the promotion remaps slots to it.
SPECIFICATION Spec
CONSTANTS
    a = a  b = b  e = e  s1 = s1  s2 = s2  c1 = c1  c2 = c2
    Rows = {a, b}
    Roots = {a}
    Traits = {"color"}
    Spools = {s1}
    Clients = {c1, c2}
    C1Kinds = {"create", "trash"}
    C2Kinds = {"create", "trash"}
    Plays <- Alike
    None = None
    NoDoc = NoDoc
    MaxFails = 0
SYMMETRY Symmetry
INVARIANTS
    SlotResolves
