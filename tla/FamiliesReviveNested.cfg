\* An import revives a variant whose parent has become a variant.
SPECIFICATION Spec
CONSTANTS
    a = a  b = b  e = e  s1 = s1  s2 = s2  c1 = c1  c2 = c2
    Rows = {a, b, e}
    Roots = {a, e}
    Traits = {}
    Spools = {}
    Clients = {c1, c2}
    C1Kinds = {"create", "trash", "revive", "adopt"}
    C2Kinds = {"create", "trash", "revive", "adopt"}
    Plays <- Alike
    None = None
    NoDoc = NoDoc
    MaxFails = 0
SYMMETRY Symmetry
INVARIANTS
    NoNesting
