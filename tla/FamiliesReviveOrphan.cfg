\* An import revives a variant whose parent is in the trash.
SPECIFICATION Spec
CONSTANTS
    a = a  b = b  e = e  s1 = s1  s2 = s2  c1 = c1  c2 = c2
    Rows = {a, b}
    Roots = {a}
    Traits = {}
    Spools = {}
    Clients = {c1, c2}
    C1Kinds = {"create", "trash", "revive"}
    C2Kinds = {"create", "trash", "revive"}
    Plays <- Alike
    None = None
    NoDoc = NoDoc
    MaxFails = 0
SYMMETRY Symmetry
INVARIANTS
    TrashHasNoVariants
