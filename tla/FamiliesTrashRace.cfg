\* A PUT writes a parent between the check of its trash and the write.
SPECIFICATION Spec
CONSTANTS
    a = a  b = b  e = e  s1 = s1  s2 = s2  c1 = c1  c2 = c2
    Rows = {a, b}
    Roots = {a, b}
    Traits = {}
    Spools = {}
    Clients = {c1, c2}
    C1Kinds = {"adopt", "trash"}
    C2Kinds = {"adopt", "trash"}
    Plays <- Alike
    None = None
    NoDoc = NoDoc
    MaxFails = 0
SYMMETRY Symmetry
INVARIANTS
    TrashHasNoVariants
