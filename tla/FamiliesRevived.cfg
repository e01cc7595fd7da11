\* A half-done promotion, its copy trashed, a spool added, the family revived by an import.
SPECIFICATION Spec
CONSTANTS
    a = a  b = b  e = e  s1 = s1  s2 = s2  c1 = c1  c2 = c2
    Rows = {a, b, e}
    Roots = {a, b}
    Traits = {"color", "alarm"}
    Spools = {s1}
    Clients = {c1, c2}
    C1Kinds = {}
    C2Kinds = {}
    Plays <- Revivals
    None = None
    NoDoc = NoDoc
    MaxFails = 1
SYMMETRY RowSymmetry
INVARIANTS
    InventoryKept
