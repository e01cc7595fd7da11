\* A restore saves what it read before a purge.
SPECIFICATION Spec
CONSTANTS
    a = a  b = b  e = e  s1 = s1  s2 = s2  c1 = c1  c2 = c2
    Rows = {a, b}
    Roots = {a}
    Traits = {}
    Spools = {}
    Clients = {c1, c2}
    C1Kinds = {"trash", "restore", "purge"}
    C2Kinds = {"trash", "restore", "purge"}
    Plays <- Alike
    None = None
    NoDoc = NoDoc
    MaxFails = 0
SYMMETRY Symmetry
INVARIANTS
    PurgedStaysDead
