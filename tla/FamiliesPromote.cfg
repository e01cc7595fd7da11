\* A first variant, its promotion, and everything that may race or interrupt it.
SPECIFICATION Spec
CONSTANTS
    a = a  b = b  e = e  s1 = s1  s2 = s2  c1 = c1  c2 = c2
    Rows = {a, b, e}
    Roots = {a}
    Traits = {"color"}
    Spools = {s1}
    Clients = {c1, c2}
    C1Kinds = {"create", "promote", "trash", "restore", "addSpool", "paint"}
    C2Kinds = {"create", "promote", "trash", "restore", "addSpool", "paint"}
    Plays <- Alike
    None = None
    NoDoc = NoDoc
    MaxFails = 1
SYMMETRY Symmetry
INVARIANTS
    InventoryKept
    TemplatesHoldNoSpools
    TrashHasNoVariants
PROPERTIES
    GivenUpToTheCopy
