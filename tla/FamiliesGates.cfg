\* Opposing adoptions, some of which promote their parent, while rows and spools
\* come and go; and a bulk import that revives rows while the app fills the trash.
SPECIFICATION Spec
CONSTANTS
    a = a  b = b  e = e  s1 = s1  s2 = s2  c1 = c1  c2 = c2
    Rows = {a, b, e}
    Roots = {a, b}
    Traits = {"color", "alarm"}
    Spools = {s1}
    Clients = {c1, c2}
    C1Kinds = {}
    C2Kinds = {}
    Plays <- Gates
    None = None
    NoDoc = NoDoc
    MaxFails = 1
SYMMETRY RowSymmetry
INVARIANTS
    TypeOK
    NoNesting
    PurgedStaysDead
    NoCircularWait
PROPERTIES
    FirstVariantFindsNoSpools
