\* One request or two, tags swapped between and during their connections, an exchange
\* that fails; readers that come and go.
SPECIFICATION Spec
CONSTANTS
    r1 = r1  r2 = r2  t1 = t1  t2 = t2  t3 = t3  t4 = t4  t5 = t5  t6 = t6
    po = po  pn = pn  pc = pc  px = px  c1 = c1  c2 = c2
    Readers = {r1, r2}
    Tags = {t1, t2, t3, t4, t5, t6}
    Payloads = {po, pn, pc, px}
    Calls = {c1, c2}
    Chip <- Kind
    Start <- AtFirst
    Standard <- Kept
    Len1 <- Long
    Plays <- Lawful
    None = None
    Zero = Zero
    Torn = Torn
    MaxMoves = 3
    MaxFails = 1
INVARIANTS
    Inv
PROPERTIES
    TagsRespected
    SuccessIsTrue
CHECK_DEADLOCK FALSE
