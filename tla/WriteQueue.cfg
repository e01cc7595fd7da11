\* Four edits of two spools, with losses, a kill and a move to another server
SPECIFICATION FairSpec
CONSTANTS
    w1 = w1  w2 = w2  w3 = w3  u = u  p = p  q = q  s = s  t = t
    Writes = {w1, w2, w3, u}
    Usage = {u}
    Spools = {p, q}
    SpoolOf <- SpoolOfEdit
    Servers = {s, t}
    Flusher = Flusher
    Other = Other
    None = None
    MaxQueue = 2
    Plays <- Lawful
    MaxFaults = 2
INVARIANTS
    Inv
PROPERTIES
    EditsKept
    AppliedInOrder
    QueueDrains
CHECK_DEADLOCK FALSE
