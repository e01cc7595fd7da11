\* Requests that queue for two keys, under fair scheduling.
SPECIFICATION FairSpec
CONSTANTS
    a = a  b = b  e = e  s1 = s1  s2 = s2  c1 = c1  c2 = c2
    Rows = {a, b}
    Roots = {a, b}
    Traits = {}
    Spools = {}
    Clients = {c1, c2}
    C1Kinds = {"adopt", "detach", "trash", "restore"}
    C2Kinds = {"adopt", "detach", "trash", "restore"}
    Plays <- Alike
    None = None
    NoDoc = NoDoc
    MaxFails = 0
PROPERTIES
    EveryRequestAnswered
