\* Jobs of one and of both filaments, deletions, manual logs, weighings at rest and promotions, on
\* either kind of server; two calls fail, or the server dies.
SPECIFICATION Spec
CONSTANTS
    p = p  q = q  v = v  s1 = s1  s2 = s2  s3 = s3  j1 = j1  j2 = j2  c1 = c1  c2 = c2
    Fils = {p, q, v}
    Spools = {s1, s2, s3}
    Jobs = {j1, j2}
    Clients = {c1, c2}
    Usages <- OneOrBoth
    C1Kinds = {"job", "delete"}
    C2Kinds = {"job", "promote"}
    Kinds <- PerClient
    Short = {"log", "rest"}
    Faulty = {"job", "delete"}
    Stock <- UsedAndLegacy
    Past <- OneJob
    None = None
    NoFil = NoFil
    MaxLedger = 4
    MaxLogs = 1
    MaxFails = 2
INVARIANTS
    Inv
    RetryIsSafe
    RecordedIsCharged
    DeletedIsRefunded
CHECK_DEADLOCK FALSE
