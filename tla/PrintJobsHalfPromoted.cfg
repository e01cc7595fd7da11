\* A job debits a filament whose promotion was cut short.
SPECIFICATION Spec
CONSTANTS
    p = p  q = q  v = v  s1 = s1  s2 = s2  s3 = s3  j1 = j1  j2 = j2  c1 = c1  c2 = c2
    Fils = {p, q, v}
    Spools = {s1, s2, s3}
    Jobs = {j1, j2}
    Clients = {c1, c2}
    Usages <- OneOrBoth
    C1Kinds = {"job", "delete"}
    C2Kinds = {"job", "promote"}
    Kinds <- PerClient
    Short = {"log"}
    Faulty = {"promote"}
    Stock <- UsedAndLegacy
    Past <- OneJob
    None = None
    NoFil = NoFil
    MaxLedger = 4
    MaxLogs = 2
    MaxFails = 1
INVARIANTS
    RecordedIsCharged
CHECK_DEADLOCK FALSE
