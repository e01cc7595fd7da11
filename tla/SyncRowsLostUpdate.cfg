\* One desktop, an edit falling between a pass's read and its write.
SPECIFICATION Spec
CONSTANTS
    r1 = r1  r2 = r2  s1 = s1  s2 = s2  l1 = l1  l2 = l2
    Rows = {r1}
    Services = {s1}
    Locals = {l1}
    Remote = Remote
    LocalOf <- OneLocal
    Fields = {f}
    NoDoc = NoDoc
    Quiet = FALSE
    MaxTime = 3
    MaxReqs = 0
    MaxFails = 0
INVARIANTS
    LatestWriteSurvives
