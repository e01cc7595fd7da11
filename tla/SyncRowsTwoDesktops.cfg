\* Two desktops sharing the remote database, writes at any moment.
SPECIFICATION FairSpec
CONSTANTS
    r1 = r1  r2 = r2  s1 = s1  s2 = s2  l1 = l1  l2 = l2
    Rows = {r1}
    Services = {s1,s2}
    Locals = {l1,l2}
    Remote = Remote
    LocalOf <- TwoDesktops
    Fields = {f}
    NoDoc = NoDoc
    Quiet = FALSE
    MaxTime = 3
    MaxReqs = 0
    MaxFails = 0
INVARIANTS
    TypeOK
    SameStampSameBody
    UndisturbedRowsAgree
PROPERTIES
    Converges
