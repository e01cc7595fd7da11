\* Two desktops, no application write while a pass is under way, a pass dying; bodies alike.
SPECIFICATION FairSpec
CONSTANTS
    r1 = r1  r2 = r2  s1 = s1  s2 = s2  l1 = l1  l2 = l2
    Rows = {r1}
    Services = {s1,s2}
    Locals = {l1,l2}
    Remote = Remote
    LocalOf <- TwoDesktops
    Fields = {}
    NoDoc = NoDoc
    Quiet = TRUE
    MaxTime = 3
    MaxReqs = 1
    MaxFails = 1
PROPERTIES
    IsRegister
