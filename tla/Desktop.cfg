SPECIFICATION FairSpec
CONSTANTS
    s1 = s1
    s2 = s2
    d1 = d1
    d2 = d2
    p1 = p1
    p2 = p2
    p3 = p3
    p4 = p4
    v1 = v1
    v2 = v2
    v3 = v3
    None = None
    Saves <- MCSaves
    Dbs <- MCDbs
    Procs <- MCProcs
    Services <- MCServices
    MaxRestarts = 2
    MaxBudget = 3
    Plays <- Lawful
INVARIANTS
    Inv
PROPERTIES
    Handover
    HandlersEnd
CHECK_DEADLOCK FALSE
