\* Names exchanged, edited, trashed, shared with a second desktop, with deaths and failures
SPECIFICATION FairSpec
CONSTANTS
    ra = ra  rb = rb  rc = rc  nx = nx  ny = ny  nz = nz  s1 = s1  s2 = s2
    lap = lap  desk = desk  cloud = cloud
    Rows = {ra, rb, rc}
    Names = {nx, ny, nz}
    Locals = {lap, desk}
    Remote = cloud
    Services = {s1, s2}
    LocalOf <- Homes
    NoDoc = NoDoc
    None = None
    Nonces = {1, 2, 3, 4}
    Dates = {1, 2, 3, 4}
    Plays <- NamePlays
    MaxTime = 5
    MaxCrashes = 1
INVARIANTS
    Inv
    OriginalKept
PROPERTIES
    PlaceholdersStay
    SuccessMeansAgreement
    RenamesSettle
