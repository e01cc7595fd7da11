\* Writes between cycles only; collections fail, cycles are aborted or die; databases
\* of this version, and ones last synced before GH #116.
SPECIFICATION QuietSpec
CONSTANTS
    bin1 = bin1  bin2 = bin2  red = red  blue = blue  base = base
    Locs = {bin1,bin2}
    Fils = {red,base}
    None = None
    Plays <- Both
    MaxTime = 3
    MaxFaults = 2
INVARIANTS
    TypeOK
    RefsResolve
    LinksKept
PROPERTIES
    LinksHeal
