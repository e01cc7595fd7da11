\* A location created and used while a cycle is under way.
SPECIFICATION BusySpec
CONSTANTS
    bin1 = bin1  bin2 = bin2  red = red  blue = blue  base = base
    Locs = {bin1}
    Fils = {red}
    None = None
    Plays <- Plain
    MaxTime = 2
    MaxFaults = 0
INVARIANTS
    OwnLocKept
