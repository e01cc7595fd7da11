\* A variant detached while a cycle is under way.
SPECIFICATION BusySpec
CONSTANTS
    bin1 = bin1  bin2 = bin2  red = red  blue = blue  base = base
    Locs = {}
    Fils = {red,base}
    None = None
    Plays <- Plain
    MaxTime = 4
    MaxFaults = 0
INVARIANTS
    DetachKept
