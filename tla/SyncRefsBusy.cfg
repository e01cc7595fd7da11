\* Writes at any moment and any failure.
SPECIFICATION Spec
CONSTANTS
    bin1 = bin1  bin2 = bin2  red = red  blue = blue  base = base
    Locs = {bin1}
    Fils = {red,base}
    None = None
    Plays <- Plain
    MaxTime = 3
    MaxFaults = 1
INVARIANTS
    RefsResolve
