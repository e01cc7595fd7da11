\* A cycle ended after it copied a variant and before it copied the parent.
SPECIFICATION QuietSpec
CONSTANTS
    bin1 = bin1  bin2 = bin2  red = red  blue = blue  base = base
    Locs = {}
    Fils = {red,base}
    None = None
    Plays <- Plain
    MaxTime = 3
    MaxFaults = 1
PROPERTIES
    ParentsSettle
