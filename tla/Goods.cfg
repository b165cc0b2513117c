SPECIFICATION Spec
CONSTANTS
    c1 = c1
    c2 = c2
    herb = herb
    sword = sword
    Chars = {c1, c2}
    Names = {herb, sword}
    Usable = {herb}
    Gear = {sword}
    Workers = {w1, w2}
    Amounts = {1, 2}
    Price = 2
    SellPrice = 1
    StartRows <- Bag
    StartZeny <- Purse
    Half = 4
    MaxStorage = 1
    MaxRequests = 3
    MaxFaults = 1
SYMMETRY Symmetry
INVARIANTS
    UnitsAccounted
    StorageBounded
    OneWorn
CHECK_DEADLOCK FALSE
