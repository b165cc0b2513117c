SPECIFICATION Spec
CONSTANTS
    c1 = c1
    c2 = c2
    herb = herb
    Chars = {c1, c2}
    Names = {herb}
    Workers = {w1, w2}
    Others = {o1}
    Weight <- Weights
    AttachPrice = 1
    MaxZeny = 63
    Half = 64
    MaxInbox = 1
    MaxItems = 2
    MaxWeight = 3
    Amounts = {1, 2}
    Sums = {0, 50}
    Moves = {51}
    StartRows <- Bag
    StartZeny <- Purse
    MaxRequests = 6
    MaxFaults = 1
SYMMETRY Symmetry
INVARIANTS
    ZenyConserved
    AttachmentsConserved
CHECK_DEADLOCK FALSE
