SPECIFICATION Spec
CONSTANTS
    c1 = c1
    c2 = c2
    herb = herb
    Nobody = Nobody
    Chars = {c1, c2}
    Names = {herb}
    Maps = {prontera}
    Others = {g1}
    Stakes = {1, 2}
    StartRows <- TwoStacks
    StartZeny <- TwoZeny
    Half = 8
    MaxOffers = 1
    MaxId = 3
    MaxFaults = 1
    MaxMoves = 2
INVARIANT
    ItemsNeverLost
CHECK_DEADLOCK FALSE
