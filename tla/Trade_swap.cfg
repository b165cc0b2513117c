SPECIFICATION Spec
CONSTANTS
    c1 = c1
    c2 = c2
    herb = herb
    Nobody = Nobody
    Chars = {c1, c2, c3}
    Names = {herb}
    Maps = {prontera}
    Others = {}
    Stakes = {1, 2}
    StartRows <- TwoStacks
    StartZeny <- TwoZeny
    Half = 4
    MaxOffers = 2
    MaxId = 3
    MaxFaults = 1
    MaxMoves = 0
INVARIANT
    SessionsPaired
PROPERTIES
    SwapIsAtomic
    MutexReleased
CHECK_DEADLOCK FALSE
