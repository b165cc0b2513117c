SPECIFICATION Spec
CONSTANTS
    Chars = {c1, c2}
    Callers = {w1, w2}
    Amounts = {0, 1, 2}
    Half = 3
    MaxRows = 2
SYMMETRY Symmetry
INVARIANTS
    Reconciled
    BalanceInRange
PROPERTY
    CapIsAbsorbing
CHECK_DEADLOCK FALSE
