SPECIFICATION IndexSpec
CONSTANTS
    Ids = {e1, e2}
    Maps = {prontera, geffen}
    Cells = {x1, edge}
    OffMap = {edge}
    Seeded = {prontera}
    Absent = Absent
    Workers = {w1, w2}
    MaxCalls = 3
SYMMETRY Symmetry
INVARIANT
    GridsAgree
CHECK_DEADLOCK FALSE
