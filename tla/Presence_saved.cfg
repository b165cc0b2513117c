SPECIFICATION Spec
CONSTANTS
    Chars = {c1}
    Conns = {k1, k2}
    Slots = {s1}
    Maps = {prontera, geffen}
    Cells = {x2}
    OffMap = {}
    SaveMap = geffen
    SaveCell = x2
    Full = 1
    Absent = Absent
    MaxEnters = 2
    MaxRestarts = 1
    MaxEvents = 1
    MaxFaults = 1
    MaxTicks = 1
    MaxCrashes = 1
    MaxIncidents = 2
SYMMETRY Symmetry
INVARIANT
    SessionSaved
PROPERTY
    ResumesWhereLeft
CHECK_DEADLOCK FALSE
