SPECIFICATION Spec
CONSTANTS
    Chars = {c1, c2}
    Conns = {k1, k2}
    Slots = {s1, s2}
    Maps = {geffen}
    Cells = {x2, off}
    OffMap = {off}
    SaveMap = geffen
    SaveCell = x2
    Full = 1
    Absent = Absent
    MaxEnters = 2
    MaxRestarts = 2
    MaxEvents = 0
    MaxFaults = 1
    MaxTicks = 0
    MaxCrashes = 1
    MaxIncidents = 1
INVARIANT
    NoGhost
PROPERTY
    DisconnectDespawns
CHECK_DEADLOCK FALSE
