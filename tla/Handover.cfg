SPECIFICATION HandoverSpec
CONSTANTS
    p1 = p1
    p2 = p2
    a1 = a1
    n1 = n1
    n2 = n2
    Clients = {p1, p2}
    Accounts = {a1}
    AccountOf <- SameAccount
    Slots = {0, 1}
    Names = {n1, n2}
    MaxSlots = 2
    Capacity = 2
    RefillPerTick = 3
    StartChars <- OneChar
    MaxLogins = 3
    MaxRequests = 3
    MaxTicks = 1
    MaxFaults = 1
INVARIANTS
    BurstBounded
    CharactersDistinct
    DeletedWasReserved
PROPERTY
    RequestsEnd
CHECK_DEADLOCK FALSE
