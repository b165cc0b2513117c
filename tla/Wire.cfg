SPECIFICATION WireSpec
CONSTANTS
    MaxSent = 2
    TextLengths = {0, 12}
    ShortSizes = {4, 30, 62, 65}
INVARIANTS
    Aligned
    ParsersAgree
    AcceptedIsServed
    WrittenFits
PROPERTY
    EveryPacketTaken
CHECK_DEADLOCK FALSE
