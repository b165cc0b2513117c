SPECIFICATION Spec
CONSTANTS
    Chars = {c1, c2, c3}
    Workers = {w1, w2}
    Budgets <- OnePartEach
    MaxSize = 2
    MaxFriends = 1
    MaxIgnore = 1
    Programs <- NpcScripts
    Talks <- Clicked
    Signals <- Replies
    Started <- VMStarted
    Resumed <- VMResumed
    Stored <- VMStored
SYMMETRY Symmetry
INVARIANTS
    MembershipConsistent
    CapsHold
    NobodyUninvited
    NothingStale
    WhisperFiltered
    RunsAsWritten
    DialogHeard
    AnsweredInTurn
CHECK_DEADLOCK FALSE
