CONSTANTS
    AnyEdge <- MCAnyEdge
    Calls <- MCCalls
SPECIFICATION ListSpec
INVARIANTS
    SourceEncloses
    DocumentOrder
    UnreadUntouched
    NothingLost
    Reported
CHECK_DEADLOCK FALSE
