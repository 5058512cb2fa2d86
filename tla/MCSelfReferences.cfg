CONSTANTS
    AnyEdge <- MCAnyEdge
    Calls <- MCWalks
SPECIFICATION ListSpec
INVARIANT SelfReferencesOmitted
CHECK_DEADLOCK FALSE
