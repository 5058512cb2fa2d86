CONSTANTS
    MaxChunkSize = 3
    MinChunkSize = 1
    AnyAtom <- MCAtoms
    Calls <- MCCalls
SPECIFICATION ReplaceSpec
INVARIANTS
    ResultInOrder
    SplicedIn
CHECK_DEADLOCK FALSE
