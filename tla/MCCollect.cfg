CONSTANTS
    MaxChunkSize = 3
    MinChunkSize = 1
    Languages <- MCLanguages
    TopLevel <- MCTopLevel
    Nested <- MCNested
    Trees <- MCCollectTrees
SPECIFICATION Spec
INVARIANTS
    SortedAtoms
    AtomsFitChunk
    ExactlyOutermost
    LeavesTiled
CHECK_DEADLOCK FALSE
