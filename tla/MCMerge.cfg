CONSTANTS
    MaxChunkSize = 5
    MinChunkSize = 3
    Languages = {"typescript", "vue"}
    AtomSeqs <- MCAtomSeqs
SPECIFICATION Spec
INVARIANTS
    ChunksWithinMax
    ChunksDisjoint
    EveryAtomInItsChunk
    HairlineOnlyWhenForced
PROPERTIES
    ImplementsGrouping
CHECK_DEADLOCK FALSE
