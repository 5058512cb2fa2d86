SPECIFICATION Spec
CONSTANTS
    Documents <- MCDocuments
    Block <- MCBlock
    Wide = 256
INVARIANTS MatchesOpenBlocks MatchesAsForeseen
PROPERTIES BlocksSpec BeginsAsForeseen Finishes
CHECK_DEADLOCK FALSE
