CONSTANTS
    MaxChunkSize = 3
    MinChunkSize = 1
    Leaves <- MCLeaves
SPECIFICATION Spec
INVARIANT
    StartLineIsTrue
CHECK_DEADLOCK FALSE
