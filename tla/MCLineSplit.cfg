CONSTANTS
    MaxChunkSize = 3
    MinChunkSize = 1
    Leaves <- MCLeaves
SPECIFICATION Spec
INVARIANTS
    Tiling
    PiecesFit
    OnlyLongLinesCut
    PiecesFull
CHECK_DEADLOCK FALSE
