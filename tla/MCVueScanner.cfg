CONSTANTS
    Length <- MCLength
    CutName <- MCCutName
    Documents <- MCDocuments
    BufferSize = 10
    NameMax = 3
    CountMax = 40
    Opens <- MCOpens
SPECIFICATION Spec
INVARIANTS
    StackInStep
    NestingLegal
    NoWastedClosing
    RawTextStops
PROPERTIES
    StableBelow
    Finishes
CHECK_DEADLOCK FALSE
