CONSTANTS
    PageSize = 64
    MaxAddr = 1023
    Max32 = 400
    MaxPhnum = 4
    Inputs <- MCInputs
SPECIFICATION Spec
CHECK_DEADLOCK FALSE
INVARIANTS
    TypeOK
    PartsWhereAnnounced
    EmptyPastEnd
    PageCongruent
    PartsApart
    PhnumTrue
