CONSTANTS
    Base = 64
    Max32 = 256
    Inputs <- MCInputs
SPECIFICATION Spec
CHECK_DEADLOCK FALSE
INVARIANTS
    TypeOK
    WalkForward
    WalkBackward
    RecordsLaidOut
