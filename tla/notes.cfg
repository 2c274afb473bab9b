SPECIFICATION Spec
CONSTANTS
    Processes <- MCProcesses
    Tids <- MCTids
    Signals <- MCSignals
    Max32 = 100
    MaxI16 = 32
    NoTid = NoTid
    NoContext = NoContext
INVARIANTS
    TypeOK
    RegistersBelong
    NotesReached
    EachThreadOnce
    CrashOnItsThread
CHECK_DEADLOCK FALSE
