SPECIFICATION Spec
CONSTANTS
    Processes <- MCProcesses
    Tids <- MCTids
    Signals <- MCSignals
    Max32 = 100
    MaxI16 = 32
    NoTid = NoTid
    NoContext = NoContext
CHECK_DEADLOCK FALSE
INVARIANTS
    SignalNamesCrashingThread
