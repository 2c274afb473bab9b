CONSTANTS
    PageSize = 2
    MaxAddr = 11
    libc = libc
    stack = stack
    dso = dso
    NoFile = NoFile
    NoSource = NoSource
    Absent = Absent
    ReadWrite = "rw"
    Files <- MCFiles
    Sources <- MCSources
    Permissions <- MCPermissions
    Imports <- LiveImports
    Captures <- LiveCaptures
SPECIFICATION Spec
CHECK_DEADLOCK FALSE
INVARIANTS
    DisjointMappings
    SegmentFits
    CapturesKept
    BackingKept
    FileNoteKept
    LiveDumpAccepted
PROPERTIES
    ImplementsMemoryImage
