CONSTANTS
    PageSize = 2
    MaxAddr = 11
    libc = libc
    stack = stack
    dso = dso
    NoFile = NoFile
    NoSource = NoSource
    Absent = Absent
    ReadWrite = "rw"
    Files <- MCFiles
    Sources <- MCSources
    Permissions <- MCPermissions
    Imports <- LibraryImports
    Captures <- LibraryCaptures
SPECIFICATION LibrarySpec
CHECK_DEADLOCK FALSE
INVARIANTS
    TypeOK
    DataOnPages
    InvertedOffPage
