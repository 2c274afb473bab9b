CONSTANTS
    PageSize = 2
    MaxAddr = 21
    libc = libc
    link_map = link_map
    dynamic = dynamic
    too_wide = too_wide
    NoFile = NoFile
    NoSource = NoSource
    Absent = Absent
    ReadWrite = "rw"
    Files <- MCFiles
    Sources <- MCSources
    Permissions <- MCPermissions
    Imports <- MCImports
    Captures <- MCCaptures
    Dumps <- MCDumps
    LinkMapAddr = 2
    EntrySize = 2
    StackOf <- StackSource
    LinkMapBlob = link_map
    DynamicBlob = dynamic
    TooWide = too_wide
    NoteLens = {3, 160}
    Max32 = 350
    MaxPhnum = 5
    BufSize = 100
SPECIFICATION ConvertSpec
CHECK_DEADLOCK FALSE
INVARIANTS
    ConvertTypeOK
    CapturedBytesInCore
    ExitTellsOutput
PROPERTIES
    Exits
