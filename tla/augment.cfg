CONSTANTS
    PageSize = 2
    MaxAddr = 19
    libc = libc
    link_map = link_map
    dynamic = dynamic
    too_wide = too_wide
    NoFile = NoFile
    NoSource = NoSource
    Absent = Absent
    ReadWrite = "rw"
    Files <- MCFiles
    Sources <- MCSources
    Permissions <- MCPermissions
    Imports <- MCImports
    Captures <- MCCaptures
    Dumps <- LiveDumps
    LinkMapAddr = 2
    EntrySize = 2
    StackOf <- StackSource
    LinkMapBlob = link_map
    DynamicBlob = dynamic
    TooWide = too_wide
SPECIFICATION AugmentSpec
CHECK_DEADLOCK FALSE
INVARIANTS
    AugmentTypeOK
    StacksInjected
    DebuggerFindsLinkMap
PROPERTIES
    UsesTableAsLive
