CONSTANTS
    PageSize = 2
    MaxAddr = 11
    Max32 = 9
    Reservable = 2
    app = app
    tool = tool
    libc = libc
    missing = missing
    unreadable = unreadable
    malformed = malformed
    none = none
    NoFile = NoFile
    NoSource = NoSource
    Absent = Absent
    ReadWrite = "rw"
    ReadOnly = "r"
    Files <- MCFiles
    Sources = {}
    Permissions <- MCPermissions
    Imports = {}
    Captures = {}
    Minidumps <- MCMinidumps
    Names <- MCNames
    Tids = {1, 2, 3}
    Vector = vector
    Captured = captured_data
    Missing = missing
    Unreadable = unreadable
    Malformed = malformed
    None = none
SPECIFICATION IngestSpec
CHECK_DEADLOCK FALSE
INVARIANTS
    IngestTypeOK
    MapsPreferred
    CapturedAuxvKept
    NameOfExecutable
    LiveRegions
    OneDisplacement
    CutLinkMapRead
