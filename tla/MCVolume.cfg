CONSTANTS
    Names = {a, b}
    Text = {x, y}
    NSlots = 2
    MaxCluster = 5
    MaxSize = 2
    MaxCalls = 5
    MaxFaults = 1
    ReuseStaleSlot = FALSE
    MAX_FDS = 4
    MaxSyscalls = 6
    Words = {"p", "q"}
    Files_ = {"f", "g"}
    MAX_LINES = 3
    LINE_LEN = 4
    IOBUF_SZ = 10
    OnDisk <- MCOnDisk
    MaxCommands = 6
    PAGE = 2
    TABLE = 4
    USER_VADDR_MAX = 24
    USER_STACK_TOP = 20
    USER_STACK_PAGES = 1
    PMM_BASE = 8
    PMM_LIMIT = 22
    AddrSpace = 32
    CHUNK = 2
    NAMEMAX = 4
    Programs <- MCPrograms
    MaxPages = 4
    MaxRuns = 2
    PmmInitCalled = TRUE
    MaxProcs = 3
    Priorities = {1, 5}
    MaxSleep = 2
    MaxTicks = 4
SPECIFICATION MCSpec
SYMMETRY Symmetry
INVARIANTS
    VolumeSafe
    CrashSparesOthers
    FilesSafe
    NotepadSafe
    ExecSafe
    UserChecksExact
    HostedSafe
PROPERTIES
    PriorityRespected
