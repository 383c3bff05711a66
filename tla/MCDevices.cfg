CONSTANTS
    BYTES_PER_SECTOR = 6
    SECTORS_PER_FAT = 3
    TOTAL_CLUSTERS = 7
    ROOT_ENTRIES = 4
    FAT_AT = 30
    RAM = 60
    PEs <- MCPEs
    ProgramLists <- MCProgramLists
    Names = {"_SELFTST.TXT", "_TSTDIR", "WRTEST.TMP", "_WTEST.TXT"}
    Text = {"hello", "wr", "persistent"}
    NSlots = 3
    MaxCluster = 5
    MaxSize = 2
    MaxCalls = 40
    MaxFaults = 2
    ReuseStaleSlot = TRUE
    MaxBoots = 2
    Lba = {0, 1, 2}
    LBA_SPACE = 8
    Seeks = {0, 2}
    Contents <- MCContents
    MaxSectors = 2
    SlowDrive = FALSE
    MaxAtaCalls = 3
    SECS = 2
    MINS = 2
    Modes <- MCModes
    HeldUp = FALSE
    MaxReads = 1
    BUSES = 2
    SLOTS = 2
    FUNCS = 3
    Machines <- MCMachines
    MaxRequests = 2
    Outputs <- MCOutputs
    PIPE = 2
    BUF = 2
    QUEUE = 3
    HostedUnits = 60
    HostedSizes = {1, 4, 17}
    HostedLive = 3
    HostedOps = 7
SPECIFICATION MCSpec
INVARIANTS
    BootSafe
    TestsSafe
    AtaSafe
    TimeIsConsistent
    PciSafe
    GuiSafe
    HostedHeapSafe
PROPERTIES
    NothingHangs
