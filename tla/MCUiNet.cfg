CONSTANTS
    KeyBuf = 2
    KeyQueue = 1
    LineMax = 3
    Counts = {1, 2, 4}
    SCREEN_W = 12
    SCREEN_H = 5
    MousePackets <- MCPackets
    MaxPackets = 3
    MaxLost = 2
    TUI_WIDTH = 6
    TUI_HEIGHT = 4
    AboutW = 3
    AboutH = 2
    ClockW = 2
    ClockH = 2
    MAX_WINDOWS = 4
    ZMod = 256
    Cells <- MCCells
    Keys = {"F2", "F3", "esc", "altTab", "up", "down", "left", "right"}
    MaxEvents = 5
    MaxCreated = 5
    Chars = {"a", "b"}
    MAX_LINE = 3
    MAX_HISTORY = 2
    OUTPUT = 9
    SLACK = 1
    SHELL_W = 5
    SHELL_H = 5
    Texts <- MCTexts
    MaxKeys = 6
    W = 4
    H = 3
    Glyphs = {"a"}
    Windows <- MCWindows
    Cursors <- MCCursors
    MaxChars = 5
    U16 = 16
    NAME = 2
    EXT = 2
    FNAME = 5
    PATH = 5
    HOST = 4
    ENTRIES = 2
    Args <- MCArgs
    Downloads <- MCDownloads
    MaxCmds = 3
    InitSeq = 10
    SeqSpace = 64
    Isns = {1, 40}
    PeerBytes = 2
    Mss = 1
    RecvBuf = 2
    MaxRetries = 2
    SendLens = {1}
    RecvLens = {1}
    MaxCalls = 3
    MaxDepth = 1
    HeaderLens = {1, 2}
    Bodies <- MCBodies
    ChunkSize = 3
    HdrCap = 6
    Caps = {1, 3, 6}
    Hosts = {p, a, b}
    Peer_ = p
    Macs = {m, n}
    CacheSize = 2
    ArpRetries = 2
    MaxNest = 2
    MaxArrivals = 5
    Lens = {13, 33, 54, 58, 60}
    Totals = {19, 20, 40, 44, 46, 47}
    RingLen = 10
    Slack = 1
    FrameLens = {1, 4}
    MaxLen = 3
    NumDesc = 2
    MaxRx = 3
    MaxPolled = 3
    MaxTx = 3
SPECIFICATION MCSpec
INVARIANTS
    InputSafe
    MouseSafe
    WmSafe
    ShellSafe
    ScreenSafe
    CommandsSafe
    TcpSafe
    HttpSafe
    NetSafe
    RtlSafe
PROPERTIES
    ImplementsLru
    BlockingCallsReturn
