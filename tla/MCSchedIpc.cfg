SPECIFICATION MCSpec
CONSTANTS
    MAX_PROCS = 4
    TIME_SLICE = 10
    NBackground = 4
    MaxLaunches = 2
    SIZE = 4
    Event = {e1, e2}
    NoEvent = NoEvent
    MAX_MESSAGES = 3
    Text = {"x", "y"}
    MaxPolls = 2
    FS_MESSAGES = 2
    MOVE_STR = 3
    Moves <- MCMoves
    MaxSends = 4
INVARIANTS
    SchedSafe
    IpcSafe
PROPERTIES
    ImplementsRoundRobin
    EveryProcessRuns
    ImplementsQueue
    EveryEventHandled
    ImplementsMailbox
    PoolRecovers
    FsImplementsMailbox
