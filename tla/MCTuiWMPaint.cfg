CONSTANTS
    TUI_WIDTH = 6
    TUI_HEIGHT = 4
    AboutW = 3
    AboutH = 2
    ClockW = 2
    ClockH = 2
    MAX_WINDOWS = 4
    ZMod = 256
    Cells <- OneSpot
    Keys = {}
    MaxEvents = 250
    MaxCreated = 5
SPECIFICATION WmFairSpec
PROPERTY CompositeEnds
