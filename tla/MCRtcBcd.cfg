SPECIFICATION RtcSpec
CONSTANTS
    SECS = 60
    MINS = 2
    Modes <- MCModes
    HeldUp = FALSE
    MaxReads = 1
INVARIANT ReadsWallClock
