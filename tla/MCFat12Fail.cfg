CONSTANTS
    Names = {a, b}
    Text = {x, y}
    NSlots = 2
    MaxCluster = 5
    MaxSize = 2
    MaxCalls = 2
    MaxFaults = 1
    ReuseStaleSlot = FALSE
SPECIFICATION Spec
INVARIANT FailureLeavesDisk
