CONSTANTS
    KeyBuf = 2
    KeyQueue = 2
    LineMax = 3
    Counts = {1, 2, 4}
SPECIFICATION Spec
INVARIANT HookParked
