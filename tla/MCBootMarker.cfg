CONSTANTS
    Names = {"_SELFTST.TXT", "_TSTDIR", "WRTEST.TMP", "_WTEST.TXT"}
    Text = {"hello", "wr", "persistent"}
    NSlots = 4
    MaxCluster = 7
    MaxSize = 2
    MaxCalls = 40
    MaxFaults = 1
    ReuseStaleSlot = TRUE
    MaxBoots = 3
SPECIFICATION TestsSpec
PROPERTY MarkerSurvives
