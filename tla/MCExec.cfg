CONSTANTS
    PAGE = 2
    TABLE = 4
    USER_VADDR_MAX = 24
    USER_STACK_TOP = 20
    USER_STACK_PAGES = 1
    PMM_BASE = 8
    PMM_LIMIT = 22
    AddrSpace = 32
    CHUNK = 2
    NAMEMAX = 4
    Programs <- MCPrograms
    MaxPages = 4
    MaxRuns = 2
    PmmInitCalled = FALSE
SPECIFICATION ExecSpec
INVARIANT RefusedOnlyWhenExhausted
