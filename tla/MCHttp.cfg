CONSTANTS
    HeaderLens = {1, 2}
    Bodies <- MCBodies
    ChunkSize = 3
    HdrCap = 6
    Caps = {1, 3, 6}
SPECIFICATION HttpSpec
INVARIANTS
    DownloadStoresBody
