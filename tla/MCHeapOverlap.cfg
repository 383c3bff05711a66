CONSTANTS
    Units = 80
    Header = 1
    Sizes = {1, 17}
    MaxLive = 3
    MaxOps = 7
    Lifo = FALSE
SPECIFICATION Spec
INVARIANT NoOverlap
