CONSTANTS
    MaxLines = 6
    MaxBlocks = 2
    MaxNoise = 0
    Parallel = TRUE
SPECIFICATION Spec
INVARIANT ContextIsWhole
CHECK_DEADLOCK FALSE
