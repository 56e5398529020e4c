SPECIFICATION Spec
CONSTANTS
    c1 = c1
    c2 = c2
    Calls <- MCCalls
    ChunkBytes = 2
    MaxLength = 4
    MaxDrops = 1
CHECK_DEADLOCK FALSE
INVARIANT JobsContiguous
