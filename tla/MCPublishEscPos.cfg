SPECIFICATION FairSpec
CONSTANTS
    c1 = c1
    c2 = c2
    Calls <- MCCalls
    ChunkBytes = 2
    MaxLength = 5
    MaxDrops = 2
INVARIANTS TypeOK Reassembly ResolvedIsComplete OneMessageAwaited
PROPERTY EveryCallSettles
CHECK_DEADLOCK FALSE
