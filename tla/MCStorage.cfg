SPECIFICATION StorageSpec
CONSTANTS
    Keys = {1, 2, 3, 5}
    Vals = {v1, v2}
    NumBuckets = 2
    Nodes = {n1, n2}
    NULL = NULL
    N = 4
    Junk <- MCJunk
SYMMETRY Symm
INVARIANTS
    ChainsExact
    VisitsExactly
    FreeListExact
    CarveInPool
PROPERTIES
    TableIsMap
    AllocatorPromise
CHECK_DEADLOCK FALSE
