CONSTANTS
    k1 = k1
    k2 = k2
    Keys <- MCKeys
    Width = 5
    MemSize = 20
    Ptrs <- MCPtrs
    Lens <- MCLens
    Ttls <- MCTtls
    PayloadLens <- SmallPayloads
    RowCounts <- MCRowCounts
    BackendFaults = FALSE

SPECIFICATION Spec

INVARIANT SetExAsSet
