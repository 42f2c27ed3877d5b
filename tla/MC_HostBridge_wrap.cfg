CONSTANTS
    k1 = k1
    k2 = k2
    Keys <- MCKeys
    Width = 5
    MemSize = 20
    Ptrs <- WrapPtrs
    Lens <- MCLens
    Ttls <- MCTtls
    PayloadLens <- LargePayloads
    RowCounts <- MCRowCounts
    BackendFaults = TRUE

SPECIFICATION Spec

INVARIANT HostCallContract
