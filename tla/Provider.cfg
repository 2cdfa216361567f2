\* Jobs of three providers that share the catalog staging table, any fault.
CONSTANTS
    pFull = pFull
    pFree = pFree
    pReg = pReg
    k1 = k1
    k2 = k2
    NoKey = NoKey
    NoSlice = NoSlice
    Providers = {pFull, pFree, pReg}
    Shape <- MCShape
    Slices <- MCSlices
    RawSlices <- MCRawSlices
    Fetches <- MCFetches
    BatchSize = 1
    FaultKinds = {"adapter", "db", "abort", "crash"}
    MaxFaults = 1
    MaxJobs = 2
SPECIFICATION Spec
INVARIANTS RawBacksCatalog CutoverAdmissible OkMeansFresh
PROPERTIES NeverEmptied ImplementsStore SplitFlagReported
CHECK_DEADLOCK FALSE
