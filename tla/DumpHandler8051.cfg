SPECIFICATION HandlerFairSpec
CONSTANTS
    PMEM_BLOCKS = 1
    XRAM_BLOCKS = 2
    Pmem <- MCPmem
    LowXram <- MCLowXram
    InitialIram <- MCInitialIram
    InitialSfr <- MCInitialSfr
    Values <- MCValues
INVARIANTS
    SignalMeansDumped
    SavedIsStateAtRest
    RestoredAtReturn
PROPERTY
    HandlerReturns
