SPECIFICATION FairSpec
CONSTANTS
    LOW_SIZE = 8
    HIGH_SIZE = 3
    d0 = d0
    d1 = d1
    Datum <- MCDatum
    Zero <- MCZero
    InitialMem <- MCInitialMem
    STATUS_TRIES = 2
    VERB_TRIES = 2
    PIECES = 2
    Jobs <- SafetyJobs
INVARIANTS
    TypeOK
    WritesArePrefix
    FreshReadsAreTrue
    UnfailedJobReadsAll
    UnfailedLoadWritesAll
PROPERTIES
    OnlyWritersWrite
    ImplementsMemory
    JobsEnd
