SPECIFICATION FairSpec
CONSTANTS
    STREAMS = 3
    FIELDS = 3
    MAX_PORT = 2
    WORDS = 8
    MAX_CHANGES = 2
INVARIANT
    StableIsShown
PROPERTY
    PrintingEnds
CHECK_DEADLOCK FALSE
