SPECIFICATION Spec
CONSTANTS
    PAGE = 4
    PAGES = 3
    PIECES = 2
    Zero = 0
    Datum <- MCDatum
    InitialMem <- MCInitialMem
    Asked <- MCAsked
INVARIANTS
    ReadsAreTrue
    WritesArePrefix
    DoneMeansAll
