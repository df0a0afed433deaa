SPECIFICATION FairSpec
CONSTANTS
    SIZES = 4
    TRIES = 2
    CAPACITY = 2
    MAX_ATTEMPTS = 3
    Commands <- MCCommands
INVARIANTS
    StreamIsPrefixes
    ResultsAreTrue
    UnbrokenRunIsUnderstood
PROPERTIES
    PromptReturns
    SentIsPutTogether
CHECK_DEADLOCK FALSE
