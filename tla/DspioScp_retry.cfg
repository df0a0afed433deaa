SPECIFICATION Spec
CONSTANTS
    SIZES = 4
    TRIES = 2
    CAPACITY = 2
    MAX_ATTEMPTS = 3
    Commands <- RetryCommands
INVARIANT
    AcceptedIsACommand
CHECK_DEADLOCK FALSE
