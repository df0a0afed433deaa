SPECIFICATION FairSpec
CONSTANTS
    IN_LEN = 7
    OUT_LEN = 4
    POLLS = 2
    Lines <- MCLines
    NL = "nl"
    NUL = "nul"
    CR = "cr"
    FirstIn <- MCFirstIn
    FirstOut <- MCFirstOut
    Echo <- MCEcho
    MaxAnswer = 2
    MAX_LINES = 1
INVARIANTS
    HeardIsSent
    PrintedIsSaid
CHECK_DEADLOCK FALSE
PROPERTY
    AnnouncedIsTaken
