SPECIFICATION FairSpec
CONSTANTS
    PARTS <- MCParts
    POLLS <- MCPolls
    MAX_RUNS <- MCRuns
INVARIANTS
    SavedIsTrue
PROPERTY
    RunsEnd
\* The tool has been used MAX_RUNS times and the 8051 has nothing to do.
CHECK_DEADLOCK FALSE
