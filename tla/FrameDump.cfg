SPECIFICATION DumpSpec
CONSTANTS
    SIZES = 32
    Files <- MCFiles
    Nodes <- MCNodes
    \* The longest run of MCFiles has three bytes, and one more at the end.
    RunSize = 4
    BitOr <- MCBitOr
    RamAddr <- MCRamAddr
    ParamIds <- MCIds
    FlagIds <- MCIds
INVARIANTS
    FirstWordsAreShown
    ExramIsReplayed
    SettingsAreReplayed
    PacketsAreShown
    EndIsMarkedOnce
PROPERTY
    LinesAreTrue
\* The decoder stops at the end of the file.
CHECK_DEADLOCK FALSE
