SPECIFICATION FairSpec
CONSTANTS
    Announcements = {a1, a2}
    Malformed = {a2}
    FirstBlock = 1
    BatchBlocks = 2
    Delay = 1
    MaxGap = 1
    MaxReorg = 1
    MaxLag = 1
    FinalityDepth = 1
    MaxBlock = 4
    MaxFailures = 1
    MaxCrashes = 1
    MaxSignals = 1
INVARIANTS
    CursorIsComplete
PROPERTIES
    CursorAdvances
    AnnouncementsGetStored
CHECK_DEADLOCK FALSE
