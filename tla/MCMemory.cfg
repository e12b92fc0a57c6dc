SPECIFICATION FairSpec
CONSTANTS
    BatchSize = 2
    Retention = 1
    Days = {1}
    MaxRows = 3
    MaxTime = 2
    MaxFaults = 1
INVARIANTS
    CursorCovers
    AskedAgainOnlyIfCut
    RecallsOwnText
PROPERTY ReplyIsIndexed
CHECK_DEADLOCK FALSE
