SPECIFICATION FairSpec
CONSTANTS
    any = any
    Any = any
    NoRow = norow
    Triggers <- TwoTriggers
    Events <- HomeEvents
    Day = 4
    MaxTime = 3
    MaxEvents = 4
    MaxInbox = 2
    MaxFailures = 1
INVARIANTS
    SuppressionsAccounted
    StreamRowsInOrder
    FiresInTheWindow
PROPERTIES
    CooldownKept
    KeepsListening
CHECK_DEADLOCK FALSE
