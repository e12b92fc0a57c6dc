SPECIFICATION FairSpec
CONSTANTS
    Triggers <- FourTriggers
    MaxSleep = 1
    MaxTime = 3
    MaxFailures = 1
INVARIANTS
    RowsBracketed
    FiresFreshSlots
    SkippedOnlyWhileBusy
    AtMostOneAhead
PROPERTY DueIsServed
CHECK_DEADLOCK FALSE
