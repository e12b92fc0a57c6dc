SPECIFICATION FairSpec
CONSTANTS
    AllSettings <- SomeSettings
    MaxFaults = 1
INVARIANTS
    UsesOnlyRunning
    AllOrNothing
PROPERTY StopEnds
\* A process that is down, or was never up, does nothing.
CHECK_DEADLOCK FALSE
