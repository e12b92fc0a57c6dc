\* What the decision record says of an LLM that is down.
SPECIFICATION FairSpec
CONSTANTS
    BatchSize = 2
    Retention = 1
    Days = {1}
    MaxRows = 3
    MaxTime = 2
    MaxFaults = 1
INVARIANT FailureIsRetried
\* Everything is written, indexed and swept in the end.
CHECK_DEADLOCK FALSE
