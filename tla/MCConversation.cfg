\* Two turns with up to two tool uses, then the answer.
SPECIFICATION Spec
CONSTANTS
    m1 = m1 m2 = m2
    Configs <- Settings
    Chats <- Posts
    Overrides = {NoModel}
    MaxIterations = 3
    RawCalls <- Servers
    MaxUses = 2
    NoModel = NoModel NoText = NoText NoRequest = NoRequest
INVARIANTS
    CallsAnswered
    NothingLost
\* A decision ends.
CHECK_DEADLOCK FALSE
