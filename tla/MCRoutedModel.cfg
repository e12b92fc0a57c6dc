\* A chat routed to a provider and model of its own.
SPECIFICATION Spec
CONSTANTS
    m1 = m1 m2 = m2
    Configs <- Settings
    Chats <- Posts
    Overrides = {NoModel, m2}
    MaxIterations = 3
    RawCalls <- Servers
    MaxUses = 1
    NoModel = NoModel NoText = NoText NoRequest = NoRequest
INVARIANTS
    RoutedModelUsed
\* A decision ends.
CHECK_DEADLOCK FALSE
