SPECIFICATION DashboardSpec
CONSTANTS
    a1 = a1 a2 = a2 t1 = t1 t2 = t2 w1 = w1 w2 = w2
    Addresses = {a1, a2}
    MaxFailures = 2
    Window = 3
    Second = 2
    MaxTime = 6
    Never = never
    Tabs = {t1, t2}
    AddressOf <- Home
    Writers = {w1, w2}
    Prompts = {long, short}
    NoPrompt = noprompt
    HistoryLimit = 2
    QueueSize = 1
    Crowds <- SomeCrowds
    MaxRows = 3
INVARIANTS
    LoginThrottled
    PageAccounts
    PromptTold
\* A crowd without a tab may find the log full.
CHECK_DEADLOCK FALSE
