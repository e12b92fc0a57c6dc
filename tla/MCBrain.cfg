\* A decision with two tool uses per response, or a device request, under four policies and fairness.
SPECIFICATION FairBrainSpec
CONSTANTS
    c1 = c1 c2 = c2 p1 = p1 p2 = p2 i1 = i1 i2 = i2 k1 = k1 k2 = k2
    calc = calc recall = recall
    light = light lamp = lamp door = door news = news wiki = wiki
    Callers = {c1}
    Procs = {p2}
    Ids = {i1, i2}
    Caps = {k1, k2}
    IdOf <- IdEach
    Build <- BuildOf
    InProcess = {p2}
    MaxCalls = 2
    MaxStarts = 1
    MaxBoots = 1
    NoTask = NoTask NoId = NoId NoCap = NoCap NoUse = NoUse NoRow = NoRow
    Recall = {recall}
    CallService = CallService
    Unknown = Unknown
    CapOf <- ToolCaps
    Services = {light}
    Entities = {lamp, door}
    ToolNames = {calc}
    Domains = {news, wiki}
    NotAString = NotAString
    Absent = Absent
    BadInput = BadInput
    ServiceInputs <- TwoServices
    ToolInputs = {news, wiki}
    Wirings <- Every
    MaxIterations = 2
    MaxUses = 2
INVARIANTS
    OnlyGranted
    TrailTruthful
    ToldIsAudited
    LoopCap
PROPERTIES
    DecisionEnds
    InProcessOnline
CHECK_DEADLOCK FALSE
