\* Two callers, a worker in process and one on a host of its own; restarts of both.
SPECIFICATION Spec
CONSTANTS
    c1 = c1 c2 = c2 p1 = p1 p2 = p2 i1 = i1 i2 = i2 k1 = k1 k2 = k2
    Callers = {c1, c2}
    Procs = {p1, p2}
    Ids = {i1, i2}
    Caps = {k1, k2}
    IdOf <- IdEach
    Build <- BuildMixed
    InProcess = {p1}
    MaxCalls = 2
    MaxStarts = 2
    MaxBoots = 2
    NoTask = NoTask NoId = NoId NoCap = NoCap
CONSTRAINT FewCalls
SYMMETRY CallerSymmetry
INVARIANTS
    HandledOnce
    HandledByOne
    RowsTruthful
    ReturnsAreRecorded
    RoundRobinFair
\* The bounds on calls and starts end every behaviour.
CHECK_DEADLOCK FALSE
