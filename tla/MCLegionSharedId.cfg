\* One worker class on two hosts: worker_id is an attribute of the class.
SPECIFICATION Spec
CONSTANTS
    c1 = c1 c2 = c2 p1 = p1 p2 = p2 i1 = i1 i2 = i2 k1 = k1 k2 = k2
    Callers = {c1, c2}
    Procs = {p1, p2}
    Ids = {i1, i2}
    Caps = {k1, k2}
    IdOf <- IdShared
    Build <- BuildSame
    InProcess = {}
    MaxCalls = 2
    MaxStarts = 2
    MaxBoots = 2
    NoTask = NoTask NoId = NoId NoCap = NoCap
CONSTRAINT FewCalls
SYMMETRY CallerSymmetry
INVARIANT HandledByOne
\* The bounds on calls and starts end every behaviour.
CHECK_DEADLOCK FALSE
