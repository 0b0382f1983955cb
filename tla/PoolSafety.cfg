SPECIFICATION Spec
CONSTANTS
    Frames = {f1, f2, f3}
    Procs = {p1, p2, p3}
    None = None
    MaxWorkers = 2
    Cores = 4
    Default = 8
    MaxFaults = 1
SYMMETRY Symmetry
INVARIANTS
    Accounted
    CapRespected
    AnswerIsOwn
    ThreadsBounded
PROPERTIES
    ServiceSpec
