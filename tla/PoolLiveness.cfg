SPECIFICATION FairSpec
CONSTANTS
    Frames = {f1, f2}
    Procs = {p1, p2}
    None = None
    MaxWorkers = 2
    Cores = 4
    Default = 8
    MaxFaults = 2
PROPERTIES
    EveryCallEnds
    NoOrphans
