CONSTANTS
    Procs <- MCProcs
    Keys <- MCKeys
    Earlier <- MCEarlier
    Near <- MCNear
    Far <- MCFar
    PerStep = 2
    Points = 2
    Trigger = 2
    Window = 2
    SeenMax = 2
    AnchorMax = 2
    MaxAsks = 3
    MaxFaults = 1
SPECIFICATION Spec
INVARIANTS
    SweepCounted
    AnchorsServe
PROPERTIES
    NeverShrinks
    EveryCallEnds
