SPECIFICATION Spec
CONSTANTS
    Procs = {p1, p2}
    Keys = {k1, k2, k3}
    Nodes = {n1, n2}
    Base = {n1}
    None = None
    Cut = Cut
    Alien = Alien
    Limit = 2
    MaxCalls = 2
    MaxFaults = 1
    MaxDeaths = 1
SYMMETRY Symmetry
INVARIANTS
    NeverTorn
    ServedWhole
    StoresAll
    Budget
