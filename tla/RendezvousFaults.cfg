SPECIFICATION FairSpec
CONSTANTS
    Clients = {c1, c2}
    Servers = {s1, s2, s3}
    None = None
    SlowStarts = TRUE
    Signals = TRUE
    MaxKills = 1
    MaxCrashes = 1
INVARIANTS
    OneServer
    Findable
PROPERTIES
    KeptWhileOrderly
    FailsWithItsChild
    IdleExitKeepsAccepted
    EveryObtainEnds
