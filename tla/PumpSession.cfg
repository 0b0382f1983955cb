SPECIFICATION FairSpec
CONSTANTS
    Sessions = {i1, i2}
    i1 = i1
    i2 = i2
    None = None
    Scripts <- OneOrTwo
    Stalled = {i2}
    AnswerSize = 3
    Chunk = 2
    HighWater = 2
    PipeCap = 2
    SockCap = 2
    Mortal = {i1}
CHECK_DEADLOCK FALSE
INVARIANTS
    TypeOK
    InOrder
    Drained
PROPERTIES
    EverySessionEnds
