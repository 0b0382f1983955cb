SPECIFICATION Spec
CONSTANTS
    Sessions = {i1}
    i1 = i1
    i2 = i2
    None = None
    Scripts <- ENScripts
    Stalled = {}
    AnswerSize = 3
    Chunk = 2
    HighWater = 2
    PipeCap = 2
    SockCap = 2
    Mortal = {}
INVARIANT Drained
