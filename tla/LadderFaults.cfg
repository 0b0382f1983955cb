SPECIFICATION FairSpec
CONSTANTS
    Decks = {"plain", "gmo"}
INVARIANTS
    Answered
    GmoFirst
    LeftWhole
PROPERTIES
    AlwaysEnds
