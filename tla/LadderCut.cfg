SPECIFICATION FairSpec
CONSTANTS
    Decks = {"gmo"}
INVARIANT NeverCut
