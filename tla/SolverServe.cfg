\* Sessions of up to 4 decks, in each mode, under a cap of a few fills.
CONSTANTS
    Decks <- ServedDecks
    Model <- ServedModel
    Undriven <- MCUndriven
    Unbuildable <- MCUnbuildable
    Singular <- MCSingular
    Unlisted <- MCUnlisted
    Cap = 4
    MaxDecks = 4
SPECIFICATION Spec
INVARIANTS
    AnswersAsFresh
    RenderedIsResident
    FileAtBoundary
    StatsTell
PROPERTIES
    EveryDeckFramed
