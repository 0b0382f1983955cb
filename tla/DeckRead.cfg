CONSTANTS
    Cards <- MCCards
    MaxCards = 6
SPECIFICATION Spec
CHECK_DEADLOCK FALSE
INVARIANTS
    AnswersAsNec
    LoadsInForce
    SameDrive
