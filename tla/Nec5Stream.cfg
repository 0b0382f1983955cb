SPECIFICATION FairStream
CONSTANT Inputs <- Texts
INVARIANTS
    PrintsAsFile
    AnsweredBeforeReading
PROPERTIES
    EveryStreamEnds
