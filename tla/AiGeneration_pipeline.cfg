SPECIFICATION Spec
CONSTANTS
    MaxLines = 3
    Width <- LineWidth
    Texts <- AllTexts
    Timeouts <- SomeTimeouts
    Retries <- SomeRetries
    None = None
INVARIANTS
    IInv
    GatesComeFirst
    MixedIsLongestRun
    FirstUsableFenceWins
    NothingUsableIsLost
    ErrorNamesTheFailure
    ExtractionIsTold
PROPERTIES
    EveryRequestEnds
