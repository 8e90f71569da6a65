SPECIFICATION Spec
CONSTANTS
    MaxLines = 3
    Width <- LineWidth
    Texts <- AllTexts
    Timeouts <- SomeTimeouts
    Retries <- SomeRetries
    None = None
INVARIANT CodeIsPlain
