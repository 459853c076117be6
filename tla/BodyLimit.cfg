\* Up to four pieces of one or two bytes for a limit of three bytes.
CONSTANTS
    MaxBytes = 3
    Chunks = {0, 1, 2}
    MaxChunks = 4
    None = None
SPECIFICATION Spec
INVARIANTS
    TypeOK
    OneAnswer
    OversizedIsRefused
    WithinTheLimitNothingIsLost
