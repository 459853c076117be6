\* Documents of up to four pages for a limit of three; a page is blank, short,
\* or just long enough to pass the scan threshold alone.
CONSTANTS
    PageLengths = {0, 40, 100}
    MaxDocPages = 4
    MaxPages = 3
    MaxChars = 200
    Threshold = 100
    MaxAttempts = 3
    None = None
SPECIFICATION Spec
INVARIANTS
    TypeOK
    NothingPartialIsSent
    CallsAreRationed
PROPERTY ExtractionEnds
