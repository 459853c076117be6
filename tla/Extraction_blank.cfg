\* Documents of up to nine pages without any text.
CONSTANTS
    PageLengths = {0}
    MaxDocPages = 9
    MaxPages = 30
    MaxChars = 200
    Threshold = 100
    MaxAttempts = 3
    None = None
SPECIFICATION Spec
INVARIANT NoTextIsNeverSent
