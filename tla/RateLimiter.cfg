\* Three clients for a table of two, two uploads per window of two seconds in
\* half-second ticks, two windows of time.
CONSTANTS
    a = a
    b = b
    c = c
    Keys = {a, b, c}
    None = None
    MaxEvents = 2
    Window = 4
    Unit = 2
    MaxKeys = 2
    MaxNow = 8
SPECIFICATION Spec
SYMMETRY KeySymmetry
INVARIANTS
    TypeOK
    QuotaPerWindow
    RetryAfterIsEnough
    MemoryBounded
    RefusedForACause
    DequesEndTheHistory
