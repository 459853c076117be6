SPECIFICATION FairSpec
CONSTANTS
    Uploads = {u1, u2}
    Edits = {e1}
    Docs = {d1, d2}
    None = None
    Retention = 1
    Ttl = 0
    StaleAge = 0
    MaxSlots = 1
    MaxClock = 0
    MaxFaults = 1
CHECK_DEADLOCK FALSE
INVARIANTS
    IndInv
PROPERTIES
    UploadsEnd
