SPECIFICATION Spec
CONSTANTS
    Uploads = {u1, u2}
    Edits = {e1, e2}
    Docs = {d1}
    None = None
    Retention = 1
    Ttl = 0
    StaleAge = 0
    MaxSlots = 2
    MaxClock = 1
    MaxFaults = 1
SYMMETRY RequestSymmetry
CHECK_DEADLOCK FALSE
INVARIANTS
    TypeOK
    SlotsAccounted
    UploadFileAvailable
    ErasureReachesTheCache
    ErasedStaysErased
    ServingMeansPurged
    CommittedRecordsKept
PROPERTIES
    RecordsLiveOnce
