SPECIFICATION FairSpec
CONSTANTS
    f1 = f1
    f2 = f2
    bad = bad
    Files <- MCFiles
    Wrong <- MCWrong
    Batches <- MCBatches
    Causes <- MCCauses
    Filters <- MCFilters
    Bare <- MCBare
    None = None
    MaxFiles = 2
    MaxRows = 2
    MaxExportIds = 2
    OldRecords = 1
    MaxRecords = 3
    MaxClicks = 6
    MaxFaults = 1
CHECK_DEADLOCK FALSE
INVARIANTS
    TypeOK
    ReportAccountsForRecords
    BatchStopsForACause
    DeletionIsHonest
    ExportStaysInSelection
PROPERTIES
    ScriptsEnd
