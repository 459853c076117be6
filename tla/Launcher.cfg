\* Every platform, every way the settings may be wrong, two Ctrl+C.
CONSTANTS
    Guards = {"job", "pdeathsig", "none"}
    Settings = {"unset", "empty", "bad", "good"}
    MaxProbes = 2
    MaxInterrupts = 2
SPECIFICATION Spec
INVARIANTS
    TypeOK
    NoServerIsForgotten
    CleanExitLeavesNothing
PROPERTIES
    StopAlwaysEnds
    OneDownBothDown
