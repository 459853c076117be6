\* The launcher may be killed at any step, on Windows and Linux.
CONSTANTS
    Guards = {"job", "pdeathsig"}
    Settings = {"unset", "empty", "bad", "good"}
    MaxProbes = 1
    MaxInterrupts = 1
SPECIFICATION Spec
INVARIANT KillReachesEveryServer
