SPECIFICATION Spec
CONSTANTS
    FidMod = 6
    TagMod = 1
    Root = root
    Dirs = {root, d}
    Files = {f}
    NoObj = none
    Faults = {"lost", "late"}
    MaxFaults = 1
    CountFaults = FALSE
    Ocb = {o1}
    Ops = {"open", "create", "io", "write", "close", "mkdir", "unlink", "rename"}
    MaxFid = 2
    MaxChunks = 2
INVARIANTS AppliedAtMostOnce NoServerFidLeak
PROPERTIES AckedIsApplied HandlersTerminate
