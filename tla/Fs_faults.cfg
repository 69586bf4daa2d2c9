SPECIFICATION Spec
CONSTANTS
    FidMod = 7
    TagMod = 2
    Root = root
    Dirs = {root}
    Files = {f, g}
    NoObj = none
    Faults = {"lost", "late", "garbled"}
    MaxFaults = 1
    CountFaults = TRUE
    Ocb = {o1, o2}
    Ops = {"open", "create", "io", "write", "close", "mkdir", "unlink", "rename"}
    MaxFid = 3
    MaxChunks = 2
INVARIANTS TypeOK NoFidLeak PoolInv FidsAgree
