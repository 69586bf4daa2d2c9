SPECIFICATION Spec
CONSTANTS
    FidMod = 7
    TagMod = 1
    Root = root
    Dirs = {root}
    Files = {f, g}
    NoObj = none
    Faults = {"lost"}
    MaxFaults = 1
    CountFaults = TRUE
    Ocb = {o1, o2}
    Ops = {"open", "close"}
    MaxFid = 3
    MaxChunks = 2
INVARIANT OcbFidIsOpenFile
