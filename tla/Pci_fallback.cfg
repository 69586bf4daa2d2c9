SPECIFICATION Spec
CONSTANTS
    Req = {a, b, c}
    Zero = zero
    None = none
    RespMem = {p1, p2}
    QueueSize = 2
    IrqModes = {"msix"}
    MaxStale = 0
    EarlyIrq = FALSE
    Timeouts = TRUE
    FailingStages = {}
    MaxSpurious = 0
    CountSpurious = TRUE
CHECK_DEADLOCK FALSE
INVARIANT FallbackSignals
