SPECIFICATION Spec
CONSTANTS
    Req = {a, b, c}
    Zero = zero
    None = none
    RespMem = {p1, p2}
    QueueSize = 2
    IrqModes = {"intx"}
    MaxStale = 0
    EarlyIrq = FALSE
    Timeouts = TRUE
    FailingStages = {"respphys"}
    MaxSpurious = 0
    CountSpurious = TRUE
CHECK_DEADLOCK FALSE
INVARIANT BufferAddressIsMapped
