SPECIFICATION FairSpec
CONSTANTS
    Req = {a, b, c}
    Zero = zero
    None = none
    RespMem = {p1, p2}
    QueueSize = 2
    IrqModes = {"mmio"}
    MaxStale = 1
    EarlyIrq = TRUE
    Timeouts = TRUE
    FailingStages = {"features", "queuesize", "queuemem", "reqmap", "reqphys", "respmap", "respphys", "channel", "connect", "irq"}
    MaxSpurious = 1
    CountSpurious = FALSE
CHECK_DEADLOCK FALSE
INVARIANTS ResourcesAccounted OneInFlight
PROPERTY ExchangeReturns
