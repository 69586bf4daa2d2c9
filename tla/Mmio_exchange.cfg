SPECIFICATION Spec
CONSTANTS
    Req = {a, b, c}
    Zero = zero
    None = none
    RespMem = {p1, p2}
    QueueSize = 2
    IrqModes = {"mmio"}
    MaxStale = 0
    EarlyIrq = TRUE
    Timeouts = TRUE
    FailingStages = {"features", "queuesize", "queuemem", "reqmap", "reqphys", "respmap", "channel", "connect", "irq"}
    MaxSpurious = 0
    CountSpurious = TRUE
CHECK_DEADLOCK FALSE
INVARIANTS NoDmaToFreed NoStalePulse NoLostWakeup
PROPERTY ImplementsExchange
