SPECIFICATION FairSpec
CONSTANTS
    Req = {a, b, c}
    Zero = zero
    None = none
    RespMem = {p1, p2}
    QueueSize = 2
    IrqModes = {"intx", "msix", "noisr"}
    MaxStale = 0
    EarlyIrq = TRUE
    Timeouts = TRUE
    FailingStages = {"features", "queuesize", "queuemem", "reqmap", "reqphys", "respmap", "channel", "connect", "irq"}
    MaxSpurious = 1
    CountSpurious = FALSE
CHECK_DEADLOCK FALSE
INVARIANTS TypeOK NoLostWakeup
PROPERTIES ImplementsExchange ExchangeReturns
