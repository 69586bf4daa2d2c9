SPECIFICATION FairSpec
CONSTANTS
    QueueSize = 4
    IdxMod = 8
    Out = {"q1", "q2"}
    In = {"r1"}
INVARIANTS QueueTypeOK FreeListSound
PROPERTIES FullOnlyWhenFull ImplementsBufferQueue EveryChainReturns
