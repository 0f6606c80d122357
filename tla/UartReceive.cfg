SPECIFICATION FairSpec
CONSTANTS
    MaxSize = 2
    MaxLoops = 1
    FifoDepth = 2
    LineLength = 4
INVARIANTS
    InterruptHasOwner
    NothingDropped
PROPERTIES
    NoLateStore
    KeepsPromise
    ReadReturns
    BytesServed
