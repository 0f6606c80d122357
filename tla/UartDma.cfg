\* Two channels, chunks of two bytes, FIFOs of three; one DMA part may time out.
SPECIFICATION FairBackendSpec
CONSTANTS
    Tx = tx
    Rx = rx
    Channels = {tx, rx}
    MaxCount = 2
    TriggerModes = {"EVENT"}
    Disciplined = FALSE
    PromptIrq = TRUE
    MaxTimeouts = 1
    Chunk = 2
    TxFifo = 3
    RxFifo = 3
    Level = 2
    Space = 2
    Sizes = {5}
INVARIANTS
    WriteIsExact
    ReadIsExact
    FailureHasReason
PROPERTIES
    CallReturns
