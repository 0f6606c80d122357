\* A manual DMA channel on completion code 0 and a QDMA channel; interrupts are taken promptly.
SPECIFICATION FairQdmaSpec
CONSTANTS
    Channels = {zero, q}
    Qdma = {q}
    Zero = zero
    Rearm = TRUE
    MaxCount = 1
    TriggerModes = {"MANUAL"}
    Disciplined = TRUE
    PromptIrq = TRUE
INVARIANTS
    SuccessIsCurrent
PROPERTIES
    TransferEnds
    MissReachesOwner
    TriggerIsAnswered
