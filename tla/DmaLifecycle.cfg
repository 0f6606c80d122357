\* Any client, late interrupts, both trigger modes, one channel.
SPECIFICATION Spec
CONSTANTS
    Channels = {c1}
    MaxCount = 2
    TriggerModes = {"MANUAL", "EVENT"}
    Disciplined = FALSE
    PromptIrq = FALSE
INVARIANTS
    ReleasedIsQuiet
PROPERTIES
    NoCallbackAfterRelease
