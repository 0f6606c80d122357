\* The configuration of a timer, with posted writes and without; the calls run out.
SPECIFICATION Spec
CONSTANTS
    PostedModes = {TRUE, FALSE}
    Top = 1
    MaxCalls = 4
INVARIANTS
    TakesEffect
CHECK_DEADLOCK FALSE
