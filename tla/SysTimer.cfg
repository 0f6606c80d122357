\* The clock through three values of its high word, in every build.
SPECIFICATION SysTimerSpec
CONSTANTS
    Word = 3
    Accesses = {"both", "lowFirst", "highFirst"}
INVARIANTS
    TicksCounted TimeIsRead DelayWaits
PROPERTIES
    DelayReturns
CHECK_DEADLOCK FALSE
