SPECIFICATION Spec
CONSTANTS
    Tasks = {t1, t2}
    Irqs = {tick, dev}
    Tick = tick
    Priority <- MCPriority
    MaxNesting = 1
    MaxLevel = 1
INVARIANTS
    CriticalSectionsMaskAll
