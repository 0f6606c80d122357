SPECIFICATION FairSpec
CONSTANTS
    Tasks = {t1, t2}
    Irqs = {tick, dev}
    Tick = tick
    Priority <- MCPriority
    MaxNesting = 1
    MaxLevel = 2
INVARIANTS
    NestingIsOwn
    SectionKeepsMask
    HandlersAreSequential
    YieldIsServed
    FpuIsOwn
    NoHandlerBeforeFirstTask
PROPERTIES
    TickIsServed
