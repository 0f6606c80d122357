SPECIFICATION FairSpec
CONSTANTS
    edma = edma
    uart = uart
    gpio = gpio
    timer = timer
    Irqs = {edma, uart, gpio, timer}
    Priority <- MCPriority
    MaxPriority = 2
    MaxSpurious = 2
INVARIANTS
    NestingByPriority
PROPERTIES
    AcknowledgesOwn
    MostUrgentIsServed
