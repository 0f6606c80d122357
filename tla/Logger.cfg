\* More sinks than slots: the registry rejects what comes too late.
SPECIFICATION FairSpec
CONSTANTS
    Tasks = {t1, t2}
    UartSinks = {u0, u1}
    RttSinks = {r1, r2}
    MaxSinks = 1
    MaxRecords = 2
INVARIANTS
    RegistryIsLive
PROPERTIES
    RecordsInOrder
    CallReturns
