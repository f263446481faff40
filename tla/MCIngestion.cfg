\* One document, every kind of request and every fault.
CONSTANTS
    d1 = d1
    d2 = d2
    Docs = {d1}
    NoRow = NoRow
    MaxTries = 2
    MaxJobs = 1
    MaxStoreAttempts = 2
    MaxLost = 1
    Requests <- AllRequests
    Faults = {"server", "worker", "timeout", "step", "db", "conn", "clean"}
SPECIFICATION Spec
INVARIANTS
    TypeOK
    RecordedChunksExist
    CopiesBounded
    SettledDeleteIsComplete
    JobFindsItsFile
PROPERTIES
    CatalogSpec
CHECK_DEADLOCK FALSE
