\* A delete request while the document is ingested; nothing fails.  The chunks.
CONSTANTS
    d1 = d1
    d2 = d2
    Docs = {d1}
    NoRow = NoRow
    MaxTries = 2
    MaxJobs = 1
    MaxStoreAttempts = 2
    MaxLost = 1
    Requests <- OneFile
    Faults = {}
SPECIFICATION Spec
INVARIANTS
    DeleteLeavesNoChunks
CHECK_DEADLOCK FALSE
