\* A file whose rules include no post-chunking text rule; nothing fails.
CONSTANTS
    d1 = d1
    d2 = d2
    Docs = {d1}
    NoRow = NoRow
    MaxTries = 2
    MaxJobs = 1
    MaxStoreAttempts = 2
    MaxLost = 1
    Requests <- OtherRules
    Faults = {}
SPECIFICATION Spec
INVARIANTS
    CompletedKeepsContent
CHECK_DEADLOCK FALSE
