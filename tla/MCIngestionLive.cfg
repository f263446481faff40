\* Two documents share one worker slot; steps may fail, and a job whose worker dies
\* is dropped (MaxTries = 1).
CONSTANTS
    d1 = d1
    d2 = d2
    Docs = {d1, d2}
    NoRow = NoRow
    MaxTries = 1
    MaxJobs = 1
    MaxStoreAttempts = 2
    MaxLost = 1
    Requests <- OneFile
    Faults = {"worker", "step"}
SPECIFICATION FairSpec
PROPERTIES
    QueuedJobsSettle
CHECK_DEADLOCK FALSE
