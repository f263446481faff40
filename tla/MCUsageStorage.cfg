\* Files uploaded at the same time; nothing fails.
CONSTANTS
    NoRow = NoRow
    Users = {u1}
    Calls = {c1, c2, c3}
    Limits <- TightLimits
    HourLen = 1
    MonthLen = 2
    MaxTime = 3
    DbFails = FALSE
SPECIFICATION Spec
INVARIANTS
    StorageWithinLimit
CHECK_DEADLOCK FALSE
