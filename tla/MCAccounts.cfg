\* Three metered calls of one user, queries or files, with a failing database; three
\* calls on applications, two of them with two routed requests.
CONSTANTS
    c1 = c1
    c2 = c2
    c3 = c3
    u1 = u1
    a1 = a1
    a2 = a2
    a3 = a3
    n1 = n1
    n2 = n2
    w1 = w1
    w2 = w2
    NoRow = NoRow
    Users = {u1}
    Calls = {c1, c2, c3}
    Limits <- TightLimits
    HourLen = 1
    MonthLen = 2
    MaxTime = 3
    DbFails = TRUE
    ACalls = {a1, a2, a3}
    ANames = {n1, n2}
    Plans = {"free", "teams"}
    AppLimit = 1
    AppFaults = {"remote", "db", "crash"}
    Requests = {w1, w2}
    MaxUses = 1
    MaxRouted = 2
    MaxFaulty = 0
SPECIFICATION AccountsSpec
INVARIANTS
    TypeOK
    NeverOvercharged
    
    RoutingTypeOK
    AppsAreWhole
    OrderlyLimitHolds
    RequestsKeepTheirStores
SYMMETRY Symmetry
CHECK_DEADLOCK FALSE
