\* Two users of one browser; two documents and a call of retrieval; three runs of the
\* agent; starts with two workers; two documents and two calls by file name through the
\* handles of two folders and a user; a batch of two files; three calls on one cache.
CONSTANTS
    f1 = f1
    f2 = f2
    e1 = e1
    b1 = b1
    x1 = x1
    p1 = p1
    p2 = p2
    l1 = l1
    l2 = l2
    g1 = g1
    i1 = i1
    c1 = c1
    c2 = c2
    c3 = c3
    u1 = u1
    u2 = u2
    o1 = o1
    o2 = o2
    q1 = q1
    d1 = d1
    d2 = d2
    r1 = r1
    r2 = r2
    r3 = r3
    s1 = s1
    k1 = k1
    k2 = k2
    Users = {u1, u2}
    Flows = {o1, o2}
    DriveFaults = {"network", "disk"}
    MaxSent = 2
    QDocs = {d1, d2}
    Queries = {q1}
    ChunkNos = {1}
    TopK = 1
    QFaults = {"db", "pages", "files"}
    Runs = {r1, r2, r3}
    Searchers = {r1}
    Window = 2
    Keep = 1
    Server = s1
    Workers = {k1, k2}
    MaxRetries = 2
    Colpali = TRUE
    StartFaults = {"db", "redis", "kill"}
    Absent = Absent
    MaxHurt = 1
    CDocs = {p1, p2}
    CCalls = {l1, l2}
    CFolders = {f1, f2}
    CUsers = {e1}
    CNames = {b1, x1}
    Binary = b1
    CGraphs = {g1}
    BatchIds = {i1}
    BatchSize = 2
    BatchFaults = {"row", "limit", "storage", "record", "charge", "queue", "lost"}
    CacheDocs = {d1, d2}
    CacheCalls = {c1, c2, c3}
    CacheFaults = {"db", "model", "file"}
SPECIFICATION Spec
INVARIANTS
    TypeOK
    ConnectionsAreSound
    UndisturbedQueriesAreFull
    AgentRecovers
    StoresAreWholeAfterStart
    ChunksSurviveStarts
    NoStrayWorkers
    ScopesHold
    BatchesAreAccounted
    OrderlyCachesAgree
PROPERTIES
    NameDeletesTakeTheNamed
SYMMETRY Symmetry
CHECK_DEADLOCK FALSE
