\* Three requests, a build or more and updates, over two documents; every fault.  Walks
\* over graphs of up to three entities and three relations.
CONSTANTS
    None = None
    d1 = d1
    d2 = d2
    l1 = l1
    l2 = l2
    e1 = e1
    e2 = e2
    e3 = e3
    Docs = {d1, d2}
    Labels = {l1, l2}
    Ops = {o1, o2, o3}
    Text <- TwoTexts
    Resolutions <- SomeResolutions
    Requests <- SomeRequests
    Faults = {"server", "llm", "db", "conn"}
    GIds = {e1, e2, e3}
    MaxRels = 3
    MaxSeeds = 1
    MaxHops = 2
SPECIFICATION ServiceSpec
INVARIANTS
    TypeOK
    EndpointsExist
    MergesAreExact
    BuildsAlone
    ProcessingIsExplained
    WalksKeepTheirDepth
PROPERTY
    NothingForgotten
SYMMETRY OpSymmetry
CHECK_DEADLOCK FALSE
