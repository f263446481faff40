\* Two calls on two documents and two folders, any kinds, order, overlap and failures.
CONSTANTS
    d1 = d1
    d2 = d2
    n1 = n1
    n2 = n2
    f1 = f1
    f2 = f2
    c1 = c1
    c2 = c2
    u1 = u1
    u2 = u2
    Docs = {d1, d2}
    Names = {n1, n2}
    FolderIds = {f1, f2}
    FCalls = {c1, c2}
    UCalls = {u1, u2}
    Base = Base
    None = None
    Unset = Unset
    Cloud = TRUE
    FolderFaults = {"db", "crash"}
    UpdateFaults = {"step", "crash"}
    RuledOps = {"text"}
    MaxFiles = 5
    MaxCalls = 2
SPECIFICATION Spec
INVARIANTS
    TypeOK
    OrderlyFoldersAreExact
    FolderNameAgrees
    DeletedFoldersAreGone
    ListedChunksAreStored
    QuietUpdatesHold
    DeleteLeavesOnlyStrays
    TagsAreOwn
SYMMETRY Symmetry
CHECK_DEADLOCK FALSE
