\* One build of a graph from one named document, which may be gone; nothing fails.
CONSTANTS
    None = None
    d1 = d1
    d2 = d2
    l1 = l1
    l2 = l2
    Docs = {d1, d2}
    Labels = {l1, l2}
    Ops = {o1}
    Text <- TwoTexts
    Resolutions <- SomeResolutions
    Requests <- OneBuild
    Faults = {}
SPECIFICATION FairSpec
PROPERTY
    BuildEnds
CHECK_DEADLOCK FALSE
