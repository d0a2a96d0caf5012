SPECIFICATION SourceSpec
CONSTANTS
    a1 = a1
    b1 = b1
    c1 = c1
    p1 = p1
    e1 = e1
    Edit = e1
    Changes <- AllChanges
    Tags <- OneTag
    PatchLists <- OnePatch
    Branches <- NoBranch
    PatchMayFail = TRUE
    Toggles = FALSE
    MaxCommits = 1
INVARIANT PinBuildIsDeclared
