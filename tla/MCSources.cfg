SPECIFICATION Spec
CONSTANTS
    Workers = {w1, w2}
    Units <- MCUnits
    Contents = {"v1", "v2"}
    Malformed = Malformed
    NoFile = NoFile
    Earlier = {}
    Retries = 2
    StallTimeout = 2
    MaxPieces = 1
    MaxFetches = 3
    MaxKills = 1
    MaxCleans = 1
    CleanDuring = FALSE
    a1 = a1
    b1 = b1
    c1 = c1
    p1 = p1
    e1 = e1
    Edit = e1
    Changes <- AllChanges
    Tags <- TwoTags
    PatchLists <- NoPatches
    Branches <- WithBranch
    PatchMayFail = FALSE
    Toggles = TRUE
    MaxCommits = 1
INVARIANTS PinBuildIsDeclared SourceInv FetchInv
PROPERTIES UserWorkSafe FetchEnds
CHECK_DEADLOCK FALSE
