SPECIFICATION Spec
CONSTANTS
    UnitNames = {1, 2, 3}
    Class <- MCClass
    ImageClass = 2
    Deps <- MCDeps
    Projects <- MCProjects
    Image <- MCImage
    NoImage = NoImage
    Queries <- MCQueries
    Sizes = {1}
    Heights = {2}
    MinRows = 1
    MaxListEvents = 2
    PageUnits = {"u"}
    NoPage = NoPage
    Above <- MCAbove
    Words = {"a", "b"}
    FilePaths = {1, 2}
    FileSize <- MCFileSize
    PaneHeights = {2, 3}
    MinPane = 2
    MinFiles = 1
    MaxWrites = 2
    MaxLog = 2
    Machines <- MCMachines
    Entries <- MCEntries
    Ladder = 2
    Adapters = {1}
    Overlap = FALSE
    MaxSaves = 3
INVARIANTS SettingsInv
PROPERTIES TableSound PageSound ForwardsSound
CHECK_DEADLOCK FALSE
