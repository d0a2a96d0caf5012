SPECIFICATION Spec
CONSTANTS
    NameOrder <- MCNames
    Distros <- MCDistros
    N = 2
    Feeds <- MCFeeds
    Projects <- MCProjects
    Refs <- MCRefs
    ModuleLists <- MCModuleLists
    MaxRounds = 16
    RemoteFails = TRUE
    MaxMoves = 1
    MaxCommits = 1
    MaxKills = 1
    MaxCommands = 4
INVARIANTS ViewKeepsClosures CatalogInv ClosureInv SyncInv
PROPERTIES UserWorkKept SyncRepairs
CHECK_DEADLOCK FALSE
