SPECIFICATION StoresSpec
CONSTANTS
    lib = lib
    app = app
    tool = tool
    img = img
    virt = virt
    NoUnit = NoUnit
    Broken = Broken
    Units <- FourUnits
    Virtuals = {virt}
    Rank <- NameOrder
    Declared <- AllProjects
    Deep <- DeepProjects
    Targets <- SomeTargets
    MaxEdits = 2
    MaxRuns = 3
    libv1 = libv1
    libtool = libtool
    data = data
    x86 = x86
    noarch = noarch
    NoArch = noarch
    Files <- AllFiles
    Dirs <- AllDirs
    Home <- AllHome
    Names <- RemoveArgs
    Matching <- PrefixMatch
    Projects <- TwoReleases
    MaxBuilds = 2
INVARIANTS DoneIsFresh OrderInv RefreshListsAll TouchedIndexSound CleanExact
CHECK_DEADLOCK FALSE
