SPECIFICATION Spec
CONSTANTS
    Parent <- MCParent
    Slaves <- MCSlaves
    Candidate <- MCCandidate
    Sticks = {"s0", "s1", "s2", "s3"}
    Plugged <- MCPlugged
    Id <- MCId
    NoId = NoId
    Critical = {"dm0", "nvme1"}
    Length = 5
    Short = 4
    Sector = 2
    Buf = 4
    MaxBuilds = 2
    MaxEvents = 2
    MaxFlashes = 2
    SwapWhileOpen = FALSE
    Runs = {"a", "b", "c"}
    MachinePorts <- MCMachinePorts
    SavedPorts <- MCSavedPorts
    Extra <- MCExtra
    Grow = {"a"}
    SshPort = 22
    MaxRuns = 2
    MaxGens = 2
    Distros = {"alpine", "debian"}
    UserLines = {"u1"}
    MaxSessions = 2
    MaxBuild = 2
    MaxDrops = 1
INVARIANTS BootInv FeedInv DeployInstalls
PROPERTIES FlashSafe  TestEnds
CHECK_DEADLOCK FALSE
