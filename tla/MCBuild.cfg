SPECIFICATION OneRecord
CONSTANTS
    lib = lib
    app = app
    tool = tool
    img = img
    img2 = img2
    ghost = ghost
    Units <- AllUnits
    Requestable <- AllNames
    DepGraphs <- AllGraphs
    Class <- AllClass
    HasWork <- AllWork
    Unbuildable = {img2}
    Parallel = 2
INVARIANTS DepsFirst RebuildPropagates SuccessIsComplete SuccessIsReusable  ImageSeesItsClosure
PROPERTIES Returns ImplementsTopo
