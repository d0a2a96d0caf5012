SPECIFICATION Spec
CONSTANTS
    lib = lib
    app = app
    tool = tool
    img = img
    img2 = img2
    ghost = ghost
    Units <- TwoUnits
    Requestable <- TwoUnits
    DepGraphs <- TwoGraphs
    Class <- TwoClass
    HasWork <- TwoUnits
    Unbuildable = {}
    Parallel = 2
INVARIANT ImageSeesItsClosure
