SPECIFICATION Spec
CONSTANTS
    lib = lib
    img = img
    Units <- TwoUnits
    Deps <- ImageOfLib
    Images = {img}
    LeftBuilding = {}
    MaxBuilds = 2
INVARIANTS HandlesAreLive RowsInv
PROPERTIES QuitCancels
CHECK_DEADLOCK FALSE
