CONSTANTS
    Runs <- MCRuns
    Warehouse <- MCWarehouse
    Others <- MCOthers
    MaxForeign = 1
SPECIFICATION Spec
INVARIANTS
    TypeOK
    ZeroMeansAll
    LinesAreTrue
CHECK_DEADLOCK FALSE
