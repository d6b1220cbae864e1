CONSTANTS
    Runs <- PartitionRuns
    Warehouse <- MCWarehouse
    Others <- MCOthers
    MaxForeign = 0
SPECIFICATION Spec
INVARIANT EveryPartitionCounted
CHECK_DEADLOCK FALSE
