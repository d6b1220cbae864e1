CONSTANTS
    Files = {"a", "c", "n"}
    Dirs = {"d", "sub"}
    Tree <- MCTree
    Suffixed = {"a", "c"}
    Runs <- AllRuns
    Documents <- MCDocuments
    Disks <- MCDisks
    MaxChanges = 1
SPECIFICATION VSpec
INVARIANTS
    VTypeOK
    ZeroMeansAllValid
    FailureHasReason
    PrintedWasValid
CHECK_DEADLOCK FALSE
