CONSTANTS
    Files = {"f1", "f2", "f3"}
    Names = {"n1", "n2", "n3"}
    Captures = {"x"}
    CaptureOf <- MCCaptureOf
    Contents = {"empty", "a", "b"}
    SizeOf <- MCSizeOf
    Options <- MCOptions
    Walks <- MCWalks
    MaxRemoved = 1
SPECIFICATION Spec
INVARIANTS
    TypeOK
    GroupsAreRight
    CleanExitMeansNoDuplicates
CHECK_DEADLOCK FALSE
