CONSTANTS
    Files = {"a", "c", "n"}
    Dirs = {"d", "sub"}
    Tree <- MCTree
    Suffixed = {"a", "c"}
    Runs <- TomlRuns
    Documents <- MCDocuments
    Disks <- MCDisks
    MaxChanges = 1
SPECIFICATION VSpec
INVARIANT InvalidNeverEndsWithZero
CHECK_DEADLOCK FALSE
