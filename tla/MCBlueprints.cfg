CONSTANTS
    Names = {"a", "a.json", "b.json"}
    Suffixed <- MCSuffixed
    Absent = Absent
    Torn = Torn
    Runs <- MCRuns
    Blueprints <- MCBlueprints
    Clusters <- MCClusters
    Files <- MCSavedFiles
    MaxRuns = 2
    MaxChanges = 1
SPECIFICATION Spec
INVARIANTS
    TypeOK
    RegisteredIsWhole
    SavedIsWhole
CHECK_DEADLOCK FALSE
