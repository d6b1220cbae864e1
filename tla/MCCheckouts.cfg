CONSTANTS
    Refs = {"solr-4", "scala-2-jdk8", "dev/solr-5", "notes"}
    Short <- MCShort
    Info <- MCInfo
    Trees <- MCTrees
    Runs <- MCRuns
    MaxForeign = 2
SPECIFICATION Spec
INVARIANTS
    TypeOK
    Restored
    VerdictIsRight
CHECK_DEADLOCK FALSE
