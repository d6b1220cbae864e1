CONSTANTS
    Runs <- MCRuns
    Tables <- MCTables
    DefaultTable = "HS_test_data"
    Prefix <- MCPrefix
    Encoded <- MCEncoded
    MaxChanges = 4
SPECIFICATION Spec
INVARIANTS
    TypeOK
    OnlyOwnTables
    ZeroMeansAll
    PrintableCountsAreOfTheirGroup
CHECK_DEADLOCK FALSE
