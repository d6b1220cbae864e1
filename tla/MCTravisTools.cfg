CONSTANTS
    Runs <- MCRuns
    Builds <- MCBuilds
    Jobs <- MCJobs
    NewBuild <- MCNewBuild
    MaxTries = 3
    MaxTravis = 3
SPECIFICATION Spec
INVARIANTS
    TypeOK
    AddressIsLive
    NewestWanted
    FailedLogIsWhole
PROPERTY Terminates
CHECK_DEADLOCK FALSE
