CONSTANTS
    Clients = {1, 2}
    Services = {"HDFS", "YARN"}
    Jobs <- MCJobs
    Backlog <- MCBacklog
    MaxOther = 1
    MaxErrors = 1
SPECIFICATION Spec
INVARIANTS
    TypeOK
    OnlyListedChecksAborted
    NoneLeftPending
    WaitMeansDone
PROPERTY WatchEnds
CHECK_DEADLOCK FALSE
