CONSTANTS
    NumHosts = 3
    Confs <- MCConfs
    CpuCount = 1
SPECIFICATION Spec
INVARIANTS
    TypeOK
    AnswerQualifies
    NobodyOnlyIfAllRefused
    PreferenceBound
    StarvedOnlyByLostCheck
PROPERTIES
    Selects
    RunEnds
    EveryHostChecked
CHECK_DEADLOCK FALSE
