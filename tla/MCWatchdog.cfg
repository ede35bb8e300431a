SPECIFICATION Spec
CONSTANTS
    UpdateInterval = 4
    SolverTimeout = 3
    WatchdogTimeout = 8
    PollInterval = 2
    Backdates <- MCBackdates
    MaxPasses = 2
INVARIANTS
    TypeOK
    NoAlarmWithoutCause
    AlarmInTime
