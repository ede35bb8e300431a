SPECIFICATION Spec
CONSTANTS
    UpdateInterval = 4
    SolverTimeout = 3
    WatchdogTimeout = 8
    PollInterval = 2
    Backdates = {}
    MaxPasses = 2
INVARIANT
    OutageAlarm
