SPECIFICATION Spec
CONSTANTS
    t1 = t1
    t2 = t2
    t3 = t3
    d1 = d1
    d2 = d2
    Tasks <- TwoTasks
    Devices <- MCDevices
    DeviceLists <- MCDeviceLists
    Filters <- MCFilters
    Statuses = {"OPTIMAL", "ERROR"}
    NoTask = NoTask
    MaxInputs = 1
    MaxLoads = 2
    MaxOrphans = 1
INVARIANT
    NativeExclusive
