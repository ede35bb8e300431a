SPECIFICATION FairSpec
CONSTANTS
    t1 = t1
    t2 = t2
    t3 = t3
    d1 = d1
    d2 = d2
    Tasks <- ThreeTasks
    Devices <- MCDevices
    DeviceLists <- OneDeviceList
    Filters <- NoFilters
    Statuses = {"OPTIMAL", "ERROR"}
    NoTask = NoTask
    MaxInputs = 0
    MaxLoads = 1
    MaxOrphans = 1
INVARIANT
    QueueIsWaiting
PROPERTIES
    CallEnds
    DataCatchesUp
