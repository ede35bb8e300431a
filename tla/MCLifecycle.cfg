SPECIFICATION FairSpec
CONSTANTS
    f1 = f1
    price = price
    limit = limit
    v1 = v1
    Absent = Absent
    Flows <- OneFlow
    Keys <- MCKeys
    SetupKeys <- MCSetupKeys
    Values <- MCValues
    MaxEntries = 2
    MaxInstances = 3
    MaxReloads = 2
    MaxAdded = 2
INVARIANTS
    TypeOK
    EditsKept
    SettingsApplied
    EntitiesMatch
    ServicesReachLoaded
    WatchdogsOwned
PROPERTY
    EditsReach
