SPECIFICATION FairSpec
CONSTANTS
    p1 = p1
    p2 = p2
    d1 = d1
    d2 = d2
    Passes <- MCPasses
    Devices <- MCDevices
    Order <- MCOrder
    Attempts <- MCAttempts
    Planned <- OnlyD1
    Verifying <- OnlyD1
    SelfConfirming <- Nobody
    Faulty <- OnlyD1
    Disturbed <- Nobody
PROPERTY
    WatchdogReachesAll
