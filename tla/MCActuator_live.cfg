SPECIFICATION FairSpec
CONSTANTS
    p1 = p1
    p2 = p2
    d1 = d1
    d2 = d2
    Passes <- MCPasses
    Devices <- MCDevices
    Order <- MCOrder
    Attempts <- MCAttempts
    Planned <- MCDevices
    Verifying <- MCDevices
    SelfConfirming <- OnlyD2
    Faulty <- OnlyD2
    Disturbed <- Nobody
PROPERTIES
    PassEnds
    WatchdogReachesAll
