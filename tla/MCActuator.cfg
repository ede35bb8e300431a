SPECIFICATION Spec
CONSTANTS
    p1 = p1
    p2 = p2
    d1 = d1
    d2 = d2
    Passes <- MCPasses
    Devices <- MCDevices
    Order <- MCOrder
    Attempts <- MCAttempts
    Planned <- MCDevices
    Verifying <- OnlyD1
    SelfConfirming <- Nobody
    Faulty <- OnlyD2
    Disturbed <- MCDevices
SYMMETRY MCSymmetry
INVARIANTS
    TypeOK
    ReadOnly
    ActionIsConcluded
    VerifyIssueAfterSafeDefault
PROPERTIES
    NeverIntoForbidden
    PassesGoForward
