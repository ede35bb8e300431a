SPECIFICATION Spec
CONSTANTS
    LastTime = 7
    Slot = 2
    MaxHorizon = 6
    Bad = Bad
    Offset <- SpringOffset
    Curves <- MCCurves
    PVs <- MCPVs
    Manuals <- MCManuals
INVARIANTS
    TypeOK
    PricesFromNow
    HorizonFollowsCurve
    GenerationHeld
