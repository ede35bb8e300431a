SPECIFICATION Spec
CONSTANTS
    Types <- AllTypes
    Companions <- Storages
    Classes <- OneClass
    Modes <- MCModes
    Statuses <- MCStatuses
    MaxDevices = 2
INVARIANTS
    TypeOK
    FlowDevicesBuild
    FieldsUsed
    TiersAgree
    MeasuredStartState
    ActedAsShown
