SPECIFICATION Spec
CONSTANTS
    MaxGateways = 1
    MaxDevices = 1
    MaxNodes = 3
    MaxExit = 1
    MaxLives = 2
    MaxRenames = 1
    Chosen <- ChosenNames
    Requests = {r1, r2}
    MaxFaults = 1
SYMMETRY Symmetry
INVARIANTS
    ApprovedOnMesh
    DeviceNeverExit
    ExitIsOwn
    DashboardShowsOwn
PROPERTIES
    OwnNodeDeleted
CHECK_DEADLOCK FALSE
