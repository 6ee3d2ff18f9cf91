SPECIFICATION Spec
CONSTANTS
    Calls = {c1, c2, c3, c4}
    Runtimes <- AllRuntimes
    Overrides <- NoOverrides
    Foreign <- Strangers
    Experimental = TRUE
    MaxRestarts = 1
    MaxOverlapping = 3
    MaxSerial = 4
    MaxLeft = 1
    None = None
SYMMETRY Symmetry
CONSTRAINT LeftBySerialHost
VIEW Observed
CHECK_DEADLOCK FALSE
INVARIANTS
    DescriptorKeepsThread
    PermissionsNeverChange
    OnlySessionProfiles
    SerialHostOwnsWorkspaces
    IssuedDescriptorsResume
