SPECIFICATION Spec
CONSTANTS
    Calls = {c1}
    Runtimes <- AllRuntimes
    Overrides <- NoOverrides
    Foreign <- Strangers
    Experimental = TRUE
    MaxRestarts = 0
    MaxOverlapping = 1
    MaxSerial = 4
    MaxLeft = 1
    None = None
SYMMETRY Symmetry
CHECK_DEADLOCK FALSE
INVARIANTS
    ReducedMigrationAdmitted
