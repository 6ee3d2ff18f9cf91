SPECIFICATION Spec
CONSTANTS
    Calls = {c1, c2, c3}
    Runtimes <- OneRuntime
    Overrides <- NoOverrides
    Foreign <- Strangers
    Experimental = TRUE
    MaxRestarts = 1
    MaxOverlapping = 3
    MaxSerial = 4
    MaxLeft = 1
    None = None
SYMMETRY Symmetry
CHECK_DEADLOCK FALSE
INVARIANTS
    OneTurnPerSession
