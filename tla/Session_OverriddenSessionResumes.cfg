SPECIFICATION Spec
CONSTANTS
    Calls = {c1,c2}
    Runtimes <- OneRuntime
    Overrides <- SomeOverrides
    Foreign <- Strangers
    Experimental = TRUE
    MaxRestarts = 0
    MaxOverlapping = 2
    MaxSerial = 4
    MaxLeft = 1
    None = None
SYMMETRY Symmetry
CHECK_DEADLOCK FALSE
INVARIANTS
    OverriddenSessionResumes
