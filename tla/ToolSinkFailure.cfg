\* An event sink that raises, two attempts.
SPECIFICATION Spec
CONSTANTS
    Requests = {r1, r2}
    Invocations = {i1}
    Calls = {c1, c2}
    Tools = {"read", "write", "admin", "append", "ghost"}
    Snapshot <- SomeTools
    Allowed = {"files"}
    None = None
    MaxAttempts = 2
    RaisePolicy = FALSE
    Late = FALSE
    Cancellable = FALSE
    SinkMayFail = TRUE
CHECK_DEADLOCK FALSE
SYMMETRY Symmetry
INVARIANTS
    SinkFailureChangesNothing
