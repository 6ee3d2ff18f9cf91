\* A request that reaches the loop after end_invocation().
SPECIFICATION Spec
CONSTANTS
    Requests = {r1, r2}
    Invocations = {i1}
    Calls = {c1, c2}
    Tools = {"read", "write", "admin", "append", "ghost"}
    Snapshot <- SomeTools
    Allowed = {"files"}
    None = None
    MaxAttempts = 1
    RaisePolicy = FALSE
    Late = TRUE
    Cancellable = FALSE
    SinkMayFail = FALSE
CHECK_DEADLOCK FALSE
SYMMETRY Symmetry
INVARIANTS
    NothingLeftAfterEnd
