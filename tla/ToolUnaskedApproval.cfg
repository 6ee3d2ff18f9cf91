\* A handler that raises before it returns an awaitable.
SPECIFICATION Spec
CONSTANTS
    Requests = {r1, r2}
    Invocations = {i1}
    Calls = {c1}
    Tools = {"read", "write", "admin", "append", "ghost"}
    Snapshot <- SomeTools
    Allowed = {"files"}
    None = None
    MaxAttempts = 1
    RaisePolicy = FALSE
    Late = FALSE
    Cancellable = FALSE
    SinkMayFail = FALSE
CHECK_DEADLOCK FALSE
SYMMETRY Symmetry
INVARIANTS
    EveryFailureDenies
