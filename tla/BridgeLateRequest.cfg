\* A request that passes the lookup before its route is dropped.
SPECIFICATION BridgeSpec
CONSTANTS
    Requests = {r1, r2}
    Invocations = {i1, i2}
    Calls = {c1}
    Tools = {"read"}
    Snapshot <- OneTool
    Allowed = {"files"}
    None = None
    MaxAttempts = 1
    RaisePolicy = TRUE
    Late = TRUE
    Cancellable = TRUE
    SinkMayFail = TRUE
    ProviderThread <- OneThread
CHECK_DEADLOCK FALSE
INVARIANTS
    NoJobAfterCleanup
