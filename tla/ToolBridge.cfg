\* Two requests for one call name, two turns of one thread, cancellations.
SPECIFICATION BridgeSpec
CONSTANTS
    Requests = {r1, r2}
    Invocations = {i1, i2}
    Calls = {c1}
    Tools = {"read"}
    Snapshot <- OneTool
    Allowed = {"files"}
    None = None
    MaxAttempts = 1
    RaisePolicy = TRUE
    Late = TRUE
    Cancellable = TRUE
    SinkMayFail = FALSE
    ProviderThread <- OneThread
CHECK_DEADLOCK FALSE
INVARIANTS
    RoutedToOwnTurn
    ExactlyOnceWhileRegistered
    NoReaderWaitsInVain
PROPERTIES
    ReadersAnswered
