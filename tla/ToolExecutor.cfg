\* Two attempts, errors returned; coroutines are cancelled, the event sink raises.
SPECIFICATION Spec
CONSTANTS
    Requests = {r1, r2, r3}
    Invocations = {i1}
    Calls = {c1}
    Tools = {"read", "write", "admin", "append", "ghost"}
    Snapshot <- SomeTools
    Allowed = {"files"}
    None = None
    MaxAttempts = 2
    RaisePolicy = FALSE
    Late = FALSE
    Cancellable = TRUE
    SinkMayFail = TRUE
CHECK_DEADLOCK FALSE
SYMMETRY Symmetry
INVARIANTS
    OneOwnerPerKey
    EffectsBounded
    OnlyAuthorisedRuns
    AnswersAgree
    NothingLeftAfterEnd
    OneTerminalEvent
