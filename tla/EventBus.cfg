\* A turn with a tool call; one observer or coroutine fails, any dispatch may time out.
SPECIFICATION Spec
CONSTANTS
    i1 = i1  rt = rt  main = main  tool = tool  host = host  ls = ls  ot = ot
    Script <- TurnScript
    Runtime = rt
    Bound <- MCBound
    LangSmith = ls
    OpenTelemetry = ot
    CloseAfter = 3
    Workers = 1
    MaxFaults = 1
    None = None
CHECK_DEADLOCK FALSE
INVARIANTS
    SerialUntilTerminal
    NoEmitWaitsInVain
    HonestResult
    TraceEnds
    ClosedObserverHoldsNothing
