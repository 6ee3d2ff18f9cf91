\* Exporters that never answer.
SPECIFICATION FairSpec
CONSTANTS
    i1 = i1  rt = rt  main = main  tool = tool  host = host  ls = ls  ot = ot
    Script <- StalledScript
    Runtime = rt
    Bound <- MCBound
    LangSmith = ls
    OpenTelemetry = ot
    CloseAfter = 1
    Workers = 1
    MaxFaults = 0
    None = None
CHECK_DEADLOCK FALSE
PROPERTIES
    EmitAlwaysReturns
