\* Three turns, three calls of close().
CONSTANTS
    c1 = c1
    c2 = c2
    c3 = c3
    x1 = x1
    x2 = x2
    x3 = x3
    Callers = {c1, c2, c3}
    Closers = {x1, x2, x3}
    None = None
SPECIFICATION FairSpec
PROPERTIES
    ContractSpec
    CloseLeavesNothing
CHECK_DEADLOCK FALSE
