\* A turn after an interrupted one.
CONSTANTS
    c1 = c1
    c2 = c2
    c3 = c3
    x1 = x1
    x2 = x2
    x3 = x3
    Callers = {c1, c2, c3}
    Closers = {x1, x2, x3}
    None = None
SPECIFICATION Spec
INVARIANT InterruptHitsActiveTurn
CHECK_DEADLOCK FALSE
