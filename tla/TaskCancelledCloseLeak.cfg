\* A close() that is cancelled.
SPECIFICATION Spec
CONSTANTS
    Invokers = {i1}
    Streamers = {s1}
    Closers = {k1, k2}
    Turns = {t1, t2}
    NoOne = NoOne
    NoTurn = NoTurn
    CallersCancelStartup = FALSE
    ClosersCancellable = TRUE
CHECK_DEADLOCK FALSE
INVARIANT
    ClosedIsCleanedUp
