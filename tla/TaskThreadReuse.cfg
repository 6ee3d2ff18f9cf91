\* A turn started after a cancelled one.
SPECIFICATION Spec
CONSTANTS
    Invokers = {i1}
    Streamers = {s1}
    Closers = {k1, k2}
    Turns = {t1, t2}
    NoOne = NoOne
    NoTurn = NoTurn
    CallersCancelStartup = FALSE
    ClosersCancellable = FALSE
CHECK_DEADLOCK FALSE
INVARIANT
    CancelledTurnStopsBeforeReuse
