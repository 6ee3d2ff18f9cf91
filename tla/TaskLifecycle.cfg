\* Safety with every kind of cancellation outside close().
SPECIFICATION Spec
CONSTANTS
    Invokers = {i1}
    Streamers = {s1}
    Closers = {k1, k2, k3}
    Turns = {t1, t2, t3}
    NoOne = NoOne
    NoTurn = NoTurn
    CallersCancelStartup = TRUE
    ClosersCancellable = FALSE
SYMMETRY Symmetry
CHECK_DEADLOCK FALSE
INVARIANTS
    CloseReleasesEverything
    CloseReturnsAfterTeardown
PROPERTIES
    ContractSpec
