\* Every close() returns, with a provider that answers, a consumer that goes on, and any
\* coroutine cancelled, those inside close() included.
SPECIFICATION FairSpec
CONSTANTS
    Invokers = {i1}
    Streamers = {s1}
    Closers = {k1, k2}
    Turns = {t1, t2}
    NoOne = NoOne
    NoTurn = NoTurn
    CallersCancelStartup = TRUE
    ClosersCancellable = TRUE
CHECK_DEADLOCK FALSE
INVARIANTS
    TurnOwnership
    NoTeardownUnderTurn
    ToolStateFinalisedOnce
    NoCloseWaitsInVain
PROPERTIES
    NoOwnershipAfterClosing
    CloseTerminates
