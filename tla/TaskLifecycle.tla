---------------------------- MODULE TaskLifecycle ----------------------------
(***************************************************************************)
(* One _CodexTask (providers/codex/runtime.py): turns started by ainvoke() *)
(* and astream(), public interrupt(), close() called by any number of      *)
(* coroutines, and what the task needs of its surroundings: the provider,  *)
(* which runs a turn on the task's thread, and the owning CodexRuntime,    *)
(* which may be closing.                                                   *)
(*                                                                         *)
(* Coroutines run on one event loop, so an action is the code between two  *)
(* awaits that can suspend.  pc[p] names the await at which coroutine p    *)
(* stands.  A call that is refused before it changes anything              *)
(* (SessionNotFoundError, SessionBusyError, ConfigurationError) is a       *)
(* stuttering step and has no action.                                      *)
(*                                                                         *)
(* asyncio.Lock does not let a newcomer overtake a waiter.  A caller tests *)
(* _lock.locked() and acquires the lock without an await in between, and   *)
(* only a close() that has left OPEN ever waits for it (NoCloseWaitsInVain *)
(* says so): a caller never waits, it is refused or gets the lock at once. *)
(***************************************************************************)
EXTENDS Naturals

CONSTANTS
    Invokers,             \* coroutines calling ainvoke()
    Streamers,            \* coroutines calling astream()
    Closers,              \* coroutines calling close(), the runtime's too
    Turns,                \* identities of provider turns; bounds their number
    NoOne, NoTurn,        \* None
    CallersCancelStartup, \* may a caller be cancelled during thread.turn()?
    ClosersCancellable    \* may a coroutine inside close() be cancelled?

Callers == Invokers \cup Streamers
Procs == Callers \cup Closers

ASSUME ProcsAssumption ==
    /\ Invokers \cap Streamers = {}
    /\ Callers \cap Closers = {}
    /\ NoOne \notin Procs

ASSUME TurnsAssumption == NoTurn \notin Turns

ASSUME FlagsAssumption ==
    /\ CallersCancelStartup \in BOOLEAN
    /\ ClosersCancellable \in BOOLEAN

VARIABLES
    state,            \* _state
    lock,             \* holder of _lock, the right to run a turn
    closeLock,        \* holder of _close_lock
    closeEvent,       \* _close_event.is_set()
    activeRun,        \* the turn of _active_run
    activeInvocation, \* _active_invocation_id
    pc,               \* where each coroutine stands
    turnOf,           \* the turn (TurnRun) a coroutine works on or waits for
    routes,           \* turns with a route in the tool multiplexer
    ended,            \* how often end_invocation was called for a turn
    cleaned,          \* turns whose cleanup closure has run (cleaned_up)
    terminal,         \* turns whose run has a terminal_status
    finished,         \* turns whose run has set its finished event
    prov,             \* the provider's side of each turn
    stopAsked,        \* turns the provider was asked to interrupt
    thread,           \* the task's provider thread
    workspace,        \* the task's temporary directory
    registered,       \* is the task in runtime._tasks?
    taskClosed,       \* number of TASK_CLOSED events in runtime.events
    diagnostics,      \* codes recorded by _record_diagnostic
    stopFailed,       \* history: an interruption by close() failed or timed out
    sdk,              \* the runtime: "up", "closing" (_closed) or "down" (_sdk None)
    late              \* was the task registered after close() listed the tasks?

runVars == <<activeRun, activeInvocation, routes, ended, cleaned, terminal, finished>>
closeVars == <<closeLock, closeEvent, diagnostics, stopFailed>>
resVars == <<thread, workspace, registered, taskClosed>>
envVars == <<sdk, late>>
outerVars == <<closeVars, resVars, envVars>>   \* what no turn touches
vars == <<state, lock, pc, turnOf, prov, stopAsked, runVars, outerVars>>

TaskState == {"OPEN", "CLOSING", "CLOSED"}

(* Awaits of a caller: in thread.turn(); in the interrupt of a turn it may *)
(* not keep; reading the provider's stream; suspended at a yield; in the   *)
(* handler of a cancellation inside events(); in _interrupt_active_run();  *)
(* publishing the failure of a stream that ended without a terminal event. *)
RunPC == {"consuming", "paused", "unwinding", "draining", "lastEvent"}
CallerPC == {"idle", "starting", "aborting"} \cup RunPC

(* Awaits of close(): for _close_lock, for the teardown of another call,   *)
(* for the interruption, for the run to finish, for _lock, for the         *)
(* provider's deletion of the thread, for the observers of TASK_CLOSED.    *)
TeardownPC == {"interrupting", "waitFinished", "waitTurn", "deleting"}
CloserPC == {"idle", "waitCloseLock", "waitEvent", "announcing", "done"} \cup TeardownPC

Init ==
    /\ state = "OPEN"
    /\ lock = NoOne /\ closeLock = NoOne /\ closeEvent = FALSE
    /\ activeRun = NoTurn /\ activeInvocation = NoTurn
    /\ pc = [p \in Procs |-> "idle"]
    /\ turnOf = [p \in Procs |-> NoTurn]
    /\ routes = {} /\ cleaned = {} /\ terminal = {} /\ finished = {}
    /\ ended = [t \in Turns |-> 0]
    /\ prov = [t \in Turns |-> "unused"]
    /\ stopAsked = {}
    /\ thread = "live" /\ workspace = "present"
    /\ registered = TRUE /\ taskClosed = 0
    /\ diagnostics = {} /\ stopFailed = FALSE
    /\ sdk \in {"up", "closing"}
    /\ late = (sdk = "closing")

Goto(p, l) == pc' = [pc EXCEPT ![p] = l]
SetTurn(p, t) == turnOf' = [turnOf EXCEPT ![p] = t]
AskStop(t) == stopAsked' = stopAsked \cup {t}

(* A step of p that only moves on to its next await.                       *)
Move(p, l) ==
    /\ Goto(p, l)
    /\ UNCHANGED <<state, lock, turnOf, prov, stopAsked, runVars, outerVars>>

-----------------------------------------------------------------------------
(* Turns: ainvoke(), astream(), _start_turn() and TurnRun.events().        *)

(* The lock, and the request for a provider turn.                          *)
Reserve(c, t) ==
    /\ pc[c] = "idle"
    /\ lock = NoOne
    /\ prov[t] = "unused"
    /\ lock' = c
    /\ Goto(c, "starting")
    /\ SetTurn(c, t)
    /\ prov' = [prov EXCEPT ![t] = "requested"]
    /\ UNCHANGED <<state, stopAsked, runVars, outerVars>>

(* Mutant: the task is not tested for being open.                          *)
BeginUnchecked(c, t) == Reserve(c, t)

(* Both entry points: _ensure_open and the busy test come first.           *)
Begin(c, t) == state = "OPEN" /\ Reserve(c, t)

(* The end of a call that owns no run: the lock is released; astream()     *)
(* resets the active fields in its finally, ainvoke() has no such block    *)
(* around _start_turn().                                                   *)
LeaveStartup(c) ==
    /\ lock' = NoOne
    /\ Goto(c, "idle")
    /\ SetTurn(c, NoTurn)
    /\ activeRun' = IF c \in Streamers THEN NoTurn ELSE activeRun
    /\ activeInvocation' = IF c \in Streamers THEN NoTurn ELSE activeInvocation
    /\ UNCHANGED <<state, stopAsked, routes, ended, cleaned, terminal, finished, outerVars>>

(* thread.turn() raises: the provider refuses the turn.                    *)
StartFails(c) ==
    /\ pc[c] = "starting"
    /\ prov[turnOf[c]] = "requested"
    /\ prov' = [prov EXCEPT ![turnOf[c]] = "refused"]
    /\ LeaveStartup(c)

(* The caller is cancelled in thread.turn(): no handle, nothing to         *)
(* interrupt; whatever was sent to the provider stays with the provider.   *)
CancelStart(c) ==
    /\ CallersCancelStartup
    /\ pc[c] = "starting"
    /\ LeaveStartup(c)
    /\ UNCHANGED prov

(* thread.turn() returned a handle.                                        *)
Handed(c) == pc[c] = "starting" /\ prov[turnOf[c]] \in {"running", "ended"}

(* The tool route is registered and the run becomes the active one (a task *)
(* always has tools: task() refuses to create one without a registry).     *)
Adopt(c, route) ==
    /\ activeInvocation' = turnOf[c]
    /\ routes' = routes \cup {route}
    /\ activeRun' = turnOf[c]
    /\ Goto(c, "consuming")
    /\ UNCHANGED <<state, lock, turnOf, prov, stopAsked, ended, cleaned, terminal, finished,
                   outerVars>>

(* Mutant: no second test of the state after thread.turn().                *)
TurnStartedUnchecked(c) == Handed(c) /\ sdk = "up" /\ Adopt(c, turnOf[c])

(* The task is still open and its runtime started.                         *)
TurnStarted(c) == Handed(c) /\ state = "OPEN" /\ sdk = "up" /\ Adopt(c, turnOf[c])

(* A close() began while thread.turn() was pending: the handle is          *)
(* interrupted instead.                                                    *)
StartRejected(c) ==
    /\ Handed(c)
    /\ state # "OPEN"
    /\ AskStop(turnOf[c])
    /\ Goto(c, "aborting")
    /\ UNCHANGED <<state, lock, turnOf, prov, runVars, outerVars>>

(* The task is open but its runtime is closing: _require_started() raises  *)
(* after the invocation id was recorded; same handler.                     *)
BridgeRefused(c) ==
    /\ Handed(c)
    /\ state = "OPEN"
    /\ sdk # "up"
    /\ activeInvocation' = turnOf[c]
    /\ AskStop(turnOf[c])
    /\ Goto(c, "aborting")
    /\ UNCHANGED <<state, lock, turnOf, prov, activeRun, routes, ended, cleaned, terminal,
                   finished, outerVars>>

AbortDone(c) ==
    /\ pc[c] = "aborting"
    /\ LeaveStartup(c)
    /\ UNCHANGED prov

(* Mutant: cleanup without its cleaned_up flag.                            *)
CleanupTurnRepeated(t) ==
    /\ routes' = routes \ {t}
    /\ cleaned' = cleaned \cup {t}
    /\ ended' = [ended EXCEPT ![t] = @ + 1]

(* _cleanup_turn: unregister the route and end the invocation, once.       *)
CleanupTurn(t) ==
    IF t \notin cleaned
    THEN /\ routes' = routes \ {t}
         /\ cleaned' = cleaned \cup {t}
         /\ ended' = [ended EXCEPT ![t] = @ + 1]
    ELSE UNCHANGED <<routes, cleaned, ended>>

MarkFinished(c) == finished' = finished \cup {turnOf[c]}

(* The finally block of events(): the cleanup, then the finished event.    *)
Finalise(c) == CleanupTurn(turnOf[c]) /\ MarkFinished(c)

(* Mutant: _active_run is not reset.                                       *)
ReleaseTurnKeepsActive(c) ==
    /\ activeRun' = activeRun
    /\ activeInvocation' = NoTurn
    /\ lock' = NoOne
    /\ Goto(c, "idle")
    /\ SetTurn(c, NoTurn)

(* The finally blocks of ainvoke() and astream(), after the cleanup.       *)
ReleaseTurn(c) ==
    /\ activeRun' = NoTurn
    /\ activeInvocation' = NoTurn
    /\ lock' = NoOne
    /\ Goto(c, "idle")
    /\ SetTurn(c, NoTurn)

(* _interrupt_active_run(): ask, and wait for the grace period.            *)
Drain(c) ==
    /\ AskStop(turnOf[c])
    /\ Goto(c, "draining")
    /\ UNCHANGED <<activeRun, activeInvocation, lock, turnOf>>

(* What no action on a run touches.                                        *)
RunFrame == UNCHANGED <<state, prov, outerVars>>

(* An event of a running turn reaches the consumer of astream(), and the   *)
(* consumer asks for the next one.                                         *)
Yield(c) ==
    /\ c \in Streamers
    /\ pc[c] = "consuming"
    /\ prov[turnOf[c]] = "running"
    /\ Move(c, "paused")

Pull(c) == pc[c] = "paused" /\ Move(c, "consuming")

(* "turn/completed" of any status is read; astream() yields the event.     *)
Terminal(c) ==
    /\ pc[c] = "consuming"
    /\ prov[turnOf[c]] = "ended"
    /\ turnOf[c] \notin terminal
    /\ terminal' = terminal \cup {turnOf[c]}
    /\ Goto(c, IF c \in Streamers THEN "paused" ELSE "consuming")
    /\ UNCHANGED <<lock, turnOf, stopAsked, activeRun, activeInvocation, routes, ended, cleaned,
                   finished>>
    /\ RunFrame

(* The stream ends, or fails, after its terminal event.                    *)
Finish(c) ==
    /\ pc[c] = "consuming"
    /\ turnOf[c] \in terminal
    /\ Finalise(c)
    /\ ReleaseTurn(c)
    /\ UNCHANGED <<stopAsked, terminal>>
    /\ RunFrame

(* The stream raises: events() finalises the run; astream() finds no       *)
(* terminal status and interrupts, ainvoke() does not.                     *)
StreamBreaks(c) ==
    /\ pc[c] = "consuming"
    /\ turnOf[c] \notin terminal
    /\ Finalise(c)
    /\ IF c \in Streamers THEN Drain(c) ELSE ReleaseTurn(c) /\ UNCHANGED stopAsked
    /\ UNCHANGED terminal
    /\ RunFrame

(* The stream ends without a terminal event: the run is finalised first    *)
(* and the failure published afterwards.                                   *)
MissingTerminal(c) ==
    /\ pc[c] = "consuming"
    /\ turnOf[c] \notin terminal
    /\ Finalise(c)
    /\ Goto(c, "lastEvent")
    /\ UNCHANGED <<lock, turnOf, stopAsked, activeRun, activeInvocation, terminal>>
    /\ RunFrame

LastEvent(c) ==
    /\ pc[c] = "lastEvent"
    /\ IF c \in Streamers THEN Drain(c) ELSE ReleaseTurn(c) /\ UNCHANGED stopAsked
    /\ UNCHANGED <<routes, ended, cleaned, terminal, finished>>
    /\ RunFrame

(* The turn's timeout, or a cancellation of the caller: events() asks for  *)
(* an interruption and publishes CANCELLED ...                             *)
CancelTurn(c) ==
    /\ pc[c] = "consuming"
    /\ AskStop(turnOf[c])
    /\ Goto(c, "unwinding")
    /\ UNCHANGED <<lock, turnOf, runVars>>
    /\ RunFrame

(* ... finalises the run, and the caller asks once more ...                *)
Unwound(c) ==
    /\ pc[c] = "unwinding"
    /\ Finalise(c)
    /\ Drain(c)
    /\ UNCHANGED terminal
    /\ RunFrame

(* ... and leaves, whether or not the provider confirmed within the grace  *)
(* period: _interrupt_active_run() swallows the failure.                   *)
DrainDone(c) ==
    /\ pc[c] = "draining"
    /\ Finalise(c)
    /\ ReleaseTurn(c)
    /\ UNCHANGED <<stopAsked, terminal>>
    /\ RunFrame

(* The consumer closes or abandons the iterator at a yield.  The event     *)
(* generator is finalised by the loop a little later.                      *)
CloseStream(c) ==
    /\ pc[c] = "paused"
    /\ CleanupTurn(turnOf[c])
    /\ IF turnOf[c] \in terminal
       THEN MarkFinished(c) /\ ReleaseTurn(c) /\ UNCHANGED stopAsked
       ELSE Drain(c) /\ UNCHANGED finished
    /\ UNCHANGED terminal
    /\ RunFrame

(* Public interrupt(): only while open, only with an active run.           *)
Interrupt ==
    /\ state = "OPEN"
    /\ activeRun # NoTurn
    /\ AskStop(activeRun)
    /\ UNCHANGED <<state, lock, pc, turnOf, prov, runVars, outerVars>>

-----------------------------------------------------------------------------
(* close().  _close_lock is held across an await only by a call that waits *)
(* for another call's teardown.                                            *)

CloseQueue(k) == pc[k] = "idle" /\ closeLock # NoOne /\ Move(k, "waitCloseLock")

EntersClose(k) == pc[k] \in {"idle", "waitCloseLock"} /\ closeLock = NoOne

CloseNoop(k) == EntersClose(k) /\ state = "CLOSED" /\ Move(k, "done")

SetCloseLock(p) ==
    /\ closeLock' = p
    /\ UNCHANGED <<state, lock, turnOf, prov, stopAsked, runVars, closeEvent, diagnostics,
                   stopFailed, resVars, envVars>>

(* Mutant: a call that finds CLOSING tears down as well.                   *)
CloseJoinTwice(k) == EntersClose(k) /\ state = "CLOSING" /\ Move(k, "waitTurn")

CloseJoin(k) ==
    /\ EntersClose(k)
    /\ state = "CLOSING"
    /\ Goto(k, "waitEvent")
    /\ SetCloseLock(k)

(* Mutant: a concurrent close() returns without waiting for the event.     *)
EventNotAwaited(k) == pc[k] = "waitEvent" /\ Goto(k, "done") /\ SetCloseLock(NoOne)

EventSet(k) ==
    /\ pc[k] = "waitEvent"
    /\ closeEvent
    /\ Goto(k, "done")
    /\ SetCloseLock(NoOne)

(* The interruption of the active run, if there is one.                    *)
BeginTeardown(k) ==
    /\ IF activeRun # NoTurn
       THEN AskStop(activeRun) /\ Goto(k, "interrupting")
       ELSE UNCHANGED stopAsked /\ Goto(k, "waitTurn")
    /\ UNCHANGED <<lock, turnOf, prov, runVars, outerVars>>

(* The call that closes the task.                                          *)
CloseBegin(k) == EntersClose(k) /\ state = "OPEN" /\ state' = "CLOSING" /\ BeginTeardown(k)

(* What waiting for an active run does not touch.                          *)
WaitFrame ==
    UNCHANGED <<state, lock, prov, stopAsked, runVars, closeLock, closeEvent, resVars, envVars>>

(* interrupt() returned.  self._active_run is read again: None by now if   *)
(* the turn has ended, and the AttributeError is recorded as a failure.    *)
InterruptReturned(k) ==
    /\ pc[k] = "interrupting"
    /\ SetTurn(k, activeRun)
    /\ IF activeRun # NoTurn
       THEN Goto(k, "waitFinished") /\ UNCHANGED diagnostics
       ELSE Goto(k, "waitTurn") /\ diagnostics' = diagnostics \cup {"interrupt_failed"}
    /\ UNCHANGED stopFailed
    /\ WaitFrame

(* interrupt() raised, or it or the run did not finish within 5 seconds.   *)
InterruptFailed(k) ==
    /\ pc[k] \in {"interrupting", "waitFinished"}
    /\ diagnostics' = diagnostics \cup {"interrupt_failed"}
    /\ stopFailed' = TRUE
    /\ SetTurn(k, NoTurn)
    /\ Goto(k, "waitTurn")
    /\ WaitFrame

RunFinished(k) ==
    /\ pc[k] = "waitFinished"
    /\ turnOf[k] \in finished
    /\ SetTurn(k, NoTurn)
    /\ Goto(k, "waitTurn")
    /\ UNCHANGED <<diagnostics, stopFailed>>
    /\ WaitFrame

(* Step 3 of close(): turn-level tool state that is still there.  A run    *)
(* that has finished has dropped its cleanup closure.                      *)
EndTurnState ==
    IF activeRun # NoTurn /\ activeRun \notin finished
    THEN CleanupTurn(activeRun)
    ELSE /\ ended' = IF activeInvocation # NoTurn
                     THEN [ended EXCEPT ![activeInvocation] = @ + 1] ELSE ended
         /\ UNCHANGED <<routes, cleaned>>

(* Mutant: the event is never set.                                         *)
CloseStateWithoutEvent(k) ==
    /\ state' = "CLOSED"
    /\ closeEvent' = closeEvent
    /\ taskClosed' = taskClosed + 1
    /\ Goto(k, "announcing")

(* The finally block of close(): CLOSED, the event, TASK_CLOSED.           *)
CloseState(k) ==
    /\ state' = "CLOSED"
    /\ closeEvent' = TRUE
    /\ taskClosed' = taskClosed + 1
    /\ Goto(k, "announcing")

(* Mutant: the task stays in the registry.                                 *)
DestroyRestKeepsRegistered(k) ==
    /\ workspace' \in {"removed", "left"}
    /\ lock' = NoOne
    /\ CloseState(k)
    /\ UNCHANGED <<registered, closeLock, stopFailed, turnOf, prov, stopAsked, envVars>>

(* Steps 5 and 6 of close(): the directory, with errors ignored, and the   *)
(* registry; then the lock and the finally block.                          *)
DestroyRest(k) ==
    /\ workspace' \in {"removed", "left"}
    /\ registered' = FALSE
    /\ lock' = NoOne
    /\ CloseState(k)
    /\ UNCHANGED <<closeLock, stopFailed, turnOf, prov, stopAsked, envVars>>

(* Step 4: the thread is deleted through the SDK.                          *)
DeleteThread(k) ==
    /\ EndTurnState
    /\ lock' = k
    /\ Goto(k, "deleting")
    /\ UNCHANGED <<state, turnOf, prov, stopAsked, activeRun, activeInvocation, terminal,
                   finished, outerVars>>

(* Mutant: the thread is deleted without waiting for the turn lock.        *)
AcquireTurnNoWait(k) == pc[k] = "waitTurn" /\ sdk # "down" /\ DeleteThread(k)

(* close() gets the turn lock ...                                          *)
AcquireTurn(k) == pc[k] = "waitTurn" /\ lock = NoOne /\ sdk # "down" /\ DeleteThread(k)

(* ... or gets it when there is no SDK left to delete the thread with.     *)
AcquireTurnNoSdk(k) ==
    /\ pc[k] = "waitTurn"
    /\ lock = NoOne
    /\ sdk = "down"
    /\ EndTurnState
    /\ DestroyRest(k)
    /\ UNCHANGED <<activeRun, activeInvocation, terminal, finished, diagnostics, thread>>

DeleteReturned(k) ==
    /\ pc[k] = "deleting"
    /\ thread' = "deleted"
    /\ DestroyRest(k)
    /\ UNCHANGED <<runVars, diagnostics>>

DeleteFailed(k) ==
    /\ pc[k] = "deleting"
    /\ diagnostics' = diagnostics \cup {"provider_delete_failed"}
    /\ DestroyRest(k)
    /\ UNCHANGED <<runVars, thread>>

Announced(k) == pc[k] = "announcing" /\ Move(k, "done")

(* A cancellation inside the teardown runs the finally block only: CLOSED, *)
(* the event and TASK_CLOSED, and none of the remaining cleanup steps.     *)
CancelTeardown(k) ==
    /\ ClosersCancellable
    /\ pc[k] \in TeardownPC
    /\ lock' = IF pc[k] = "deleting" THEN NoOne ELSE lock
    /\ CloseState(k)
    /\ SetTurn(k, NoTurn)
    /\ UNCHANGED <<prov, stopAsked, runVars, closeLock, diagnostics, stopFailed, thread,
                   workspace, registered, envVars>>

(* A cancellation of a call that only waits; it may call close() again.    *)
CancelWaiting(k) ==
    /\ ClosersCancellable
    /\ pc[k] \in {"waitCloseLock", "waitEvent"}
    /\ Goto(k, "idle")
    /\ SetCloseLock(IF pc[k] = "waitEvent" THEN NoOne ELSE closeLock)

-----------------------------------------------------------------------------
(* The surroundings.                                                       *)

SetProv(t, from, to) ==
    /\ prov[t] = from
    /\ prov' = [prov EXCEPT ![t] = to]
    /\ UNCHANGED <<state, lock, pc, turnOf, stopAsked, runVars, outerVars>>

(* The provider starts a turn it was asked for, and ends one it runs.      *)
ProviderStarts(t) == sdk # "down" /\ SetProv(t, "requested", "running")
ProviderEnds(t) == SetProv(t, "running", "ended")

(* CodexRuntime.close() sets _closed; it calls close() on the tasks it     *)
(* finds registered (one of the Closers) ...                               *)
RuntimeClosing ==
    /\ sdk = "up"
    /\ sdk' = "closing"
    /\ UNCHANGED <<state, lock, pc, turnOf, prov, stopAsked, runVars, closeVars, resVars, late>>

(* ... clears the registry, and drops the SDK once those calls returned.   *)
(* A task registered after the list was taken is not waited for, and is    *)
(* forgotten unless it was registered after the clearing.                  *)
SdkDown ==
    /\ sdk = "closing"
    /\ late \/ state = "CLOSED"
    /\ sdk' = "down"
    /\ registered' \in IF late THEN {registered, FALSE} ELSE {FALSE}
    /\ UNCHANGED <<state, lock, pc, turnOf, prov, stopAsked, runVars, closeVars, thread,
                   workspace, taskClosed, late>>

-----------------------------------------------------------------------------
CallerStep(c) ==
    \/ \E t \in Turns : Begin(c, t)
    \/ StartFails(c) \/ CancelStart(c)
    \/ TurnStarted(c) \/ StartRejected(c) \/ BridgeRefused(c) \/ AbortDone(c)
    \/ Yield(c) \/ Pull(c) \/ Terminal(c) \/ Finish(c)
    \/ StreamBreaks(c) \/ MissingTerminal(c) \/ LastEvent(c)
    \/ CancelTurn(c) \/ Unwound(c) \/ DrainDone(c) \/ CloseStream(c)

CloserStep(k) ==
    \/ CloseQueue(k) \/ CloseNoop(k) \/ CloseJoin(k) \/ EventSet(k)
    \/ CloseBegin(k) \/ InterruptReturned(k) \/ InterruptFailed(k) \/ RunFinished(k)
    \/ AcquireTurn(k) \/ AcquireTurnNoSdk(k) \/ DeleteReturned(k) \/ DeleteFailed(k)
    \/ Announced(k)
    \/ CancelTeardown(k) \/ CancelWaiting(k)

EnvStep ==
    \/ Interrupt
    \/ \E t \in Turns : ProviderStarts(t) \/ ProviderEnds(t)
    \/ RuntimeClosing \/ SdkDown

Next ==
    \/ \E c \in Callers : CallerStep(c)
    \/ \E k \in Closers : CloserStep(k)
    \/ EnvStep

Spec == Init /\ [][Next]_vars

(* What the event loop alone guarantees: a coroutine whose await is over   *)
(* runs, and the 5-second limits of wait_for() expire.                     *)
LoopFairness ==
    /\ \A c \in Callers :
          /\ WF_vars(TurnStarted(c) \/ StartRejected(c) \/ BridgeRefused(c))
          /\ WF_vars(Terminal(c)) /\ WF_vars(Finish(c))
          /\ WF_vars(LastEvent(c)) /\ WF_vars(DrainDone(c))
    /\ \A k \in Closers :
          /\ WF_vars(CloseNoop(k) \/ CloseJoin(k) \/ EventSet(k))
          /\ WF_vars(InterruptReturned(k) \/ InterruptFailed(k))
          /\ WF_vars(RunFinished(k) \/ InterruptFailed(k))
          /\ WF_vars(AcquireTurn(k) \/ AcquireTurnNoSdk(k))
          /\ WF_vars(Announced(k))

(* A provider that answers requests and ends a turn it was asked to end.   *)
(* No await of these answers has a time limit in the code.                 *)
ProviderFairness ==
    /\ \A t \in Turns :
          /\ WF_vars(ProviderStarts(t) \/ \E c \in Callers : turnOf[c] = t /\ StartFails(c))
          /\ WF_vars(t \in stopAsked /\ ProviderEnds(t))
    /\ \A c \in Callers : WF_vars(AbortDone(c)) /\ WF_vars(Unwound(c))
    /\ \A k \in Closers : WF_vars(DeleteReturned(k) \/ DeleteFailed(k))

(* A consumer of astream() that keeps iterating or closes the iterator.    *)
ConsumerFairness == \A c \in Streamers : WF_vars(Pull(c) \/ CloseStream(c))

FairSpec == Spec /\ LoopFairness /\ ProviderFairness /\ ConsumerFairness

(* The same without any promise from the consumer of a stream.             *)
IdleConsumerSpec == Spec /\ LoopFairness /\ ProviderFairness

-----------------------------------------------------------------------------
(* Properties.                                                             *)

InTurn(c) == pc[c] # "idle"
TornDown == thread # "live" \/ workspace # "present"

(* Type invariant of the task's fields, the coroutines and the provider.   *)
TypeOK ==
    /\ state \in TaskState
    /\ lock \in Procs \cup {NoOne} /\ closeLock \in Closers \cup {NoOne}
    /\ closeEvent \in BOOLEAN
    /\ activeRun \in Turns \cup {NoTurn} /\ activeInvocation \in Turns \cup {NoTurn}
    /\ pc \in [Procs -> CallerPC \cup CloserPC]
    /\ \A c \in Callers : pc[c] \in CallerPC
    /\ \A k \in Closers : pc[k] \in CloserPC
    /\ turnOf \in [Procs -> Turns \cup {NoTurn}]
    /\ routes \subseteq Turns /\ cleaned \subseteq Turns
    /\ terminal \subseteq Turns /\ finished \subseteq Turns /\ stopAsked \subseteq Turns
    /\ ended \in [Turns -> Nat]
    /\ prov \in [Turns -> {"unused", "requested", "refused", "running", "ended"}]
    /\ thread \in {"live", "deleted"} /\ workspace \in {"present", "removed", "left"}
    /\ registered \in BOOLEAN /\ taskClosed \in Nat
    /\ diagnostics \subseteq {"interrupt_failed", "tool_state_failed",
                             "provider_delete_failed", "workspace_failed"}
    /\ stopFailed \in BOOLEAN
    /\ sdk \in {"up", "closing", "down"} /\ late \in BOOLEAN

(* At most one coroutine is inside a turn, it is the holder of _lock, and  *)
(* _active_run is the run of that very coroutine: interrupt() and close()  *)
(* never reach a run whose owner has left (ainvoke/astream finally blocks).*)
TurnOwnership ==
    /\ \A c \in Callers : InTurn(c) => lock = c
    /\ activeRun # NoTurn =>
          \E c \in Callers : lock = c /\ pc[c] \in RunPC /\ turnOf[c] = activeRun

(* Provider thread and workspace are not destroyed, nor being destroyed,   *)
(* while a turn is starting or running (_CodexTask.close takes _lock).     *)
NoTeardownUnderTurn ==
    (TornDown \/ \E k \in Closers : pc[k] = "deleting") =>
        \A c \in Callers : ~InTurn(c)

(* Once close() has left OPEN no turn acquires ownership, not even one     *)
(* whose thread.turn() was already pending (_start_turn's second test).    *)
NoOwnershipAfterClosing ==
    [][activeRun' \in {activeRun, NoTurn} \/ (state = "OPEN" /\ state' = "OPEN")]_vars

(* end_invocation() is called exactly once for a turn that became active:  *)
(* never twice, and not later than the release of the turn lock, on every  *)
(* way out of a turn (_cleanup_turn and step 3 of close()).  Until then    *)
(* only the active run has a tool route, which is gone when the run says   *)
(* that it finished: that is what close() waits for.                       *)
ToolStateFinalisedOnce ==
    /\ \A t \in Turns : ended[t] <= 1
    /\ \A t \in cleaned : ended[t] = 1
    /\ lock = NoOne => routes = {}
    /\ routes \subseteq {activeRun}
    /\ routes \cap finished = {}

(* A close() that ran to its end attempted every step: nothing is left     *)
(* registered, the directory was removed as far as possible and the thread *)
(* is deleted, or its survival has a reason (a diagnostic, a lost SDK).    *)
CloseReleasesEverything ==
    state = "CLOSED" =>
        /\ ~registered
        /\ workspace # "present"
        /\ thread = "live" => "provider_delete_failed" \in diagnostics \/ sdk = "down"

(* No call of close() returns before the teardown is over, also when       *)
(* another call performs it (_close_event).                                *)
CloseReturnsAfterTeardown ==
    \A k \in Closers : pc[k] = "done" =>
        /\ state = "CLOSED"
        /\ workspace # "present"
        /\ \A c \in Callers : ~InTurn(c)

(* No call of close() waits for something that nobody will bring about,    *)
(* whichever calls were cancelled on the way: a CLOSING task has one call  *)
(* that tears it down; _close_lock is kept only by a call that waits for   *)
(* the event, which is set or will be set by that teardown; and a teardown *)
(* waits for _lock only while a caller is inside a turn.  So the waits of  *)
(* close() form no cycle.  An OPEN task is not being torn down, hence a    *)
(* caller never queues for _lock behind a close().                         *)
NoCloseWaitsInVain ==
    LET tornDownBy == {k \in Closers : pc[k] \in TeardownPC} IN
    /\ state = "CLOSING" => tornDownBy # {}
    /\ \A j, k \in tornDownBy : j = k /\ state # "OPEN"
    /\ closeLock # NoOne => pc[closeLock] = "waitEvent"
    /\ \A k \in Closers :
          /\ pc[k] = "waitEvent" => closeLock = k /\ (closeEvent \/ tornDownBy # {})
          /\ pc[k] = "waitTurn" /\ lock # NoOne => lock \in Callers /\ InTurn(lock)

(* TASK_CLOSED is emitted exactly once, by the transition to CLOSED, under *)
(* any number of concurrent calls of close().                              *)
TaskClosedOnce == taskClosed = IF state = "CLOSED" THEN 1 ELSE 0

(* Every call of close() returns, and the task reaches CLOSED, provided    *)
(* the provider answers and the consumer of a stream goes on or stops.     *)
CloseTerminates == \A k \in Closers : (pc[k] # "idle") ~> (pc[k] = "done")

(* The task implements the contract: the lifecycle of core/task.py.        *)
turnOfTask == IF activeRun # NoTurn THEN "active"
              ELSE IF lock \in Callers THEN "starting" ELSE "none"
Contract == INSTANCE TaskContract WITH turn <- turnOfTask
ContractSpec == Contract!Spec

-----------------------------------------------------------------------------
(* Statements of the documentation that the code does not meet.            *)

(* close() waits a bounded grace period for an active turn and completes,  *)
(* whatever the consumer of a stream does (CAL-REQ-014, step 2).           *)
CloseIsBounded == (state = "CLOSING") ~> (state = "CLOSED")

(* A closed task has left the registry and its directory was removed, also *)
(* when close() itself was cancelled (CAL-REQ-013, CAL-REQ-014b).          *)
ClosedIsCleanedUp == state = "CLOSED" => workspace # "present" /\ ~registered

(* The diagnostic of a failed interruption is recorded only when an        *)
(* interruption did fail (close(), the second read of _active_run).        *)
DiagnosticMeansFailure == "interrupt_failed" \in diagnostics => stopFailed

(* Interrupting a turn stops it at the provider before the thread is used  *)
(* again: no other turn runs on the task's thread beside an interrupted    *)
(* one (_interrupt_active_run swallows a missing confirmation).            *)
CancelledTurnStopsBeforeReuse ==
    \A t, u \in Turns :
        t # u /\ t \in stopAsked \cap finished /\ prov[t] = "running" => prov[u] # "running"
=============================================================================
