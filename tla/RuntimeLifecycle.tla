-------------------------- MODULE RuntimeLifecycle --------------------------
(***************************************************************************)
(* CodexRuntime: start(), the ordered shutdown in close(), and the work    *)
(* that overlaps them: model invocations (_start_run, ainvoke, astream)    *)
(* and the creation of tasks and sessions.                                 *)
(*                                                                         *)
(* Every member of Starts, Closes, Runs and Views is one coroutine; an     *)
(* action is the code between two awaits.  An SDK client and a workspace   *)
(* bear the name of the coroutine that created them.  A closing task is    *)
(* one step here: its own steps are those of TaskLifecycle.                *)
(***************************************************************************)
EXTENDS Naturals, Sequences, FiniteSets

CONSTANTS
    Starts, Closes,  \* calls of start() and of close() by the host
    Runs,            \* model invocations
    Tasks, Sessions, \* calls of task() and of session()
    Orderly,         \* does the host start only when no start() or close() runs, and
                     \* repeat a close() that failed before it starts again?
    MaxFaults,       \* bound: cancellations and failures inside a clean-up
    None

ASSUME RuntimeAssumption == None \notin Starts /\ Orderly \in BOOLEAN /\ MaxFaults \in Nat

Views == Tasks \cup Sessions

(* Each member of the five sets is a coroutine of its own.                 *)
ASSUME CoroutinesAssumption ==
    /\ Starts \cap (Closes \cup Runs \cup Views) = {}
    /\ Closes \cap (Runs \cup Views) = {}
    /\ Runs \cap Views = {}
    /\ Tasks \cap Sessions = {}

Actors == Starts \cup Closes \cup Runs \cup Views
Closers == Starts \cup Closes \cup Runs  \* the coroutines that may be in close()

VARIABLES
    sdk, started, closed,  \* _sdk, _started, _closed
    sdks,        \* SDK clients that are open (external)
    tasks, sessions, activeRuns,   \* the three registries
    workspaces,
    lockQ,       \* _close_lock: its holder first, then the waiters
    pc,          \* where each coroutine stands
    cl,          \* where a coroutine stands in close()
    todo,        \* what the loop it is in has not handled yet
    stops,       \* RUNTIME_STOPPED events, RUNTIME_STARTED events
    begun,
    clean,       \* history: no creation was in flight when a close() began
    abandoned,   \* history: clients and workspaces left open by a cancellation, or by a
                 \* failure inside a clean-up, that nobody in the runtime will repair
    faults       \* history: the number of these (MaxFaults)

regVars == <<tasks, sessions, activeRuns, workspaces>>
sdkVars == <<sdk, started, closed, sdks>>
obsVars == <<stops, begun>>
histVars == <<clean, abandoned, faults>>
vars == <<sdkVars, regVars, lockQ, pc, cl, todo, obsVars, histVars>>

Init ==
    /\ clean = TRUE /\ abandoned = {} /\ faults = 0
    /\ sdk = None /\ started = FALSE /\ closed = FALSE /\ sdks = {}
    /\ tasks = {} /\ sessions = {} /\ activeRuns = {} /\ workspaces = {}
    /\ lockQ = << >>
    /\ pc = [a \in Actors |-> "idle"]
    /\ cl = [x \in Closers |-> "none"]
    /\ todo = [x \in Closers |-> {}]
    /\ stops = 0 /\ begun = 0

Goto(a, l) == pc' = [pc EXCEPT ![a] = l]

(* _require_started()                                                      *)
RequireStarted == started /\ ~closed /\ sdk # None

(* Something nobody planned for: a bounded number of times.                *)
Fault == faults < MaxFaults /\ faults' = faults + 1

Starting == \E s \in Starts : pc[s] \in {"connecting", "announcing"}

-----------------------------------------------------------------------------
(* start()                                                                 *)

StartBegin(s) ==
    /\ pc[s] = "idle"
    /\ Orderly => ~Starting /\ lockQ = << >> /\ ~(closed /\ sdk # None)
    /\ IF started /\ ~closed THEN Goto(s, "done") /\ UNCHANGED sdks
                             ELSE Goto(s, "connecting") /\ sdks' = sdks \cup {s}
    /\ UNCHANGED <<sdk, started, closed, regVars, lockQ, cl, todo, obsVars, histVars>>

(* Mutant: the client of a start that failed stays open.                   *)
StartFailsKeepsSdk(s) ==
    /\ pc[s] = "connecting"
    /\ Goto(s, "done")
    /\ UNCHANGED <<sdkVars, regVars, lockQ, cl, todo, obsVars, histVars>>

(* Authentication, the catalog or the configuration does not fit: the      *)
(* client is closed again.                                                 *)
StartFails(s) ==
    /\ pc[s] = "connecting"
    /\ sdks' = sdks \ {s}
    /\ Goto(s, "done")
    /\ UNCHANGED <<sdk, started, closed, regVars, lockQ, cl, todo, obsVars, histVars>>

(* start() is cancelled, which no except clause names, or the client of a  *)
(* failed start refuses to close: it stays open.                           *)
StartAbandons(s) ==
    /\ pc[s] = "connecting" /\ Fault
    /\ abandoned' = abandoned \cup {s}
    /\ Goto(s, "done")
    /\ UNCHANGED <<sdkVars, regVars, lockQ, cl, todo, obsVars, clean>>

StartInstalls(s) ==
    /\ pc[s] = "connecting"
    /\ sdk' = s /\ started' = TRUE /\ closed' = FALSE
    /\ begun' = begun + 1
    /\ Goto(s, "announcing")
    /\ UNCHANGED <<sdks, regVars, lockQ, cl, todo, stops, histVars>>

(* It returns, or is cancelled: the runtime has started.                   *)
StartReturns(s) ==
    /\ pc[s] = "announcing"
    /\ Goto(s, "done")
    /\ UNCHANGED <<sdkVars, regVars, lockQ, cl, todo, obsVars, histVars>>

-----------------------------------------------------------------------------
(* close()                                                                 *)

EnterClose(x, l) ==
    /\ lockQ' = Append(lockQ, x)
    /\ cl' = [cl EXCEPT ![x] = "lock"]
    /\ Goto(x, l)
    /\ UNCHANGED <<sdkVars, regVars, todo, obsVars, histVars>>

HostCloses(x) ==
    /\ x \in Closes /\ pc[x] = "idle"
    /\ Orderly => ~Starting
    /\ EnterClose(x, "closing")

(* A strict observer refuses RUNTIME_STARTED: start() closes and raises.   *)
StartRefused(s) == s \in Starts /\ pc[s] = "announcing" /\ EnterClose(s, "closing")

At(x, l) == cl[x] = l
To(x, l) == cl' = [cl EXCEPT ![x] = l]

(* How it ends matters to a run only.                                      *)
Raised(x) == To(x, IF x \in Runs THEN "raised" ELSE "returned")

LeaveClose(x) == lockQ' = Tail(lockQ) /\ To(x, "returned")
RaiseFromClose(x) == lockQ' = Tail(lockQ) /\ Raised(x)

(* Is anything being created whose registration close() cannot foresee?    *)
Creating == \E a \in Runs \cup Views : pc[a] = "starting"

(* Mutant: the transport goes first.                                       *)
HasLockSdkFirst(x) ==
    /\ At(x, "lock") /\ Head(lockQ) = x
    /\ closed' = TRUE /\ sdks' = sdks \ {sdk}
    /\ todo' = [todo EXCEPT ![x] = tasks]
    /\ To(x, "tasks")
    /\ UNCHANGED <<sdk, started, regVars, lockQ, pc, obsVars, histVars>>

HasLock(x) ==
    /\ At(x, "lock") /\ Head(lockQ) = x
    /\ IF closed /\ sdk = None
       THEN LeaveClose(x) /\ UNCHANGED <<closed, todo, clean>>
       ELSE /\ closed' = TRUE
            /\ todo' = [todo EXCEPT ![x] = tasks]
            /\ clean' = (clean /\ ~Creating)
            /\ To(x, "tasks")
            /\ UNCHANGED lockQ
    /\ UNCHANGED <<sdk, started, sdks, regVars, pc, obsVars, abandoned, faults>>

(* 1. The tasks of the snapshot are closed, then the registry is cleared;  *)
(* a task whose teardown was cancelled has nothing left to do.             *)
CloseTask(x) ==
    /\ At(x, "tasks")
    /\ \E t \in todo[x] :
          /\ todo' = [todo EXCEPT ![x] = @ \ {t}]
          /\ tasks' = tasks \ {t}
          /\ workspaces' = workspaces \ ({t} \ abandoned)
          /\ Goto(t, "done")
    /\ UNCHANGED <<sdkVars, sessions, activeRuns, lockQ, cl, obsVars, histVars>>

TasksClosed(x) ==
    /\ At(x, "tasks") /\ todo[x] = {}
    /\ tasks' = {}
    /\ todo' = [todo EXCEPT ![x] = activeRuns]
    /\ To(x, "runs")
    /\ UNCHANGED <<sdkVars, sessions, activeRuns, workspaces, lockQ, pc, obsVars, histVars>>

(* 2. Each run is interrupted and awaited for five seconds at most.        *)
(* Mutant: it is awaited until it is over.                                 *)
CloseRunUnbounded(x) ==
    /\ At(x, "runs")
    /\ \E r \in todo[x] : pc[r] = "done" /\ todo' = [todo EXCEPT ![x] = @ \ {r}]
    /\ UNCHANGED <<sdkVars, regVars, lockQ, pc, cl, obsVars, histVars>>

CloseRun(x) ==
    /\ At(x, "runs")
    /\ \E r \in todo[x] :
          /\ todo' = [todo EXCEPT ![x] = @ \ {r}]
          /\ activeRuns' = activeRuns \ {r}
    /\ UNCHANGED <<sdkVars, tasks, sessions, workspaces, lockQ, pc, cl, obsVars, histVars>>

RunsClosed(x) ==
    /\ At(x, "runs") /\ todo[x] = {}
    /\ activeRuns' = {}
    /\ todo' = [todo EXCEPT ![x] = sessions]
    /\ To(x, "sessions")
    /\ UNCHANGED <<sdkVars, tasks, sessions, workspaces, lockQ, pc, obsVars, histVars>>

(* 3. The turn of each session is interrupted, its workspace removed.  One *)
(* suppress() surrounds both, so that an interruption which raises skips   *)
(* the removal.                                                            *)
CloseSession(x) ==
    /\ At(x, "sessions")
    /\ \E v \in todo[x] :
          /\ todo' = [todo EXCEPT ![x] = @ \ {v}]
          /\ \/ workspaces' = workspaces \ {v} /\ UNCHANGED <<abandoned, faults>>
             \/ /\ pc[v] = "open" /\ Fault
                /\ abandoned' = abandoned \cup {v}
                /\ UNCHANGED workspaces
    /\ UNCHANGED <<sdkVars, tasks, sessions, activeRuns, lockQ, pc, cl, obsVars, clean>>

(* Mutant: sessions whose workspaces are gone stay registered.             *)
SessionsAfterCloseKept == sessions

SessionsAfterClose == {}

(* 4. and 5. The routes go (ToolBridge); the SDK of this moment is closed. *)
SessionsClosed(x) ==
    /\ At(x, "sessions") /\ todo[x] = {}
    /\ sessions' = SessionsAfterClose
    /\ todo' = [todo EXCEPT ![x] = IF sdk = None THEN {} ELSE {sdk}]
    /\ To(x, "sdk")
    /\ UNCHANGED <<sdkVars, tasks, activeRuns, workspaces, lockQ, pc, obsVars, histVars>>

(* 6. and 7. The flags; RUNTIME_STOPPED for a runtime that was started.    *)
(* Mutant: the event is dispatched whatever the runtime was.               *)
StopEventsAlways == 1

StopEvents == IF started THEN 1 ELSE 0

SdkClosed(x) ==
    /\ At(x, "sdk")
    /\ sdks' = sdks \ todo[x]
    /\ sdk' = None /\ started' = FALSE
    /\ stops' = stops + StopEvents
    /\ todo' = [todo EXCEPT ![x] = {}]
    /\ To(x, "bus")
    /\ UNCHANGED <<closed, regVars, lockQ, pc, begun, histVars>>

(* The transport refuses to close: close() raises, and can be repeated.    *)
SdkCloseFails(x) ==
    /\ At(x, "sdk") /\ todo[x] # {}
    /\ todo' = [todo EXCEPT ![x] = {}]
    /\ RaiseFromClose(x)
    /\ UNCHANGED <<sdkVars, regVars, pc, obsVars, histVars>>

(* 8. The event bus (EventBus); what a strict observer said is raised.     *)
BusCloses(x) ==
    /\ At(x, "bus")
    /\ LeaveClose(x) \/ RaiseFromClose(x)
    /\ UNCHANGED <<sdkVars, regVars, pc, todo, obsVars, histVars>>

(* close() is cancelled at any of its awaits, the one for the lock         *)
(* included, and gives the lock back.  Nothing is undone; a task whose     *)
(* teardown it was waiting in may be left half torn down.                  *)
InClose(x) == cl[x] \in {"lock", "tasks", "runs", "sessions", "sdk", "bus"}

CancelClose(x) ==
    /\ InClose(x) /\ Fault
    /\ \E i \in 1..Len(lockQ) :
          /\ lockQ[i] = x
          /\ lockQ' = [j \in 1..(Len(lockQ) - 1) |-> IF j < i THEN lockQ[j] ELSE lockQ[j + 1]]
    /\ \/ UNCHANGED abandoned
       \/ At(x, "tasks") /\ \E t \in todo[x] : abandoned' = abandoned \cup {t}
    /\ todo' = [todo EXCEPT ![x] = {}]
    /\ Raised(x)
    /\ UNCHANGED <<sdkVars, regVars, pc, obsVars, clean>>

-----------------------------------------------------------------------------
(* Model invocations.                                                      *)

Create(a) ==
    /\ pc[a] = "idle" /\ RequireStarted
    /\ workspaces' = workspaces \cup {a}
    /\ Goto(a, "starting")
    /\ UNCHANGED <<sdkVars, tasks, sessions, activeRuns, lockQ, cl, todo, obsVars, histVars>>

(* The thread or the turn cannot be started: the workspace is removed ...  *)
CreateFails(a) ==
    /\ pc[a] = "starting"
    /\ workspaces' = workspaces \ {a}
    /\ Goto(a, "done")
    /\ UNCHANGED <<sdkVars, tasks, sessions, activeRuns, lockQ, cl, todo, obsVars, histVars>>

(* ... unless it is a cancellation, which no except clause names.          *)
CreateCancelled(a) ==
    /\ pc[a] = "starting" /\ Fault
    /\ abandoned' = abandoned \cup {a}
    /\ Goto(a, "done")
    /\ UNCHANGED <<sdkVars, regVars, lockQ, cl, todo, obsVars, clean>>

RunRegisters(r) ==
    /\ pc[r] = "starting"
    /\ activeRuns' = activeRuns \cup {r}
    /\ Goto(r, "running")
    /\ UNCHANGED <<sdkVars, tasks, sessions, workspaces, lockQ, cl, todo, obsVars, histVars>>

(* The turn ends, or is interrupted; the finally clause, also after it     *)
(* has closed the runtime or when its own interruption is confirmed after  *)
(* a close() that raised.                                                  *)
RunEnds(r) ==
    /\ \/ pc[r] = "running"
       \/ pc[r] = "closing" /\ cl[r] \in {"returned", "raised"}
       \/ pc[r] = "reclosing" /\ At(r, "returned")
    /\ activeRuns' = activeRuns \ {r}
    /\ workspaces' = workspaces \ {r}
    /\ Goto(r, "done") /\ To(r, "none")
    /\ UNCHANGED <<sdkVars, tasks, sessions, lockQ, todo, obsVars, histVars>>

(* A turn that times out and does not confirm its interruption closes the  *)
(* runtime, from inside; the finally clause, which finds no terminal       *)
(* status, may do so again.                                                *)
RunInvalidates(r) ==
    \/ pc[r] = "running" /\ EnterClose(r, "closing")
    \/ pc[r] = "closing" /\ cl[r] \in {"returned", "raised"} /\ EnterClose(r, "reclosing")

(* A close() that raises inside the finally clause takes the rest of the   *)
(* clause with it: the workspace stays, and a registration that no close() *)
(* has cleared.                                                            *)
RunAbandons(r) ==
    /\ pc[r] \in {"closing", "reclosing"} /\ At(r, "raised")
    /\ abandoned' = abandoned \cup {r}
    /\ Goto(r, "done") /\ To(r, "none")
    /\ UNCHANGED <<sdkVars, regVars, lockQ, todo, obsVars, clean, faults>>

-----------------------------------------------------------------------------
(* Tasks and sessions: the registration follows the await of the thread.   *)

ViewRegisters(v) ==
    /\ pc[v] = "starting"
    /\ tasks' = tasks \cup ({v} \cap Tasks)
    /\ sessions' = sessions \cup ({v} \cap Sessions)
    /\ Goto(v, "announcing")
    /\ UNCHANGED <<sdkVars, activeRuns, workspaces, lockQ, cl, todo, obsVars, histVars>>

ViewReturned(v) ==
    /\ pc[v] = "announcing"
    /\ Goto(v, "open")
    /\ UNCHANGED <<sdkVars, regVars, lockQ, cl, todo, obsVars, histVars>>

(* A strict observer refuses the event, or the call is cancelled: the view *)
(* stays registered; session() removes the workspace when it was refused.  *)
ViewRefused(v) ==
    /\ pc[v] = "announcing"
    /\ workspaces' \in {workspaces, workspaces \ ({v} \cap Sessions)}
    /\ Goto(v, "lost")
    /\ UNCHANGED <<sdkVars, tasks, sessions, activeRuns, lockQ, cl, todo, obsVars, histVars>>

(* The host closes it: a task leaves the registry, a session stays there.  *)
ViewCloses(v) ==
    /\ pc[v] = "open"
    /\ tasks' = tasks \ {v}
    /\ workspaces' = workspaces \ {v}
    /\ Goto(v, "done")
    /\ UNCHANGED <<sdkVars, sessions, activeRuns, lockQ, cl, todo, obsVars, histVars>>

-----------------------------------------------------------------------------
CloseStep(x) ==
    \/ HasLock(x) \/ CloseTask(x) \/ TasksClosed(x) \/ CloseRun(x) \/ RunsClosed(x)
    \/ CloseSession(x) \/ SessionsClosed(x) \/ SdkClosed(x) \/ SdkCloseFails(x) \/ BusCloses(x)

Next ==
    \/ \E s \in Starts : StartBegin(s) \/ StartFails(s) \/ StartAbandons(s) \/ StartInstalls(s)
                         \/ StartReturns(s) \/ StartRefused(s)
    \/ \E x \in Closers : HostCloses(x) \/ CloseStep(x) \/ CancelClose(x)
    \/ \E a \in Runs \cup Views : Create(a) \/ CreateFails(a) \/ CreateCancelled(a)
    \/ \E r \in Runs : RunRegisters(r) \/ RunEnds(r) \/ RunInvalidates(r) \/ RunAbandons(r)
    \/ \E v \in Views : ViewRegisters(v) \/ ViewReturned(v) \/ ViewRefused(v) \/ ViewCloses(v)

Spec == Init /\ [][Next]_vars

(* The loop resumes a coroutine of close() whose await is over: the waits  *)
(* for runs have a time limit, a task's close() returns (TaskLiveness),    *)
(* and the SDK answers the two requests without a limit (the interruption  *)
(* of a session's turn, the closing of the transport).                     *)
FairSpec == Spec /\ \A x \in Closers : WF_vars(CloseStep(x))

-----------------------------------------------------------------------------
(* Properties.                                                             *)

(* Once the runtime is closed nothing is left: no SDK client, no entry in  *)
(* a registry, and no workspace but that of a run that still unwinds       *)
(* (close(), also when it is called by several coroutines, from inside a   *)
(* run, cancelled, or again after a failure).  Excepted are a start() that *)
(* overlaps; a creation that was awaiting its thread when close() began    *)
(* and registers behind its back; and what was abandoned: by a start(), a  *)
(* creation or a task's teardown that was cancelled, by the interruption   *)
(* of a session that raised, by a close() that raised in a finally clause. *)
(* RuntimeLeaks shows that each of these leaves something for good.        *)
ClosedLeavesNothing ==
    clean /\ closed /\ sdk = None /\ lockQ = << >> =>
        /\ sdks \ abandoned \subseteq {s \in Starts : pc[s] = "connecting"}
        /\ tasks = {} /\ sessions = {} /\ activeRuns = {}
        /\ \A w \in workspaces \ abandoned :
              w \in Runs /\ pc[w] \in {"running", "closing", "reclosing"}

(* Dependency order: as long as a task is open its SDK client is, so that  *)
(* the task can delete its thread (steps 1 and 5 of close()).              *)
OpenTaskHasSdk ==
    clean => \A t \in tasks : sdk # None /\ sdk \in sdks

(* There is one SDK client at most beside those that a cancelled or        *)
(* failing start() has abandoned, and a started runtime uses an open one   *)
(* that was not (start() and close() of a host that keeps them apart).     *)
OneSdk ==
    /\ Cardinality(sdks \ abandoned) <= 1
    /\ RequireStarted /\ lockQ = << >> => sdk \in sdks \ abandoned

(* RUNTIME_STOPPED is dispatched once for each time the runtime was        *)
(* started, however many coroutines close it.                              *)
StoppedOncePerStart ==
    stops <= begun /\ begun <= stops + 1

(* Every close() comes to an end, also when a run closes the runtime while *)
(* another close() waits for that run, because the waits are bounded: who  *)
(* is in close() is in the queue of _close_lock, and the queue empties.    *)
CloseTerminates == (lockQ # << >>) ~> (lockQ = << >>)

-----------------------------------------------------------------------------
(* A statement of the documentation that the code does not meet.           *)

(* "... and partial-start failure release exactly one SDK/process          *)
(* lifecycle without leaked work" (AC-P1-003), and close() "removes        *)
(* temporary workspaces": nothing is abandoned.                            *)
NothingAbandoned == abandoned = {}
=============================================================================
