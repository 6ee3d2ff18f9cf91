------------------------------ MODULE FakeTask ------------------------------
(***************************************************************************)
(* FakeTask (testing/fakes.py), the in-memory task with which hosts test   *)
(* their code: turns, interrupt() and close(), and the scripted turn that  *)
(* FakeRuntime runs for it.  A second implementation of TaskContract.      *)
(*                                                                         *)
(* A caller is one call of ainvoke() or astream(), a closer one call of    *)
(* close(); an action is the code between two awaits.  Any of them may be  *)
(* cancelled, except the one close() that runs the teardown: cancelled     *)
(* there it declares the task closed and cleans up nothing, the same flaw  *)
(* as in the Codex task (TaskLifecycle, ClosersCancellable).               *)
(***************************************************************************)
EXTENDS Naturals, Sequences

CONSTANTS
    Callers, Closers,
    None

ASSUME FakeAssumption ==
    /\ Callers \cap Closers = {} /\ None \notin Callers \cup Closers

VARIABLES
    state,           \* TaskState
    active,          \* _active
    interrupted,     \* _interrupted
    invocation,      \* _active_invocation_id
    lockQ,           \* _lock: its holder first, then the waiters
    closeLock,       \* the holder of _close_lock that awaits in it
    closeEvent,      \* _close_event
    registered, taskClosed,
    tools,           \* invocations the tool executor knows
    pc, outcome,
    asked            \* turns during which an interruption was requested

turnVars == <<active, invocation, lockQ, tools>>
closeVars == <<closeLock, closeEvent, registered, taskClosed>>
vars == <<state, turnVars, interrupted, closeVars, pc, outcome, asked>>

Init ==
    /\ state = "OPEN" /\ active = FALSE /\ interrupted = FALSE /\ invocation = None
    /\ lockQ = << >> /\ closeLock = None /\ closeEvent = FALSE
    /\ registered = TRUE /\ taskClosed = 0 /\ tools = {}
    /\ pc = [a \in Callers \cup Closers |-> "idle"]
    /\ outcome = [c \in Callers |-> None] /\ asked = {}

Goto(a, l) == pc' = [pc EXCEPT ![a] = l]
Ends(c, result) == outcome' = [outcome EXCEPT ![c] = result]

-----------------------------------------------------------------------------
(* A turn.                                                                 *)

(* _ensure_open, the busy test, the lock (free, so taken at once), _active. *)
Begin(c) ==
    /\ pc[c] = "idle"
    /\ state = "OPEN" /\ lockQ = << >> /\ ~active
    /\ lockQ' = <<c>> /\ active' = TRUE /\ invocation' = c
    /\ Goto(c, "running")
    /\ UNCHANGED <<state, interrupted, tools, closeVars, outcome, asked>>

(* A tool call of the script.                                              *)
CallTool(c) ==
    /\ pc[c] = "running"
    /\ tools' = tools \cup {c}
    /\ UNCHANGED <<state, active, invocation, lockQ, interrupted, closeVars, pc, outcome, asked>>

(* Mutant: the turn ends without end_invocation().                         *)
EndInvocationKeepsTools(c) == UNCHANGED tools /\ invocation' = None

(* end_invocation() and the reset of _active_invocation_id.                *)
EndInvocation(c) == tools' = tools \ {c} /\ invocation' = None

(* _active is reset and the lock released.                                 *)
Leave(c) == active' = FALSE /\ lockQ' = Tail(lockQ) /\ Goto(c, "done")

(* What the caller gets from a turn that a close() overtook.               *)
Seen(result) == IF state = "OPEN" THEN result ELSE "not_found"

(* The script has run.  ainvoke() publishes the events of the turn, both   *)
(* publish those of a turn that failed.                                    *)
Executed(c) ==
    /\ pc[c] = "running"
    /\ \E r \in IF interrupted THEN {"interrupted"} ELSE {"result", "failed"} : Ends(c, r)
    /\ Goto(c, "publishing")
    /\ UNCHANGED <<state, turnVars, interrupted, closeVars, asked>>

(* astream() publishes after _execute_task_turn() has returned.            *)
ExecutedStream(c) ==
    /\ pc[c] = "running" /\ ~interrupted
    /\ EndInvocation(c)
    /\ IF state = "OPEN"
       THEN Ends(c, "result") /\ Goto(c, "streaming") /\ UNCHANGED <<active, lockQ>>
       ELSE Ends(c, "not_found") /\ Leave(c)
    /\ UNCHANGED <<state, interrupted, closeVars, asked>>

Published(c) ==
    /\ pc[c] = "publishing"
    /\ EndInvocation(c) /\ Leave(c) /\ Ends(c, Seen(outcome[c]))
    /\ UNCHANGED <<state, interrupted, closeVars, asked>>

(* A strict observer raises: the except clause publishes the events again. *)
PublishFails(c) ==
    /\ pc[c] = "publishing" /\ outcome[c] = "result"
    /\ Ends(c, "failed")
    /\ UNCHANGED <<state, turnVars, interrupted, closeVars, pc, asked>>

(* CancelledError: CANCELLED is published; in an except clause, which      *)
(* publishes already, the error leaves at once.                            *)
CancelTurn(c) ==
    /\ \/ /\ pc[c] \in {"running", "publishing"} /\ outcome[c] \in {None, "result"}
          /\ Ends(c, "cancelled") /\ Goto(c, "publishing")
          /\ UNCHANGED turnVars
       \/ /\ pc[c] = "publishing" /\ outcome[c] \notin {None, "result"}
          /\ EndInvocation(c) /\ Leave(c) /\ Ends(c, Seen("cancelled"))
    /\ UNCHANGED <<state, interrupted, closeVars, asked>>

(* The consumer has drained the stream, dropped it, or was cancelled.      *)
StreamEnds(c) ==
    /\ pc[c] = "streaming"
    /\ Leave(c)
    /\ UNCHANGED <<state, invocation, tools, interrupted, closeVars, outcome, asked>>

-----------------------------------------------------------------------------
(* interrupt() and close()                                                 *)

(* The running turn is asked to stop.  Nothing resets the flag.            *)
RequestStop ==
    IF active THEN interrupted' = TRUE /\ asked' = asked \cup {lockQ[1]}
              ELSE UNCHANGED <<interrupted, asked>>

Interrupt ==
    /\ state = "OPEN" /\ active
    /\ RequestStop
    /\ UNCHANGED <<state, turnVars, closeVars, pc, outcome>>

CloseCalled(x) ==
    /\ pc[x] = "idle"
    /\ Goto(x, "lock")
    /\ UNCHANGED <<state, turnVars, interrupted, closeVars, outcome, asked>>

Joins == state = "CLOSING"

(* _close_lock: closed already, being closed, or open.                     *)
CloseEnters(x) ==
    /\ pc[x] = "lock" /\ closeLock = None
    /\ \/ /\ state = "CLOSED"
          /\ Goto(x, "done") /\ UNCHANGED <<state, lockQ, closeLock, interrupted, asked>>
       \/ /\ Joins
          /\ closeLock' = x /\ Goto(x, "joining")
          /\ UNCHANGED <<state, lockQ, interrupted, asked>>
       \/ /\ state # "CLOSED" /\ ~Joins
          /\ state' = "CLOSING" /\ RequestStop
          /\ lockQ' = Append(lockQ, x) /\ Goto(x, "teardown")
          /\ UNCHANGED closeLock
    /\ UNCHANGED <<active, invocation, tools, closeEvent, registered, taskClosed, outcome>>

Joined(x) ==
    /\ pc[x] = "joining" /\ closeEvent
    /\ closeLock' = None /\ Goto(x, "done")
    /\ UNCHANGED <<state, turnVars, interrupted, closeEvent, registered, taskClosed, outcome, asked>>

(* The finally clause of close().                                          *)
DeclareClosed(x) ==
    /\ state' = "CLOSED" /\ closeEvent' = TRUE /\ taskClosed' = taskClosed + 1
    /\ Goto(x, "announcing")

(* Mutant: the teardown does not wait for the turn to give up the lock.    *)
HasTurnLockAlways(x) == TRUE

HasTurnLock(x) == Head(lockQ) = x

Teardown(x) ==
    /\ pc[x] = "teardown" /\ HasTurnLock(x)
    /\ tools' = tools \ {invocation}
    /\ registered' = FALSE
    /\ lockQ' = Tail(lockQ)
    /\ DeclareClosed(x)
    /\ UNCHANGED <<active, invocation, interrupted, closeLock, outcome, asked>>

(* TASK_CLOSED has been dispatched, or refused by an observer.             *)
Announced(x) ==
    /\ pc[x] = "announcing"
    /\ Goto(x, "done")
    /\ UNCHANGED <<state, turnVars, interrupted, closeVars, outcome, asked>>

(* A waiting close() is cancelled: it has changed nothing yet.             *)
CloseCancelled(x) ==
    /\ pc[x] \in {"lock", "joining"}
    /\ closeLock' = (IF closeLock = x THEN None ELSE closeLock)
    /\ Goto(x, "cancelled")
    /\ UNCHANGED <<state, turnVars, interrupted, closeEvent, registered, taskClosed, outcome, asked>>

-----------------------------------------------------------------------------
CallerStep(c) == Executed(c) \/ ExecutedStream(c) \/ Published(c) \/ StreamEnds(c)
CloserStep(x) == CloseEnters(x) \/ Joined(x) \/ Teardown(x) \/ Announced(x)

Next ==
    \/ \E c \in Callers : Begin(c) \/ CallTool(c) \/ PublishFails(c) \/ CancelTurn(c) \/ CallerStep(c)
    \/ Interrupt
    \/ \E x \in Closers : CloseCalled(x) \/ CloserStep(x) \/ CloseCancelled(x)

Spec == Init /\ [][Next]_vars

(* Scripts end, the loop runs what is ready, and the consumer of a stream  *)
(* drains or drops it.                                                     *)
FairSpec ==
    /\ Spec
    /\ \A c \in Callers : WF_vars(CallerStep(c))
    /\ \A x \in Closers : WF_vars(CloserStep(x))

-----------------------------------------------------------------------------
(* Properties.                                                             *)

(* The fake has neither thread nor directory; a turn is reserved from      *)
(* _active on, and no provider turn is ever owned.                         *)
Contract == INSTANCE TaskContract WITH
    turn <- IF active THEN "starting" ELSE "none",
    thread <- "live",
    workspace <- IF state = "CLOSED" THEN "removed" ELSE "present"

(* FakeTask keeps the contract of RuntimeTask that the Codex task keeps:   *)
(* turns begin only while it is open and exclude one another, a teardown   *)
(* waits for the turn and is final, unregisters and announces the task     *)
(* once, however many calls of close() there are.                          *)
ContractSpec == Contract!Spec

(* Every close() that is not cancelled returns, and by then the task is    *)
(* closed, out of the registry, and the tool executor has forgotten its    *)
(* turns, those that failed, were cancelled or were overtaken by close()   *)
(* included.                                                               *)
CloseLeavesNothing ==
    \A x \in Closers :
        (pc[x] = "lock") ~>
            \/ pc[x] = "cancelled"
            \/ pc[x] = "done" /\ state = "CLOSED" /\ ~registered /\ tools = {}

(* "Interrupt the currently active turn in this task.": a turn ends        *)
(* interrupted only if the interruption was requested while it ran.        *)
InterruptHitsActiveTurn ==
    \A c \in Callers : outcome[c] = "interrupted" => c \in asked
=============================================================================
