----------------------------- MODULE ToolBridge -----------------------------
(***************************************************************************)
(* CodexToolMux and CodexToolBridge (experimental.py): how a tool request  *)
(* of the provider travels from an SDK reader thread to ToolExecutor on    *)
(* the host loop, while the loop registers and cleans up turns.            *)
(*                                                                         *)
(* A composition: the executor is ToolExecutor, with one execute() job per *)
(* request.  An invocation is a turn, as the runtime names it; each turn   *)
(* has a bridge of its own, which bears its name.  The reader thread and   *)
(* the loop are preempted between any two of the steps below; the mux has  *)
(* no lock.                                                                *)
(***************************************************************************)
EXTENDS ToolExecutor

CONSTANT ProviderThread     \* the provider thread of each turn

ASSUME ThreadAssumption == Invocations \subseteq DOMAIN ProviderThread

VARIABLES
    turn,       \* how far the loop is with a turn
    routes,     \* _routes: turns whose (thread, turn) leads to their bridge
    bound,      \* bridges whose identifiers are set
    pending,    \* _pending of each bridge
    reader,     \* where the reader thread of a request stands
    target,     \* the (turn, call) the provider put into the request
    bridge,     \* the bridge the lookup found
    queued,     \* jobs handed to the loop that it has not started
    cancelling  \* requests whose concurrent future was cancelled

readerVars == <<reader, target, bridge>>
loopVars == <<turn, routes, bound>>
allVars == <<vars, readerVars, loopVars, pending, queued, cancelling>>

BridgeInit ==
    /\ Init
    /\ turn = [i \in Invocations |-> "new"]
    /\ routes = {} /\ bound = {}
    /\ pending = [i \in Invocations |-> {}]
    /\ reader = [r \in Requests |-> "idle"]
    /\ target = [r \in Requests |-> None]
    /\ bridge = [r \in Requests |-> None]
    /\ queued = {} /\ cancelling = {}

At(r, l) == reader' = [reader EXCEPT ![r] = l]

-----------------------------------------------------------------------------
(* The reader thread.                                                      *)

(* Mutant: one route per provider thread.                                  *)
LookupByThread(k) == {i \in routes : ProviderThread[i] = ProviderThread[k[1]]}

(* _routes.get((thread_id, turn_id)).  A request that names neither is     *)
(* looked up by its invocation, which is the same turn.                    *)
Lookup(k) == {i \in routes : i = k[1]}

(* Mux.__call__: an unknown route is denied ...                            *)
Denied(r, k) ==
    /\ reader[r] = "idle"
    /\ Lookup(k) = {}
    /\ target' = [target EXCEPT ![r] = k]
    /\ At(r, "answered")
    /\ UNCHANGED <<vars, bridge, loopVars, pending, queued, cancelling>>

(* ... a known one leads to its bridge.                                    *)
Routed(r, k) ==
    /\ reader[r] = "idle"
    /\ \E i \in Lookup(k) : bridge' = [bridge EXCEPT ![r] = i]
    /\ target' = [target EXCEPT ![r] = k]
    /\ At(r, "routed")
    /\ UNCHANGED <<vars, loopVars, pending, queued, cancelling>>

(* Bridge.__call__: a bridge matches the requests routed to it, also when  *)
(* it was unbound since; the request gets the bridge's invocation, or the  *)
(* turnId it carries when that is gone: the runtime names an invocation    *)
(* after its turn (str(handle.id)), so that both are the same identifier.  *)
(* run_coroutine_threadsafe queues the job.                                *)
RequestKey(r) ==
    <<IF bridge[r] \in bound THEN bridge[r] ELSE target[r][1], target[r][2]>>

Submit(r) ==
    /\ reader[r] = "routed"
    /\ key' = [key EXCEPT ![r] = RequestKey(r)]
    /\ queued' = queued \cup {r}
    /\ At(r, "submitted")
    /\ UNCHANGED <<pc, tool, valid, dedupVars, attempt, terminals, answer, decision, runs, sinkFailed,
                   target, bridge, loopVars, pending, cancelling>>

(* _pending.add(future), then the thread blocks in future.result().        *)
Pend(r) ==
    /\ reader[r] = "submitted"
    /\ pending' = [pending EXCEPT ![bridge[r]] = @ \cup {r}]
    /\ At(r, "blocked")
    /\ UNCHANGED <<vars, target, bridge, loopVars, queued, cancelling>>

(* The future has a result, an exception, or was cancelled.                *)
Answer(r) ==
    /\ reader[r] = "blocked"
    /\ answer[r] # "none" \/ r \in cancelling
    /\ pending' = [pending EXCEPT ![bridge[r]] = @ \ {r}]
    /\ bridge' = [bridge EXCEPT ![r] = None]
    /\ At(r, "answered")
    /\ UNCHANGED <<vars, target, loopVars, queued, cancelling>>

-----------------------------------------------------------------------------
(* The host loop: jobs.                                                    *)

(* The job's first step runs even if it was cancelled while queued: the    *)
(* cancellation is scheduled behind it.  (What the executor does with      *)
(* invalid arguments is for ToolExecutor alone.)                           *)
StartJob(r) ==
    /\ r \in queued
    /\ \E n \in Tools : Execute(r, key[r], n, TRUE)
    /\ queued' = queued \ {r}
    /\ UNCHANGED <<readerVars, loopVars, pending, cancelling>>

DeliverCancel(r) ==
    /\ r \in cancelling
    /\ CancelOwner(r) \/ CancelWaiter(r)
    /\ UNCHANGED <<readerVars, loopVars, pending, queued, cancelling>>

JobStep(r) ==
    /\ OwnerStep(r) \/ Share(r)
    /\ UNCHANGED <<readerVars, loopVars, pending, queued, cancelling>>

-----------------------------------------------------------------------------
(* The host loop: turns.                                                   *)

(* bind(): the bridge takes the identifiers of the turn.                   *)
Bind(i) == bound' = bound \cup {i}

(* register(): bind() and the route.  The turns of one thread follow one   *)
(* another (the lock of the task or session).                              *)
Register(i) ==
    /\ turn[i] = "new"
    /\ \A j \in Invocations : ProviderThread[j] = ProviderThread[i] => turn[j] \in {"new", "over"}
    /\ turn' = [turn EXCEPT ![i] = "registered"]
    /\ Bind(i)
    /\ routes' = routes \cup {i}
    /\ UNCHANGED <<vars, readerVars, pending, queued, cancelling>>

RoutesWithout(i) == routes \ {i}

(* The cleanup of a turn: unregister(), which drops the route and then     *)
(* unbinds, then end_invocation().  mux.close() ends the invocation first. *)
DropRoute(i) ==
    /\ turn[i] \in {"registered", "ending"}
    /\ routes' = RoutesWithout(i)
    /\ turn' = [turn EXCEPT ![i] = IF @ = "ending" THEN "unrouted last" ELSE "unrouted"]
    /\ UNCHANGED <<vars, readerVars, bound, pending, queued, cancelling>>

CancelledByUnbind(i) == {r \in pending[i] : answer[r] = "none"}

(* unbind(): the futures found in _pending are cancelled ...               *)
CancelPending(i) ==
    /\ turn[i] \in {"unrouted", "unrouted last"}
    /\ cancelling' = cancelling \cup CancelledByUnbind(i)
    /\ turn' = [turn EXCEPT ![i] = IF @ = "unrouted" THEN "cancelled" ELSE "cancelled last"]
    /\ UNCHANGED <<vars, readerVars, routes, bound, pending, queued>>

(* ... then _pending is cleared and the identifiers are dropped.           *)
Unbind(i) ==
    /\ turn[i] \in {"cancelled", "cancelled last"}
    /\ pending' = [pending EXCEPT ![i] = {}]
    /\ bound' = bound \ {i}
    /\ turn' = [turn EXCEPT ![i] = IF @ = "cancelled" THEN "unbound" ELSE "over"]
    /\ UNCHANGED <<vars, readerVars, routes, queued, cancelling>>

EndTurn(i) ==
    /\ turn[i] = "unbound"
    /\ EndInvocation(i)
    /\ turn' = [turn EXCEPT ![i] = "over"]
    /\ UNCHANGED <<readerVars, routes, bound, pending, queued, cancelling>>

CloseMux(i) ==
    /\ turn[i] = "registered"
    /\ EndInvocation(i)
    /\ turn' = [turn EXCEPT ![i] = "ending"]
    /\ UNCHANGED <<readerVars, routes, bound, pending, queued, cancelling>>

-----------------------------------------------------------------------------
ReaderStep(r) == Submit(r) \/ Pend(r) \/ Answer(r)
LoopStep(r) == StartJob(r) \/ DeliverCancel(r) \/ JobStep(r)
TurnStep(i) == DropRoute(i) \/ CancelPending(i) \/ Unbind(i) \/ EndTurn(i)

BridgeNext ==
    \/ \E r \in Requests :
          \/ \E k \in Keys : Denied(r, k) \/ Routed(r, k)
          \/ ReaderStep(r) \/ LoopStep(r)
    \/ \E i \in Invocations : Register(i) \/ CloseMux(i) \/ TurnStep(i)

(* Threads are scheduled; the loop runs what is ready; tools, approvals    *)
(* and observers have time limits.  The provider need not end a turn.      *)
BridgeSpec ==
    /\ BridgeInit /\ [][BridgeNext]_allVars
    /\ \A r \in Requests : WF_allVars(ReaderStep(r)) /\ WF_allVars(LoopStep(r))

-----------------------------------------------------------------------------
(* Properties.                                                             *)

(* A request runs under the turn the provider named, never under another   *)
(* turn of the same thread, even if it arrives or is submitted while the   *)
(* turns change (the route key of the mux, the invocation of the bridge).  *)
RoutedToOwnTurn == \A r \in Requests : key[r] # None => key[r][1] = target[r][1]

(* While a turn is registered, whatever duplicates the provider sends, one *)
(* job at a time owns a call and its tool runs as often as its policy      *)
(* allows; only the cleanup of the turn makes the executor forget a call.  *)
ExactlyOnceWhileRegistered ==
    \A r, s \in Requests :
        Owned(r) /\ turn[key[r][1]] = "registered" =>
            /\ runs[key[r]] <= IF tool[r] \in Idempotent THEN MaxAttempts ELSE 1
            /\ Owner(r) /\ Owner(s) /\ key[r] = key[s] => r = s

(* A reader thread whose future is open never waits for nobody: the loop   *)
(* has yet to start its job, or the job is in the executor's pipeline, or  *)
(* it shares the future of a job of the same turn and call that is, and    *)
(* that one is never left pending (future.result() has no time limit).     *)
NoReaderWaitsInVain ==
    \A r \in Requests : reader[r] \in {"submitted", "blocked"} /\ answer[r] = "none" =>
        \/ r \in queued
        \/ Owner(r)
        \/ /\ pc[r] = "waiting"
           /\ future[waitFor[r]] = "pending" =>
                 Owner(waitFor[r]) /\ target[waitFor[r]] = target[r]

(* Every request is answered, by its own job, by the job of the request it *)
(* duplicates, or by a cancellation, however the turn ends meanwhile: no   *)
(* reader thread blocks for ever.                                          *)
ReadersAnswered == \A r \in Requests : (reader[r] = "routed") ~> (reader[r] = "answered")

(* unregister() cancels all pending requests: after the cleanup of a turn  *)
(* its jobs are finished or cancelled.  (Stated by the docstring; a        *)
(* request that passed the lookup before and is submitted after runs.)     *)
NoJobAfterCleanup ==
    \A r \in Requests :
        key[r] # None /\ turn[key[r][1]] = "over" => answer[r] # "none" \/ r \in cancelling
=============================================================================
