---------------------------- MODULE ToolExecutor ----------------------------
(***************************************************************************)
(* ToolExecutor (tools/__init__.py): the deduplication of tool requests by *)
(* (invocation_id, call_id) and the fixed pipeline that the owner of a     *)
(* request goes through: definition, arguments, permission, approval,      *)
(* retry policy, attempts with a timeout, output validation, events.       *)
(*                                                                         *)
(* Each member of Requests is one call of execute(), a coroutine on the    *)
(* host loop.  The per-invocation lock is held without an await, so the    *)
(* claim of a key is one step.  pc[r] names the await at which r stands;   *)
(* every event is appended to `events` and then awaited in the event sink, *)
(* which may raise (a strict observer does).                               *)
(***************************************************************************)
EXTENDS Naturals

CONSTANTS
    Requests,       \* calls of execute()
    Invocations, Calls,
    Tools,          \* tool names a request may carry
    Snapshot,       \* ToolSnapshot: a ToolDefinition for each tool it knows
    Allowed,        \* permission_policy.allowed_permissions
    MaxAttempts,    \* retry_policy.max_attempts
    RaisePolicy,    \* failure_policy is RAISE
    Late,           \* may a request arrive after end_invocation()?
    Cancellable,    \* may a coroutine inside execute() be cancelled?
    SinkMayFail,    \* may the event sink raise?
    None

SideEffect == {"none", "read", "write", "destructive"}
ApprovalRequirement == {"never", "always", "for_side_effects"}

ToolDefinition ==
    [permission : STRING, side_effect : SideEffect, approval : ApprovalRequirement,
     idempotent : BOOLEAN]

Known == DOMAIN Snapshot

(* ToolPermissionPolicy.allows                                             *)
Permitted == {t \in Known : Snapshot[t].permission \in Allowed}

(* _requires_approval                                                      *)
NeedsApproval ==
    {t \in Known : \/ Snapshot[t].approval = "always"
                  \/ /\ Snapshot[t].approval = "for_side_effects"
                     /\ Snapshot[t].side_effect \in {"write", "destructive"}}

Idempotent == {t \in Known : Snapshot[t].idempotent}

ASSUME ToolsAssumption == Known \subseteq Tools /\ Snapshot \in [Known -> ToolDefinition]

ASSUME PolicyAssumption ==
    /\ MaxAttempts \in 1..3
    /\ {RaisePolicy, Late, Cancellable, SinkMayFail} \subseteq BOOLEAN

ASSUME NoneAssumption == None \notin Requests

Keys == Invocations \X Calls

VARIABLES
    pc,         \* where each call of execute() stands
    key,        \* its (invocation_id, call_id)
    tool,       \* the tool it names
    valid,      \* do its arguments satisfy the input model?
    calls,      \* _calls: the request whose future is stored under a key
    locks,      \* _locks: invocations with an entry
    future,     \* the future created by an owner
    waitFor,    \* the owner whose future a duplicate awaits
    attempt,    \* the attempt an owner is in
    terminals,  \* number of terminal events emitted for a request
    answer,     \* what execute() gave back
    decision,   \* what became of the approval of a request
    runs,       \* how often the tool function was started for a key
    ended,      \* invocations for which end_invocation() was called
    sinkFailed  \* history: requests for which the event sink raised

reqVars == <<key, tool, valid>>
dedupVars == <<calls, locks, future, waitFor, ended>>
vars == <<pc, reqVars, dedupVars, attempt, terminals, answer, decision, runs, sinkFailed>>

(* Awaits of an owner: the sink for TOOL_REQUESTED; the approval; the sink *)
(* for TOOL_STARTED; the tool; the sink for TOOL_COMPLETED; the sink for   *)
(* TOOL_RETRY_SCHEDULED; the sink for TOOL_FAILED or TOOL_DENIED.          *)
Pipeline == {"requested", "approving", "starting", "running", "completing", "retrying",
             "terminal"}
PCs == {"idle", "waiting", "returned", "cancelled"} \cup Pipeline

Init ==
    /\ pc = [r \in Requests |-> "idle"]
    /\ key = [r \in Requests |-> None]
    /\ tool = [r \in Requests |-> None]
    /\ valid = [r \in Requests |-> FALSE]
    /\ calls = [k \in Keys |-> None]
    /\ locks = {} /\ ended = {} /\ sinkFailed = {}
    /\ decision = [r \in Requests |-> "none"]
    /\ future = [r \in Requests |-> "none"]
    /\ waitFor = [r \in Requests |-> None]
    /\ attempt = [r \in Requests |-> 0]
    /\ terminals = [r \in Requests |-> 0]
    /\ answer = [r \in Requests |-> "none"]
    /\ runs = [k \in Keys |-> 0]

Goto(r, l) == pc' = [pc EXCEPT ![r] = l]

-----------------------------------------------------------------------------
(* The claim of a key.                                                     *)

Arrives(r, k, n, v) ==
    /\ pc[r] = "idle"
    /\ key' = [key EXCEPT ![r] = k]
    /\ tool' = [tool EXCEPT ![r] = n]
    /\ valid' = [valid EXCEPT ![r] = v]
    /\ locks' = locks \cup {k[1]}
    /\ UNCHANGED <<attempt, terminals, answer, decision, runs, ended, sinkFailed>>

(* The first request with a key becomes its owner ...                      *)
Own(r, k, n, v) ==
    /\ Arrives(r, k, n, v)
    /\ calls' = [calls EXCEPT ![k] = r]
    /\ future' = [future EXCEPT ![r] = "pending"]
    /\ Goto(r, "requested")
    /\ UNCHANGED waitFor

(* ... every other one awaits the owner's future, shielded.                *)
Join(r, k, n, v) ==
    /\ Arrives(r, k, n, v)
    /\ waitFor' = [waitFor EXCEPT ![r] = calls[k]]
    /\ Goto(r, "waiting")
    /\ UNCHANGED <<calls, future>>

(* Mutants: every request owns its call; the future is not looked up while *)
(* its owner waits for an approval (a claim after the approval).           *)
ExecuteAlwaysOwns(r, k, n, v) == (Late \/ k[1] \notin ended) /\ Own(r, k, n, v)
ExecuteLateClaim(r, k, n, v) ==
    /\ Late \/ k[1] \notin ended
    /\ IF calls[k] = None \/ pc[calls[k]] = "approving" THEN Own(r, k, n, v) ELSE Join(r, k, n, v)

Execute(r, k, n, v) ==
    /\ Late \/ k[1] \notin ended
    /\ IF calls[k] = None THEN Own(r, k, n, v) ELSE Join(r, k, n, v)

-----------------------------------------------------------------------------
(* The owner's pipeline.                                                   *)

Stay == UNCHANGED <<reqVars, dedupVars, answer, sinkFailed>>

(* A terminal event is emitted; the error follows when the sink is done.   *)
EmitTerminal(r) ==
    /\ terminals' = [terminals EXCEPT ![r] = @ + 1]
    /\ Goto(r, "terminal")

(* Mutant: a denied permission is reported, and the pipeline goes on.      *)
RefusedNoPermission(r) ==
    \/ tool[r] \notin Known
    \/ ~valid[r]

(* Unknown tool, invalid arguments, missing permission.                    *)
Refused(r) ==
    \/ tool[r] \notin Known
    \/ ~valid[r]
    \/ tool[r] \notin Permitted

(* A retry policy with several attempts needs an idempotent tool.          *)
RetryIncompatible(r) == MaxAttempts > 1 /\ tool[r] \notin Idempotent

StartOrFail(r) ==
    IF RetryIncompatible(r)
    THEN EmitTerminal(r) /\ UNCHANGED attempt
    ELSE Goto(r, "starting") /\ attempt' = [attempt EXCEPT ![r] = 1] /\ UNCHANGED terminals

(* The checks that need no await between them.                             *)
Check(r) ==
    /\ pc[r] = "requested"
    /\ \/ Refused(r) /\ EmitTerminal(r) /\ UNCHANGED attempt
       \/ ~Refused(r) /\ tool[r] \in NeedsApproval /\ Goto(r, "approving")
          /\ UNCHANGED <<attempt, terminals>>
       \/ ~Refused(r) /\ tool[r] \notin NeedsApproval /\ StartOrFail(r)
    /\ UNCHANGED <<decision, runs>>
    /\ Stay

Decided(r, d) == decision' = [decision EXCEPT ![r] = d]

Approve(r) ==
    /\ pc[r] = "approving"
    /\ Decided(r, "approved")
    /\ StartOrFail(r)
    /\ UNCHANGED runs
    /\ Stay

(* DENY, no handler, a timeout, an awaited exception or an invalid answer. *)
Deny(r) ==
    /\ pc[r] = "approving"
    /\ Decided(r, "denied")
    /\ EmitTerminal(r)
    /\ UNCHANGED <<attempt, runs>>
    /\ Stay

CallFunction(r) ==
    /\ pc[r] = "starting"
    /\ runs' = [runs EXCEPT ![key[r]] = @ + 1]
    /\ Goto(r, "running")
    /\ UNCHANGED <<attempt, terminals, decision>>
    /\ Stay

(* The function returned and its output is valid: TOOL_COMPLETED.          *)
FunctionReturns(r) ==
    /\ pc[r] = "running"
    /\ terminals' = [terminals EXCEPT ![r] = @ + 1]
    /\ Goto(r, "completing")
    /\ UNCHANGED <<attempt, decision, runs>>
    /\ Stay

(* Mutant: invalid output is reported, and treated as a failed attempt.    *)
OutputInvalidRetried(r) ==
    /\ pc[r] = "running"
    /\ IF attempt[r] < MaxAttempts
       THEN terminals' = [terminals EXCEPT ![r] = @ + 1] /\ Goto(r, "retrying")
       ELSE EmitTerminal(r)
    /\ UNCHANGED <<attempt, decision, runs>>
    /\ Stay

(* Its output is invalid: final, whatever attempts are left.               *)
OutputInvalid(r) ==
    /\ pc[r] = "running"
    /\ EmitTerminal(r)
    /\ UNCHANGED <<attempt, decision, runs>>
    /\ Stay

(* Mutant: one attempt too many.                                           *)
RetryOrFailOffByOne(r) ==
    IF attempt[r] <= MaxAttempts
    THEN Goto(r, "retrying") /\ UNCHANGED terminals
    ELSE EmitTerminal(r)

RetryOrFail(r) ==
    IF attempt[r] < MaxAttempts
    THEN Goto(r, "retrying") /\ UNCHANGED terminals
    ELSE EmitTerminal(r)

(* It raised or timed out.                                                 *)
FunctionFails(r) ==
    /\ pc[r] = "running"
    /\ RetryOrFail(r)
    /\ UNCHANGED <<attempt, decision, runs>>
    /\ Stay

Retry(r) ==
    /\ pc[r] = "retrying"
    /\ attempt' = [attempt EXCEPT ![r] = @ + 1]
    /\ Goto(r, "starting")
    /\ UNCHANGED <<terminals, decision, runs>>
    /\ Stay

-----------------------------------------------------------------------------
(* The end of execute() for an owner: the future is resolved unless it is  *)
(* done already, which end_invocation() may have seen to.                  *)

Settle(r, f, a) ==
    /\ future' = [future EXCEPT ![r] = IF @ = "pending" THEN f ELSE @]
    /\ answer' = [answer EXCEPT ![r] = a]
    /\ Goto(r, "returned")
    /\ UNCHANGED <<reqVars, calls, locks, waitFor, ended, attempt, terminals, runs>>

Completed(r) ==
    pc[r] = "completing" /\ Settle(r, "value", "value") /\ UNCHANGED <<decision, sinkFailed>>

Failure == IF RaisePolicy THEN "raised" ELSE "error"

(* Mutant: the waiters get the exception although the owner returns an     *)
(* error result.                                                           *)
FailedRaisesToWaiters(r) ==
    pc[r] = "terminal" /\ Settle(r, "raised", Failure) /\ UNCHANGED <<decision, sinkFailed>>

Failed(r) ==
    pc[r] = "terminal" /\ Settle(r, Failure, Failure) /\ UNCHANGED <<decision, sinkFailed>>

(* The approval cannot be asked for: the request of the handler cannot be  *)
(* built, or the handler raises before it returns an awaitable.  Nothing   *)
(* catches that in _approval: the pipeline ends without TOOL_DENIED.       *)
AskFails(r) ==
    /\ pc[r] = "approving"
    /\ Decided(r, "unasked")
    /\ Settle(r, Failure, Failure)
    /\ UNCHANGED sinkFailed

(* The sink raises.  Outside the attempt's try block the error ends the    *)
(* pipeline without a terminal event of its own ...                        *)
SinkFails(r) ==
    /\ SinkMayFail
    /\ pc[r] \in {"requested", "approving", "starting", "retrying", "terminal"}
    /\ Settle(r, Failure, Failure)
    /\ sinkFailed' = sinkFailed \cup {r}
    /\ UNCHANGED decision

(* ... inside it, after TOOL_COMPLETED, it counts as a failed attempt.     *)
SinkFailsCompleted(r) ==
    /\ SinkMayFail
    /\ pc[r] = "completing"
    /\ RetryOrFail(r)
    /\ sinkFailed' = sinkFailed \cup {r}
    /\ UNCHANGED <<reqVars, dedupVars, attempt, answer, decision, runs>>

(* Mutant: the future of a cancelled owner stays pending.                  *)
CancelOwnerKeepsFuture(r) ==
    /\ Cancellable
    /\ pc[r] \in Pipeline
    /\ answer' = [answer EXCEPT ![r] = "cancelled"]
    /\ Goto(r, "cancelled")
    /\ UNCHANGED <<reqVars, dedupVars, attempt, terminals, decision, runs, sinkFailed>>

(* An owner is cancelled: its future is cancelled and the key is released, *)
(* whoever's future is stored under it by now.                             *)
CancelOwner(r) ==
    /\ Cancellable
    /\ pc[r] \in Pipeline
    /\ future' = [future EXCEPT ![r] = IF @ = "pending" THEN "cancelled" ELSE @]
    /\ calls' = [calls EXCEPT ![key[r]] = None]
    /\ answer' = [answer EXCEPT ![r] = "cancelled"]
    /\ Goto(r, "cancelled")
    /\ UNCHANGED <<reqVars, locks, waitFor, ended, attempt, terminals, decision, runs, sinkFailed>>

(* A duplicate gets what the future holds, or is cancelled itself.         *)
Share(r) ==
    /\ pc[r] = "waiting"
    /\ future[waitFor[r]] # "pending"
    /\ answer' = [answer EXCEPT ![r] = future[waitFor[r]]]
    /\ Goto(r, "returned")
    /\ UNCHANGED <<reqVars, dedupVars, attempt, terminals, decision, runs, sinkFailed>>

CancelWaiter(r) ==
    /\ Cancellable
    /\ pc[r] = "waiting"
    /\ answer' = [answer EXCEPT ![r] = "cancelled"]
    /\ Goto(r, "cancelled")
    /\ UNCHANGED <<reqVars, dedupVars, attempt, terminals, decision, runs, sinkFailed>>

(* end_invocation() forgets the keys of the invocation and cancels their   *)
(* pending futures; an owner that is still running is not stopped.         *)
EndWith(i, newLocks) ==
    /\ ended' = ended \cup {i}
    /\ calls' = [k \in Keys |-> IF k[1] = i THEN None ELSE calls[k]]
    /\ future' = [r \in Requests |->
                    IF future[r] = "pending" /\ \E k \in Keys : k[1] = i /\ calls[k] = r
                    THEN "cancelled" ELSE future[r]]
    /\ locks' = newLocks
    /\ UNCHANGED <<pc, reqVars, waitFor, attempt, terminals, answer, decision, runs, sinkFailed>>

(* Mutant: the lock entry stays.                                           *)
EndInvocationKeepsLock(i) == EndWith(i, locks)

EndInvocation(i) == EndWith(i, locks \ {i})

-----------------------------------------------------------------------------
OwnerStep(r) ==
    \/ Check(r) \/ Approve(r) \/ Deny(r) \/ AskFails(r)
    \/ CallFunction(r) \/ FunctionReturns(r) \/ OutputInvalid(r) \/ FunctionFails(r) \/ Retry(r)
    \/ Completed(r) \/ Failed(r) \/ SinkFails(r) \/ SinkFailsCompleted(r)

Next ==
    \/ \E r \in Requests :
          \/ \E k \in Keys, n \in Tools, v \in BOOLEAN : Execute(r, k, n, v)
          \/ OwnerStep(r)
          \/ CancelOwner(r) \/ Share(r) \/ CancelWaiter(r)
    \/ \E i \in Invocations : EndInvocation(i)

Spec == Init /\ [][Next]_vars

-----------------------------------------------------------------------------
(* Properties.                                                             *)

Owner(r) == pc[r] \in Pipeline
Owned(r) == future[r] # "none"   \* r became an owner at some time

(* Type invariant of the executor's tables and of its coroutines.          *)
TypeOK ==
    /\ pc \in [Requests -> PCs]
    /\ key \in [Requests -> Keys \cup {None}]
    /\ tool \in [Requests -> Tools \cup {None}]
    /\ valid \in [Requests -> BOOLEAN]
    /\ calls \in [Keys -> Requests \cup {None}]
    /\ locks \subseteq Invocations /\ ended \subseteq Invocations
    /\ decision \in [Requests -> {"none", "approved", "denied", "unasked"}]
    /\ sinkFailed \subseteq Requests
    /\ future \in [Requests -> {"none", "pending", "value", "error", "raised", "cancelled"}]
    /\ waitFor \in [Requests -> Requests \cup {None}]
    /\ attempt \in [Requests -> 0..MaxAttempts]
    /\ terminals \in [Requests -> Nat]
    /\ answer \in [Requests -> {"none", "value", "error", "raised", "cancelled"}]
    /\ runs \in [Keys -> Nat]

(* Only one owner executes a key (invocation_id, call_id) at a time        *)
(* (execute(): the claim and the release of the key).                      *)
OneOwnerPerKey ==
    \A r, s \in Requests : Owner(r) /\ Owner(s) /\ key[r] = key[s] => r = s

(* A cancelled owner releases its key: a later duplicate starts afresh.    *)
Undisturbed(k) == \A s \in Requests : Owned(s) /\ key[s] = k => pc[s] # "cancelled"

(* A call of the provider runs its tool at most once, or MaxAttempts times *)
(* when the tool is idempotent, however many duplicates arrive, whenever   *)
(* they do, and whatever the event sink refuses, unless an owner of the    *)
(* call was cancelled.                                                     *)
EffectsBounded ==
    \A r \in Requests : Owned(r) /\ Undisturbed(key[r]) =>
        runs[key[r]] <= IF tool[r] \in Idempotent THEN MaxAttempts ELSE 1

(* No tool function is started unless it is known, its arguments are       *)
(* valid, its permission is allowed and a required approval was given      *)
(* (the order of the checks in _execute_owner).                            *)
OnlyAuthorisedRuns ==
    \A r \in Requests : pc[r] \in {"starting", "running", "completing", "retrying"} =>
        /\ tool[r] \in Known \cap Permitted
        /\ valid[r]
        /\ tool[r] \in NeedsApproval => decision[r] = "approved"

(* All requests for one key that got an answer got the same one, unless    *)
(* the invocation ended or their owner was cancelled under them:           *)
(* duplicates share the owner's result, a failure of the sink included.    *)
AnswersAgree ==
    \A r, s \in Requests :
        /\ pc[r] = "returned" /\ pc[s] = "returned" /\ key[r] = key[s]
        /\ key[r][1] \notin ended /\ Undisturbed(key[r])
        => answer[r] = answer[s]

(* A duplicate never waits for a future that nobody will resolve: as long  *)
(* as it is pending its owner goes through the pipeline for the same key,  *)
(* and until end_invocation(), which needs it there to cancel it, it is    *)
(* the one stored under the key (every way out of _execute_owner, a        *)
(* cancellation and a sink that raises included, settles the future).      *)
DuplicatesAreAnswered ==
    \A r \in Requests : pc[r] = "waiting" /\ future[waitFor[r]] = "pending" =>
        /\ Owner(waitFor[r])
        /\ key[waitFor[r]] = key[r]
        /\ key[r][1] \notin ended => calls[key[r]] = waitFor[r]

(* After end_invocation() nothing of the invocation is left in the tables. *)
NothingLeftAfterEnd ==
    \A i \in ended : i \notin locks /\ \A c \in Calls : calls[<<i, c>>] = None

(* A request that was answered by its owner has exactly one terminal tool  *)
(* event, TOOL_COMPLETED for a value and another for an error, and never   *)
(* has two, cancelled or not, unless the event sink raised for it; it has  *)
(* none, and its tool is not run, when the approval it needs could not     *)
(* even be asked for (_approval, before its try block).                    *)
OneTerminalEvent ==
    \A r \in Requests \ sinkFailed :
        LET events == IF decision[r] = "unasked" THEN 0 ELSE 1 IN
        /\ terminals[r] <= events
        /\ pc[r] = "returned" /\ Owned(r) => terminals[r] = events
        /\ decision[r] = "unasked" => attempt[r] = 0

-----------------------------------------------------------------------------
(* Statements of the documentation that the code does not meet.            *)

(* A failing observer does not alter what a tool does: a call has at most  *)
(* one terminal event, so that a completed function is not run again       *)
(* (the except clauses of the attempt also catch errors of the sink).      *)
SinkFailureChangesNothing == \A r \in Requests : terminals[r] <= 1

(* "No handler, timeout, failure or invalid response means denial": an     *)
(* approval that was needed and not given ends in TOOL_DENIED (a handler   *)
(* that raises before it returns an awaitable is a tool error instead).    *)
EveryFailureDenies ==
    \A r \in Requests \ sinkFailed :
        pc[r] = "returned" /\ Owned(r) /\ tool[r] \in Permitted \cap NeedsApproval /\ valid[r]
            => decision[r] \in {"approved", "denied"}
=============================================================================
