------------------------ MODULE ToolExecutor_proof ------------------------
(***************************************************************************)
(* Proofs about ToolExecutor, for any number of requests, invocations,     *)
(* calls and tools, with cancellations and a sink that may raise.  Only    *)
(* the uniqueness of owners for ever (KeyInv) and the bound on the effects *)
(* need that no request arrives after end_invocation(); run                *)
(* ToolLateRequest shows what a late request does.                         *)
(***************************************************************************)
EXTENDS ToolExecutor, TLAPS

Attempting == {"starting", "running", "completing", "retrying"}

(* What the position of a coroutine says about its request: an owner has a *)
(* future, a duplicate awaits an existing one, and an attempt is counted.  *)
RequestInv ==
    /\ \A k \in Keys : calls[k] # None => future[calls[k]] # "none"
    /\ \A r \in Requests :
        /\ pc[r] # "idle" => key[r] \in Keys
        /\ pc[r] \in {"idle", "waiting"} => future[r] = "none"
        /\ pc[r] \in Pipeline => future[r] # "none"
        /\ pc[r] = "waiting" => waitFor[r] \in Requests /\ future[waitFor[r]] # "none"
        /\ pc[r] \in {"idle", "requested", "approving"} => attempt[r] = 0
        /\ pc[r] \in Attempting => attempt[r] > 0
        /\ pc[r] = "retrying" => attempt[r] < MaxAttempts
        /\ attempt[r] > 0 /\ MaxAttempts > 1 => tool[r] \in Idempotent

(* A request in or after the approval has passed the checks before it.     *)
AuthInv ==
    /\ OnlyAuthorisedRuns
    /\ \A r \in Requests : pc[r] = "approving" => ~Refused(r)

(* An owner's future is the one stored under its key until the invocation  *)
(* ends; nothing is stored for an ended invocation.                        *)
KeyInv ==
    /\ OneOwnerPerKey
    /\ locks \cap ended = {}
    /\ \A k \in Keys : calls[k] # None => key[calls[k]] = k /\ k[1] \notin ended
    /\ \A r \in Requests : Owner(r) => key[r][1] \in ended \/ calls[key[r]] = r

(* A key whose owners were not cancelled has one owner for good, whose     *)
(* future is the one stored until the invocation ends.                     *)
OwnedInv ==
    /\ \A k \in Keys : calls[k] # None => key[calls[k]] = k
    /\ \A r \in Requests :
        Owned(r) /\ Undisturbed(key[r]) => key[r][1] \in ended \/ calls[key[r]] = r

(* A pending future is that of an owner in the pipeline, who holds its key *)
(* until the invocation ends; a duplicate awaits the future of its key;    *)
(* and a coroutine that has ended has left an answer.                      *)
PendingInv ==
    /\ \A r \in Requests : pc[r] \in {"returned", "cancelled"} => answer[r] # "none"
    /\ \A r \in Requests : future[r] = "pending" => Owner(r)
    /\ \A r \in Requests : Owner(r) /\ key[r][1] \notin ended => calls[key[r]] = r
    /\ \A r \in Requests : pc[r] = "waiting" => key[waitFor[r]] = key[r]

(* Such a key is live until a late request may claim it again.             *)
Live(k) == Undisturbed(k) /\ (Late => k[1] \notin ended)

(* A live key has one owner, and the function was started for it at most   *)
(* once per attempt of that owner.                                         *)
EffectInv ==
    /\ \A r, s \in Requests : Owned(r) /\ Owned(s) /\ key[r] = key[s] /\ Live(key[r]) => r = s
    /\ \A r \in Requests : Owned(r) /\ Live(key[r]) =>
        /\ runs[key[r]] <= attempt[r]
        /\ pc[r] = "starting" => runs[key[r]] < attempt[r]
    /\ \A k \in Keys : runs[k] > 0 => \E r \in Requests : Owned(r) /\ key[r] = k

(* Neither ended nor abandoned by a cancelled owner.                       *)
Shared(k) == Undisturbed(k) /\ k[1] \notin ended

(* The future of a shared key is pending while its owner runs; the owner   *)
(* returns what it puts into it, and duplicates wait for it and return it. *)
AnswerInv ==
    \A r \in Requests : pc[r] # "idle" /\ Shared(key[r]) =>
        /\ Owned(r) /\ pc[r] \in Pipeline => future[r] = "pending"
        /\ Owned(r) /\ pc[r] = "returned" => answer[r] = future[r]
        /\ ~Owned(r) /\ pc[r] \in {"waiting", "returned"} =>
              waitFor[r] \in Requests /\ waitFor[r] = calls[key[r]]
        /\ ~Owned(r) /\ pc[r] = "returned" =>
              answer[r] = future[waitFor[r]] /\ future[waitFor[r]] # "pending"

(* A terminal event is emitted on entering the last wait for the sink and  *)
(* nowhere else, for a request whose sink did not fail; the way out of an  *)
(* approval that could not be asked for passes neither an event nor an     *)
(* attempt.                                                                *)
TerminalInv ==
    \A r \in Requests \ sinkFailed :
        /\ pc[r] \in {"completing", "terminal"} => terminals[r] = 1
        /\ pc[r] \in Pipeline \ {"completing", "terminal"} => terminals[r] = 0
        /\ future[r] = "none" => terminals[r] = 0
        /\ pc[r] = "returned" /\ Owned(r) /\ decision[r] # "unasked" => terminals[r] = 1
        /\ terminals[r] <= 1
        /\ decision[r] = "unasked" => pc[r] = "returned" /\ terminals[r] = 0 /\ attempt[r] = 0

-----------------------------------------------------------------------------
(* The initial states satisfy all parts of the invariant.                  *)
LEMMA InitInv ==
    ASSUME Init
    PROVE  /\ TypeOK /\ RequestInv /\ AuthInv /\ KeyInv
           /\ OwnedInv /\ PendingInv /\ EffectInv /\ AnswerInv /\ TerminalInv
<1> USE NoneAssumption, PolicyAssumption DEF Init, Pipeline
<1>1. TypeOK
  BY DEF TypeOK, PCs
<1>2. RequestInv
  BY DEF RequestInv, Attempting
<1>3. AuthInv
  BY DEF AuthInv, OnlyAuthorisedRuns
<1>4. KeyInv
  BY DEF KeyInv, OneOwnerPerKey, Owner
<1>5. OwnedInv /\ PendingInv /\ EffectInv /\ AnswerInv
  BY DEF OwnedInv, PendingInv, EffectInv, AnswerInv, Owned, Owner
<1>6. TerminalInv
  <2>1. ASSUME NEW r \in Requests
        PROVE  pc[r] = "idle" /\ future[r] = "none" /\ terminals[r] = 0 /\ decision[r] = "none"
    OBVIOUS
  <2> HIDE DEF Init
  <2>2. ASSUME NEW r \in Requests
        PROVE  /\ pc[r] \notin {"completing", "terminal"} /\ pc[r] # "returned"
               /\ pc[r] \notin Pipeline /\ terminals[r] = 0 /\ terminals[r] <= 1
               /\ decision[r] # "unasked"
    BY <2>1
  <2> QED BY <2>2 DEF TerminalInv
<1> QED BY <1>1, <1>2, <1>3, <1>4, <1>5, <1>6

(* What a step of an owner touches: its own position, counters and answer, *)
(* and its future when it returns.                                         *)
LEMMA OwnerFrame ==
    ASSUME TypeOK, RequestInv, NEW r \in Requests, OwnerStep(r)
    PROVE  /\ pc[r] \in Pipeline
           /\ UNCHANGED <<key, tool, valid, calls, locks, waitFor, ended>>
           /\ pc'[r] \in Pipeline \cup {"returned"}
           /\ pc' = [pc EXCEPT ![r] = pc'[r]]
           /\ attempt' = [attempt EXCEPT ![r] = attempt'[r]]
           /\ attempt'[r] \in Nat /\ attempt[r] <= attempt'[r]
           /\ pc'[r] = "starting" => attempt[r] < attempt'[r]
           /\ UNCHANGED runs \/ CallFunction(r)
           /\ \/ pc'[r] # "returned" /\ UNCHANGED <<future, answer>>
              \/ /\ pc'[r] = "returned"
                 /\ answer'[r] \in {"value", "error", "raised"}
                 /\ answer' = [answer EXCEPT ![r] = answer'[r]]
                 /\ future' = [future EXCEPT ![r] = IF @ = "pending" THEN answer'[r] ELSE @]
<1> USE PolicyAssumption DEF TypeOK, RequestInv, PCs, Pipeline
<1>1. CASE Check(r)
  BY <1>1 DEF Check, Refused, StartOrFail, RetryIncompatible, EmitTerminal, Goto, Stay,
      reqVars, dedupVars
<1>2. CASE Approve(r)
  BY <1>2 DEF Approve, Decided, StartOrFail, RetryIncompatible, EmitTerminal, Goto, Stay,
      reqVars, dedupVars
<1>3. CASE Deny(r)
  BY <1>3 DEF Deny, Decided, EmitTerminal, Goto, Stay, reqVars, dedupVars
<1>4. CASE CallFunction(r)
  BY <1>4 DEF CallFunction, Goto, Stay, reqVars, dedupVars
<1>5. CASE FunctionReturns(r)
  BY <1>5 DEF FunctionReturns, Goto, Stay, reqVars, dedupVars
<1>6. CASE OutputInvalid(r)
  BY <1>6 DEF OutputInvalid, EmitTerminal, Goto, Stay, reqVars, dedupVars
<1>7. CASE FunctionFails(r)
  BY <1>7 DEF FunctionFails, RetryOrFail, EmitTerminal, Goto, Stay, reqVars, dedupVars
<1>8. CASE Retry(r)
  BY <1>8 DEF Retry, Goto, Stay, reqVars, dedupVars
<1>9. CASE Completed(r)
  BY <1>9 DEF Completed, Settle, Goto, reqVars
<1>10. CASE Failed(r)
  BY <1>10 DEF Failed, Failure, Settle, Goto, reqVars
<1>11. CASE SinkFails(r)
  BY <1>11 DEF SinkFails, Failure, Settle, Goto, reqVars
<1>12. CASE SinkFailsCompleted(r)
  BY <1>12 DEF SinkFailsCompleted, RetryOrFail, EmitTerminal, Goto, reqVars, dedupVars
<1>13. CASE AskFails(r)
  BY <1>13 DEF AskFails, Decided, Failure, Settle, Goto, reqVars
<1> QED BY <1>1, <1>2, <1>3, <1>4, <1>5, <1>6, <1>7, <1>8, <1>9, <1>10, <1>11, <1>12, <1>13 DEF
    OwnerStep
(* Every step preserves the types; the answer of a duplicate and the       *)
(* number of the next attempt need RequestInv.                             *)
LEMMA TypeStep ==
    ASSUME TypeOK, RequestInv, [Next]_vars
    PROVE  TypeOK'
<1> USE NoneAssumption, PolicyAssumption DEF vars, reqVars, dedupVars, TypeOK, RequestInv,
    Attempting, PCs, Pipeline
<1>1. ASSUME NEW r \in Requests, OwnerStep(r) PROVE TypeOK'
  <2>1. CASE Check(r)
    BY <1>1, <2>1 DEF Check, Refused, StartOrFail, RetryIncompatible, EmitTerminal, Goto,
        Stay
  <2>2. CASE Approve(r)
    BY <1>1, <2>2 DEF Approve, Decided, StartOrFail, RetryIncompatible, EmitTerminal, Goto, Stay
  <2>3. CASE Deny(r)
    BY <1>1, <2>3 DEF Deny, Decided, EmitTerminal, Goto, Stay
  <2>4. CASE CallFunction(r)
    BY <1>1, <2>4 DEF CallFunction, Goto, Stay
  <2>5. CASE FunctionReturns(r)
    BY <1>1, <2>5 DEF FunctionReturns, Goto, Stay
  <2>6. CASE OutputInvalid(r)
    BY <1>1, <2>6 DEF OutputInvalid, EmitTerminal, Goto, Stay
  <2>7. CASE FunctionFails(r)
    BY <1>1, <2>7 DEF FunctionFails, RetryOrFail, EmitTerminal, Goto, Stay
  <2>8. CASE Retry(r)
    BY <1>1, <2>8 DEF Retry, Goto, Stay
  <2>9. CASE Completed(r)
    BY <1>1, <2>9 DEF Completed, Settle, Goto
  <2>10. CASE Failed(r)
    BY <1>1, <2>10 DEF Failed, Failure, Settle, Goto
  <2>11. CASE SinkFails(r)
    BY <1>1, <2>11 DEF SinkFails, Failure, Settle, Goto
  <2>12. CASE SinkFailsCompleted(r)
    BY <1>1, <2>12 DEF SinkFailsCompleted, RetryOrFail, EmitTerminal, Goto, Stay
  <2>13. CASE AskFails(r)
    BY <1>1, <2>13 DEF AskFails, Decided, Failure, Settle, Goto, reqVars
  <2> QED BY <1>1, <2>1, <2>2, <2>3, <2>4, <2>5, <2>6, <2>7, <2>8, <2>9, <2>10, <2>11, <2>12, <2>13
      DEF OwnerStep
<1>2. ASSUME NEW r \in Requests, NEW k \in Keys, NEW n \in Tools, NEW v \in BOOLEAN,
             Execute(r, k, n, v)
      PROVE  TypeOK'
  <2>1. k[1] \in Invocations
    BY <1>2 DEF Keys
  <2>2. /\ key' \in [Requests -> Keys \cup {None}]
        /\ tool' \in [Requests -> Tools \cup {None}]
        /\ locks' \subseteq Invocations
        /\ UNCHANGED <<attempt, terminals, answer, decision, runs, ended, sinkFailed>>
    BY <1>2, <2>1 DEF Execute, Own, Join, Arrives
  <2>3. valid' \in [Requests -> BOOLEAN]
    BY <1>2 DEF Execute, Own, Join, Arrives
  <2>4. /\ pc' \in [Requests -> PCs]
        /\ calls' \in [Keys -> Requests \cup {None}]
        /\ waitFor' \in [Requests -> Requests \cup {None}]
    <3>1. CASE calls[k] = None
      BY <1>2, <3>1 DEF Execute, Own, Goto
    <3>2. CASE calls[k] # None
      BY <1>2, <3>2 DEF Execute, Join, Goto
    <3> QED BY <3>1, <3>2
  <2>5. future' \in [Requests -> {"none", "pending", "value", "error", "raised", "cancelled"}]
    BY <1>2 DEF Execute, Own, Join
  <2> QED BY <2>2, <2>3, <2>4, <2>5
<1>3. ASSUME NEW r \in Requests, CancelOwner(r) PROVE TypeOK'
  BY <1>3 DEF CancelOwner, Goto
<1>4. ASSUME NEW r \in Requests, Share(r) PROVE TypeOK'
  BY <1>4 DEF Share, Goto
<1>5. ASSUME NEW r \in Requests, CancelWaiter(r) PROVE TypeOK'
  BY <1>5 DEF CancelWaiter, Goto
<1>6. ASSUME NEW i \in Invocations, EndInvocation(i) PROVE TypeOK'
  BY <1>6 DEF EndInvocation, EndWith
<1>7. CASE UNCHANGED vars
  BY <1>7
<1> QED BY <1>1, <1>2, <1>3, <1>4, <1>5, <1>6, <1>7 DEF Next

(* Every step keeps position and request together.                         *)
LEMMA RequestStep ==
    ASSUME TypeOK, RequestInv, [Next]_vars
    PROVE  RequestInv'
<1> USE NoneAssumption, PolicyAssumption DEF vars, reqVars, dedupVars, TypeOK, RequestInv,
    Attempting, PCs, Pipeline
<1>1. ASSUME NEW r \in Requests, OwnerStep(r) PROVE RequestInv'
  <2>1. CASE Check(r)
    BY <1>1, <2>1 DEF Check, Refused, StartOrFail, RetryIncompatible, EmitTerminal, Goto,
        Stay
  <2>2. CASE Approve(r)
    BY <1>1, <2>2 DEF Approve, Decided, StartOrFail, RetryIncompatible, EmitTerminal, Goto, Stay
  <2>3. CASE Deny(r)
    BY <1>1, <2>3 DEF Deny, Decided, EmitTerminal, Goto, Stay
  <2>4. CASE CallFunction(r)
    BY <1>1, <2>4 DEF CallFunction, Goto, Stay
  <2>5. CASE FunctionReturns(r)
    BY <1>1, <2>5 DEF FunctionReturns, Goto, Stay
  <2>6. CASE OutputInvalid(r)
    BY <1>1, <2>6 DEF OutputInvalid, EmitTerminal, Goto, Stay
  <2>7. CASE FunctionFails(r)
    BY <1>1, <2>7 DEF FunctionFails, RetryOrFail, EmitTerminal, Goto, Stay
  <2>8. CASE Retry(r)
    <3>1. /\ pc' = [pc EXCEPT ![r] = "starting"]
          /\ attempt' = [attempt EXCEPT ![r] = @ + 1]
          /\ UNCHANGED <<key, tool, calls, future, waitFor>>
      BY <2>8 DEF Retry, Goto, Stay
    <3>2. tool[r] \in Idempotent \/ MaxAttempts = 1
      BY <2>8 DEF Retry
    <3>3. /\ attempt'[r] = attempt[r] + 1 /\ pc'[r] = "starting"
          /\ \A q \in Requests \ {r} : attempt'[q] = attempt[q] /\ pc'[q] = pc[q]
      BY <3>1
    <3>4. attempt[r] \in Nat /\ pc[r] = "retrying" /\ attempt[r] + 1 > 0
      BY <2>8 DEF Retry
    <3>5. attempt'[r] > 0 /\ pc'[r] = "starting"
      BY <3>3, <3>4
    <3> HIDE DEF TypeOK, PCs, Pipeline
    <3> QED BY <3>1, <3>2, <3>3, <3>4, <3>5 DEF Pipeline
  <2>9. CASE Completed(r)
    BY <1>1, <2>9 DEF Completed, Settle, Goto
  <2>10. CASE Failed(r)
    BY <1>1, <2>10 DEF Failed, Failure, Settle, Goto
  <2>11. CASE SinkFails(r)
    BY <1>1, <2>11 DEF SinkFails, Failure, Settle, Goto
  <2>12. CASE SinkFailsCompleted(r)
    BY <1>1, <2>12 DEF SinkFailsCompleted, RetryOrFail, EmitTerminal, Goto, Stay
  <2>13. CASE AskFails(r)
    BY <1>1, <2>13 DEF AskFails, Decided, Failure, Settle, Goto, reqVars
  <2> QED BY <1>1, <2>1, <2>2, <2>3, <2>4, <2>5, <2>6, <2>7, <2>8, <2>9, <2>10, <2>11, <2>12, <2>13
      DEF OwnerStep
<1>2. ASSUME NEW r \in Requests, NEW k \in Keys, NEW n \in Tools, NEW v \in BOOLEAN,
             Execute(r, k, n, v)
      PROVE  RequestInv'
  <2>1. CASE calls[k] = None
    BY <1>2, <2>1 DEF Execute, Own, Arrives, Goto
  <2>2. CASE calls[k] # None
    BY <1>2, <2>2 DEF Execute, Join, Arrives, Goto
  <2> QED BY <2>1, <2>2
<1>3. ASSUME NEW r \in Requests, CancelOwner(r) PROVE RequestInv'
  BY <1>3 DEF CancelOwner, Goto
<1>4. ASSUME NEW r \in Requests, Share(r) PROVE RequestInv'
  BY <1>4 DEF Share, Goto
<1>5. ASSUME NEW r \in Requests, CancelWaiter(r) PROVE RequestInv'
  BY <1>5 DEF CancelWaiter, Goto
<1>6. ASSUME NEW i \in Invocations, EndInvocation(i) PROVE RequestInv'
  BY <1>6 DEF EndInvocation, EndWith
<1>7. CASE UNCHANGED vars
  BY <1>7
<1> QED BY <1>1, <1>2, <1>3, <1>4, <1>5, <1>6, <1>7 DEF Next

(* No step starts a tool around one of the checks.                         *)
LEMMA AuthStep ==
    ASSUME TypeOK, AuthInv, [Next]_vars
    PROVE  AuthInv'
<1> USE DEF vars, reqVars, dedupVars, TypeOK, AuthInv, OnlyAuthorisedRuns, Refused, PCs,
    Pipeline
<1>1. ASSUME NEW r \in Requests, OwnerStep(r) PROVE AuthInv'
  <2>1. CASE Check(r)
    BY <1>1, <2>1 DEF Check, Refused, StartOrFail, RetryIncompatible, EmitTerminal, Goto,
        Stay
  <2>2. CASE Approve(r)
    BY <1>1, <2>2 DEF Approve, Decided, StartOrFail, RetryIncompatible, EmitTerminal, Goto, Stay
  <2>3. CASE Deny(r)
    BY <1>1, <2>3 DEF Deny, Decided, EmitTerminal, Goto, Stay
  <2>4. CASE CallFunction(r)
    BY <1>1, <2>4 DEF CallFunction, Goto, Stay
  <2>5. CASE FunctionReturns(r)
    BY <1>1, <2>5 DEF FunctionReturns, Goto, Stay
  <2>6. CASE OutputInvalid(r)
    BY <1>1, <2>6 DEF OutputInvalid, EmitTerminal, Goto, Stay
  <2>7. CASE FunctionFails(r)
    BY <1>1, <2>7 DEF FunctionFails, RetryOrFail, EmitTerminal, Goto, Stay
  <2>8. CASE Retry(r)
    BY <1>1, <2>8 DEF Retry, Goto, Stay
  <2>9. CASE Completed(r)
    BY <1>1, <2>9 DEF Completed, Settle, Goto
  <2>10. CASE Failed(r)
    BY <1>1, <2>10 DEF Failed, Failure, Settle, Goto
  <2>11. CASE SinkFails(r)
    BY <1>1, <2>11 DEF SinkFails, Failure, Settle, Goto
  <2>12. CASE SinkFailsCompleted(r)
    BY <1>1, <2>12 DEF SinkFailsCompleted, RetryOrFail, EmitTerminal, Goto, Stay
  <2>13. CASE AskFails(r)
    BY <1>1, <2>13 DEF AskFails, Decided, Failure, Settle, Goto, reqVars
  <2> QED BY <1>1, <2>1, <2>2, <2>3, <2>4, <2>5, <2>6, <2>7, <2>8, <2>9, <2>10, <2>11, <2>12, <2>13
      DEF OwnerStep
<1>2. ASSUME NEW r \in Requests, NEW k \in Keys, NEW n \in Tools, NEW v \in BOOLEAN,
             Execute(r, k, n, v)
      PROVE  AuthInv'
  <2>1. CASE calls[k] = None
    BY <1>2, <2>1 DEF Execute, Own, Arrives, Goto
  <2>2. CASE calls[k] # None
    BY <1>2, <2>2 DEF Execute, Join, Arrives, Goto
  <2> QED BY <2>1, <2>2
<1>3. ASSUME NEW r \in Requests, CancelOwner(r) PROVE AuthInv'
  BY <1>3 DEF CancelOwner, Goto
<1>4. ASSUME NEW r \in Requests, Share(r) PROVE AuthInv'
  BY <1>4 DEF Share, Goto
<1>5. ASSUME NEW r \in Requests, CancelWaiter(r) PROVE AuthInv'
  BY <1>5 DEF CancelWaiter, Goto
<1>6. ASSUME NEW i \in Invocations, EndInvocation(i) PROVE AuthInv'
  BY <1>6 DEF EndInvocation, EndWith
<1>7. CASE UNCHANGED vars
  BY <1>7
<1> QED BY <1>1, <1>2, <1>3, <1>4, <1>5, <1>6, <1>7 DEF Next

(* A key is claimed and released by its owner only, as long as nothing     *)
(* arrives after the end of its invocation.                                *)
LEMMA KeyStep ==
    ASSUME ~Late, TypeOK, RequestInv, KeyInv, [Next]_vars
    PROVE  KeyInv'
<1> USE NoneAssumption DEF vars, reqVars, dedupVars, TypeOK, RequestInv, KeyInv,
    OneOwnerPerKey, Owner, PCs, Pipeline
<1>1. ASSUME NEW r \in Requests, OwnerStep(r) PROVE KeyInv'
  BY <1>1, OwnerFrame
<1>2. ASSUME NEW r \in Requests, NEW k \in Keys, NEW n \in Tools, NEW v \in BOOLEAN,
             Execute(r, k, n, v)
      PROVE  KeyInv'
  <2>1. CASE calls[k] = None
    BY <1>2, <2>1 DEF Execute, Own, Arrives, Goto
  <2>2. CASE calls[k] # None
    BY <1>2, <2>2 DEF Execute, Join, Arrives, Goto
  <2> QED BY <2>1, <2>2
<1>3. ASSUME NEW r \in Requests, CancelOwner(r) PROVE KeyInv'
  BY <1>3 DEF CancelOwner, Goto
<1>4. ASSUME NEW r \in Requests, Share(r) PROVE KeyInv'
  BY <1>4 DEF Share, Goto
<1>5. ASSUME NEW r \in Requests, CancelWaiter(r) PROVE KeyInv'
  BY <1>5 DEF CancelWaiter, Goto
<1>6. ASSUME NEW i \in Invocations, EndInvocation(i) PROVE KeyInv'
  BY <1>6 DEF EndInvocation, EndWith
<1>7. CASE UNCHANGED vars
  BY <1>7
<1> QED BY <1>1, <1>2, <1>3, <1>4, <1>5, <1>6, <1>7 DEF Next

(* An owner keeps its key and stays an owner, and a cancelled coroutine    *)
(* stays cancelled ...                                                     *)
LEMMA OwnedFrame ==
    ASSUME TypeOK, RequestInv, [Next]_vars
    PROVE  /\ \A q \in Requests : pc[q] # "idle" => key'[q] = key[q] /\ pc'[q] # "idle"
           /\ \A q \in Requests : Owned(q) => Owned(q)' /\ pc[q] # "idle"
           /\ \A q \in Requests : pc[q] = "cancelled" => pc'[q] = "cancelled"
           /\ ended \subseteq ended'
<1> DEFINE Kept(q) == /\ pc[q] # "idle" => key'[q] = key[q] /\ pc'[q] # "idle"
                      /\ Owned(q) => Owned(q)' /\ pc[q] # "idle"
                      /\ pc[q] = "cancelled" => pc'[q] = "cancelled"
           Goal == (\A q \in Requests : Kept(q)) /\ ended \subseteq ended'
<1> SUFFICES Goal
  OBVIOUS
<1> USE DEF vars, reqVars, dedupVars, TypeOK, RequestInv, Owned, PCs, Pipeline
<1>1. ASSUME NEW r \in Requests, OwnerStep(r) PROVE Goal
  BY <1>1, OwnerFrame
<1>2. ASSUME NEW r \in Requests, NEW k \in Keys, NEW n \in Tools, NEW v \in BOOLEAN,
             Execute(r, k, n, v)
      PROVE  Goal
  BY <1>2 DEF Execute, Own, Join, Arrives, Goto
<1>3. ASSUME NEW r \in Requests, CancelOwner(r) PROVE Goal
  BY <1>3 DEF CancelOwner, Goto
<1>4. ASSUME NEW r \in Requests, Share(r) PROVE Goal
  BY <1>4 DEF Share, Goto
<1>5. ASSUME NEW r \in Requests, CancelWaiter(r) PROVE Goal
  BY <1>5 DEF CancelWaiter, Goto
<1>6. ASSUME NEW i \in Invocations, EndInvocation(i) PROVE Goal
  BY <1>6 DEF EndInvocation, EndWith
<1>7. CASE UNCHANGED vars
  BY <1>7
<1> QED BY <1>1, <1>2, <1>3, <1>4, <1>5, <1>6, <1>7 DEF Next

(* ... so a key that is undisturbed after a step was so before.            *)
LEMMA UndisturbedBefore ==
    ASSUME TypeOK, RequestInv, [Next]_vars, NEW k
    PROVE  /\ Undisturbed(k)' => Undisturbed(k)
           /\ Live(k)' => Live(k)
           /\ Shared(k)' => Shared(k)
<1>1. Undisturbed(k)' => Undisturbed(k)
  BY OwnedFrame DEF Undisturbed
<1>2. k[1] \in ended => k[1] \in ended'
  BY OwnedFrame
<1> QED BY <1>1, <1>2 DEF Live, Shared

(* A key is claimed only when no future is stored for it, and released     *)
(* only with the end of the invocation or a cancelled owner.               *)
LEMMA OwnedStep ==
    ASSUME TypeOK, RequestInv, OwnedInv, [Next]_vars
    PROVE  OwnedInv'
<1> USE NoneAssumption DEF vars, reqVars, dedupVars, TypeOK, RequestInv, OwnedInv, PCs
<1>1. ASSUME NEW r \in Requests, OwnerStep(r) PROVE OwnedInv'
  BY <1>1, OwnerFrame, UndisturbedBefore DEF Owned
<1>2. ASSUME NEW r \in Requests, NEW k \in Keys, NEW n \in Tools, NEW v \in BOOLEAN,
             Execute(r, k, n, v)
      PROVE  OwnedInv'
  <2>1. CASE calls[k] = None
    BY <1>2, <2>1, UndisturbedBefore DEF Execute, Own, Arrives, Goto, Owned
  <2>2. CASE calls[k] # None
    BY <1>2, <2>2, UndisturbedBefore DEF Execute, Join, Arrives, Goto, Owned
  <2> QED BY <2>1, <2>2
<1>3. ASSUME NEW r \in Requests, CancelOwner(r) PROVE OwnedInv'
  <2>1. ~Undisturbed(key[r])'
    BY <1>3 DEF CancelOwner, Goto, Undisturbed, Owned, Pipeline
  <2>2. \A q \in Requests : Owned(q)' = Owned(q)
    BY <1>3 DEF CancelOwner, Owned
  <2> QED BY <1>3, <2>1, <2>2, UndisturbedBefore DEF CancelOwner
<1>4. ASSUME NEW r \in Requests, Share(r) PROVE OwnedInv'
  BY <1>4, UndisturbedBefore DEF Share, Owned
<1>5. ASSUME NEW r \in Requests, CancelWaiter(r) PROVE OwnedInv'
  BY <1>5, UndisturbedBefore DEF CancelWaiter, Owned
<1>6. ASSUME NEW i \in Invocations, EndInvocation(i) PROVE OwnedInv'
  <2>1. \A q \in Requests : Owned(q)' = Owned(q)
    BY <1>6 DEF EndInvocation, EndWith, Owned
  <2>2. /\ ended' = ended \cup {i} /\ key' = key
        /\ \A k \in Keys : calls'[k] = IF k[1] = i THEN None ELSE calls[k]
    BY <1>6 DEF EndInvocation, EndWith
  <2>3. \A r \in Requests : Owned(r) => key[r] \in Keys
    BY DEF Owned
  <2> QED BY <2>1, <2>2, <2>3, UndisturbedBefore
<1>7. CASE UNCHANGED vars
  BY <1>7, UndisturbedBefore DEF Owned
<1> QED BY <1>1, <1>2, <1>3, <1>4, <1>5, <1>6, <1>7 DEF Next

(* An owner settles its future on every way out of the pipeline, and its   *)
(* key is released under it by the end of the invocation only.             *)
LEMMA PendingStep ==
    ASSUME TypeOK, RequestInv, OwnedInv, PendingInv, [Next]_vars
    PROVE  PendingInv'
<1> USE NoneAssumption DEF vars, reqVars, dedupVars, TypeOK, RequestInv, OwnedInv, PendingInv,
    Owner, PCs, Pipeline
<1>1. ASSUME NEW r \in Requests, OwnerStep(r) PROVE PendingInv'
  BY <1>1, OwnerFrame
<1>2. ASSUME NEW r \in Requests, NEW k \in Keys, NEW n \in Tools, NEW v \in BOOLEAN,
             Execute(r, k, n, v)
      PROVE  PendingInv'
  <2>1. CASE calls[k] = None
    BY <1>2, <2>1 DEF Execute, Own, Arrives, Goto
  <2>2. CASE calls[k] # None
    BY <1>2, <2>2 DEF Execute, Join, Arrives, Goto
  <2> QED BY <2>1, <2>2
<1>3. ASSUME NEW r \in Requests, CancelOwner(r) PROVE PendingInv'
  BY <1>3 DEF CancelOwner, Goto
<1>4. ASSUME NEW r \in Requests, Share(r) PROVE PendingInv'
  BY <1>4 DEF Share, Goto
<1>5. ASSUME NEW r \in Requests, CancelWaiter(r) PROVE PendingInv'
  BY <1>5 DEF CancelWaiter, Goto
<1>6. ASSUME NEW i \in Invocations, EndInvocation(i) PROVE PendingInv'
  BY <1>6 DEF EndInvocation, EndWith
<1>7. CASE UNCHANGED vars
  BY <1>7
<1> QED BY <1>1, <1>2, <1>3, <1>4, <1>5, <1>6, <1>7 DEF Next

(* Only the one owner of a live key starts its tool, once per attempt.     *)
LEMMA EffectStep ==
    ASSUME TypeOK, RequestInv, OwnedInv, EffectInv, [Next]_vars
    PROVE  EffectInv'
<1> USE NoneAssumption, PolicyAssumption DEF vars, reqVars, dedupVars, TypeOK, RequestInv,
    EffectInv, PCs
<1>1. ASSUME NEW r \in Requests, OwnerStep(r) PROVE EffectInv'
  <2>1. \A q \in Requests : Owned(q)' = Owned(q)
    BY <1>1, OwnerFrame DEF Owned
  <2>2. CASE CallFunction(r)
    BY <2>1, <2>2, UndisturbedBefore DEF CallFunction, Goto, Stay, Owned, Pipeline
  <2>3. CASE UNCHANGED runs
    <3>1. /\ Owned(r) /\ key[r] \in Keys /\ runs[key[r]] \in Nat
          /\ attempt[r] \in Nat /\ attempt'[r] \in Nat
      BY <1>1, OwnerFrame DEF Pipeline, Owned
    <3>2. Live(key[r]) =>
             /\ runs[key[r]] <= attempt'[r]
             /\ pc'[r] = "starting" => runs[key[r]] < attempt'[r]
      BY <1>1, <3>1, OwnerFrame
    <3> QED BY <1>1, <2>1, <2>3, <3>2, OwnerFrame, UndisturbedBefore
  <2> QED BY <1>1, <2>2, <2>3, OwnerFrame
<1>2. ASSUME NEW r \in Requests, NEW k \in Keys, NEW n \in Tools, NEW v \in BOOLEAN,
             Execute(r, k, n, v)
      PROVE  EffectInv'
  <2>1. CASE calls[k] = None
    <3>1. \A q \in Requests \ {r} : Owned(q) /\ key[q] = k => ~Live(k)
      BY <1>2, <2>1 DEF Execute, OwnedInv, Live
    <3> QED BY <1>2, <2>1, <3>1, UndisturbedBefore DEF Execute, Own, Arrives, Goto, Owned
  <2>2. CASE calls[k] # None
    BY <1>2, <2>2, UndisturbedBefore DEF Execute, Join, Arrives, Goto, Owned
  <2> QED BY <2>1, <2>2
<1>3. ASSUME NEW r \in Requests, CancelOwner(r) PROVE EffectInv'
  BY <1>3, UndisturbedBefore DEF CancelOwner, Goto, Owned
<1>4. ASSUME NEW r \in Requests, Share(r) PROVE EffectInv'
  BY <1>4, UndisturbedBefore DEF Share, Goto, Owned
<1>5. ASSUME NEW r \in Requests, CancelWaiter(r) PROVE EffectInv'
  BY <1>5, UndisturbedBefore DEF CancelWaiter, Goto, Owned
<1>6. ASSUME NEW i \in Invocations, EndInvocation(i) PROVE EffectInv'
  <2>1. \A q \in Requests : Owned(q)' = Owned(q)
    BY <1>6 DEF EndInvocation, EndWith, Owned
  <2> QED BY <1>6, <2>1, UndisturbedBefore DEF EndInvocation, EndWith
<1>7. CASE UNCHANGED vars
  BY <1>7, UndisturbedBefore DEF Owned
<1> QED BY <1>1, <1>2, <1>3, <1>4, <1>5, <1>6, <1>7 DEF Next

(* Owner and duplicates of a shared key see one future.                    *)
LEMMA AnswerStep ==
    ASSUME TypeOK, RequestInv, OwnedInv, AnswerInv, [Next]_vars
    PROVE  AnswerInv'
<1> USE NoneAssumption DEF vars, reqVars, dedupVars, TypeOK, RequestInv, AnswerInv, PCs
<1>1. ASSUME NEW r \in Requests, OwnerStep(r) PROVE AnswerInv'
  <2>1. \A q \in Requests : Owned(q)' = Owned(q)
    BY <1>1, OwnerFrame DEF Owned
  <2> QED BY <1>1, <2>1, OwnerFrame, UndisturbedBefore DEF Owned, Pipeline
<1>2. ASSUME NEW r \in Requests, NEW k \in Keys, NEW n \in Tools, NEW v \in BOOLEAN,
             Execute(r, k, n, v)
      PROVE  AnswerInv'
  <2>1. CASE calls[k] = None
    BY <1>2, <2>1, UndisturbedBefore DEF Execute, Own, Arrives, Goto, Owned, Pipeline
  <2>2. CASE calls[k] # None
    BY <1>2, <2>2, UndisturbedBefore DEF Execute, Join, Arrives, Goto, Owned, Pipeline
  <2> QED BY <2>1, <2>2
<1>3. ASSUME NEW r \in Requests, CancelOwner(r) PROVE AnswerInv'
  <2>1. ~Shared(key[r])'
    BY <1>3 DEF CancelOwner, Goto, Undisturbed, Owned, Pipeline, Shared
  <2>2. \A q \in Requests : Owned(q)' = Owned(q)
    BY <1>3 DEF CancelOwner, Owned
  <2> QED BY <1>3, <2>1, <2>2, UndisturbedBefore DEF CancelOwner, Goto, Pipeline, Owned
<1>4. ASSUME NEW r \in Requests, Share(r) PROVE AnswerInv'
  <2>1. /\ pc[r] = "waiting" /\ future[waitFor[r]] # "pending"
        /\ pc' = [pc EXCEPT ![r] = "returned"]
        /\ answer' = [answer EXCEPT ![r] = future[waitFor[r]]]
        /\ UNCHANGED <<key, calls, future, waitFor, ended>>
    BY <1>4 DEF Share, Goto
  <2>2. /\ pc'[r] = "returned" /\ answer'[r] = future[waitFor[r]] /\ ~Owned(r)
        /\ \A q \in Requests \ {r} : pc'[q] = pc[q] /\ answer'[q] = answer[q]
        /\ \A q \in Requests : Owned(q)' = Owned(q)
    BY <2>1 DEF Owned
  <2>3. ASSUME NEW q \in Requests, pc'[q] # "idle", Shared(key[q])'
        PROVE  pc[q] # "idle" /\ key'[q] = key[q] /\ Shared(key[q])
    BY <2>1, <2>2, <2>3, UndisturbedBefore
  <2> HIDE DEF TypeOK, RequestInv, PCs
  <2>4. ASSUME NEW q \in Requests, pc'[q] # "idle", Shared(key[q])', q # r
        PROVE  /\ Owned(q)' /\ pc'[q] \in Pipeline => future'[q] = "pending"
               /\ Owned(q)' /\ pc'[q] = "returned" => answer'[q] = future'[q]
               /\ ~Owned(q)' /\ pc'[q] \in {"waiting", "returned"} =>
                     waitFor'[q] \in Requests /\ waitFor'[q] = calls'[key'[q]]
               /\ ~Owned(q)' /\ pc'[q] = "returned" =>
                     answer'[q] = future'[waitFor'[q]] /\ future'[waitFor'[q]] # "pending"
    BY <2>1, <2>2, <2>3, <2>4
  <2>5. ASSUME Shared(key[r])'
        PROVE  waitFor[r] \in Requests /\ waitFor[r] = calls[key[r]]
    BY <2>1, <2>2, <2>3, <2>5
  <2> QED BY <2>1, <2>2, <2>4, <2>5
<1>5. ASSUME NEW r \in Requests, CancelWaiter(r) PROVE AnswerInv'
  BY <1>5, UndisturbedBefore DEF CancelWaiter, Goto, Owned, Pipeline
<1>6. ASSUME NEW i \in Invocations, EndInvocation(i) PROVE AnswerInv'
  <2>1. \A q \in Requests : Owned(q)' = Owned(q)
    BY <1>6 DEF EndInvocation, EndWith, Owned
  <2>2. \A k \in Keys : k[1] \notin ended' => k[1] # i /\ calls'[k] = calls[k]
    BY <1>6 DEF EndInvocation, EndWith
  <2>3. ASSUME NEW q \in Requests, Owned(q), Shared(key[q])' PROVE future'[q] = future[q]
    BY <1>6, <2>2, <2>3 DEF EndInvocation, EndWith, OwnedInv, Shared, Owned
  <2>4. UNCHANGED <<pc, key, waitFor, answer>>
    BY <1>6 DEF EndInvocation, EndWith
  <2>5. ASSUME NEW q \in Requests, pc[q] # "idle", Shared(key[q])'
        PROVE  /\ key[q] \in Keys /\ calls'[key[q]] = calls[key[q]] /\ Shared(key[q])
               /\ calls[key[q]] \in Requests =>
                      future'[calls[key[q]]] = future[calls[key[q]]]
    <3>1. key[q] \in Keys /\ Shared(key[q]) /\ key'[q] = key[q]
      BY <2>4, <2>5, UndisturbedBefore
    <3>2. calls'[key[q]] = calls[key[q]]
      BY <2>2, <2>5, <3>1 DEF Shared
    <3>3. ASSUME calls[key[q]] \in Requests
          PROVE  Owned(calls[key[q]]) /\ key[calls[key[q]]] = key[q]
      BY <3>1, <3>3 DEF OwnedInv, Owned
    <3> QED BY <2>3, <2>4, <2>5, <3>1, <3>2, <3>3 DEF Shared
  <2> HIDE DEF TypeOK, RequestInv, AnswerInv, PCs
  <2>6. ASSUME NEW q \in Requests, pc[q] # "idle", Shared(key[q])', Owned(q)
        PROVE  future'[q] = future[q]
    BY <2>3, <2>6
  <2> QED BY <2>1, <2>4, <2>5, <2>6 DEF AnswerInv
<1>7. CASE UNCHANGED vars
  BY <1>7, UndisturbedBefore DEF Owned
<1> QED BY <1>1, <1>2, <1>3, <1>4, <1>5, <1>6, <1>7 DEF Next

(* A terminal event is emitted once, on the way to the last wait.          *)
LEMMA TerminalStep ==
    ASSUME TypeOK, RequestInv, TerminalInv, [Next]_vars
    PROVE  TerminalInv'
<1> USE DEF vars, reqVars, dedupVars, TypeOK, RequestInv, TerminalInv, Owned, PCs, Pipeline
<1>1. ASSUME NEW r \in Requests, OwnerStep(r) PROVE TerminalInv'
  <2>1. CASE Check(r)
    BY <1>1, <2>1 DEF Check, Refused, StartOrFail, RetryIncompatible, EmitTerminal,
        Goto, Stay, reqVars, dedupVars
  <2>2. CASE Approve(r)
    BY <1>1, <2>2 DEF Approve, Decided, StartOrFail, RetryIncompatible, EmitTerminal, Goto, Stay,
        reqVars, dedupVars
  <2>3. CASE Deny(r)
    BY <1>1, <2>3 DEF Deny, Decided, EmitTerminal, Goto, Stay, reqVars, dedupVars
  <2>4. CASE CallFunction(r)
    BY <1>1, <2>4 DEF CallFunction, Goto, Stay, reqVars, dedupVars
  <2>5. CASE FunctionReturns(r)
    BY <1>1, <2>5 DEF FunctionReturns, Goto, Stay, reqVars, dedupVars
  <2>6. CASE OutputInvalid(r)
    BY <1>1, <2>6 DEF OutputInvalid, EmitTerminal, Goto, Stay, reqVars, dedupVars
  <2>7. CASE FunctionFails(r)
    BY <1>1, <2>7 DEF FunctionFails, RetryOrFail, EmitTerminal, Goto, Stay, reqVars,
        dedupVars
  <2>8. CASE Retry(r)
    BY <1>1, <2>8 DEF Retry, Goto, Stay, reqVars, dedupVars
  <2>9. CASE Completed(r)
    BY <1>1, <2>9 DEF Completed, Settle, Goto, reqVars
  <2>10. CASE Failed(r)
    BY <1>1, <2>10 DEF Failed, Failure, Settle, Goto, reqVars
  <2>11. CASE SinkFails(r)
    BY <1>1, <2>11 DEF SinkFails, Failure, Settle, Goto, reqVars
  <2>12. CASE SinkFailsCompleted(r)
    BY <1>1, <2>12 DEF SinkFailsCompleted, RetryOrFail, EmitTerminal, Goto, reqVars,
        dedupVars
  <2>13. CASE AskFails(r)
    BY <1>1, <2>13 DEF AskFails, Decided, Failure, Settle, Goto, reqVars
  <2> QED BY <1>1, <2>1, <2>2, <2>3, <2>4, <2>5, <2>6, <2>7, <2>8, <2>9, <2>10, <2>11,
      <2>12, <2>13 DEF OwnerStep
<1>2. ASSUME NEW r \in Requests, NEW k \in Keys, NEW n \in Tools, NEW v \in BOOLEAN,
             Execute(r, k, n, v)
      PROVE  TerminalInv'
  BY <1>2 DEF Execute, Own, Join, Arrives, Goto
<1>3. ASSUME NEW r \in Requests, CancelOwner(r) PROVE TerminalInv'
  BY <1>3 DEF CancelOwner, Goto
<1>4. ASSUME NEW r \in Requests, Share(r) PROVE TerminalInv'
  BY <1>4 DEF Share, Goto
<1>5. ASSUME NEW r \in Requests, CancelWaiter(r) PROVE TerminalInv'
  BY <1>5 DEF CancelWaiter, Goto
<1>6. ASSUME NEW i \in Invocations, EndInvocation(i) PROVE TerminalInv'
  BY <1>6 DEF EndInvocation, EndWith
<1>7. CASE UNCHANGED vars
  BY <1>7
<1> QED BY <1>1, <1>2, <1>3, <1>4, <1>5, <1>6, <1>7 DEF Next

-----------------------------------------------------------------------------
(* The parts that hold of every execution.                                 *)
LEMMA RequestInvariance == Spec => [](TypeOK /\ RequestInv /\ AuthInv)
<1>1. Init => TypeOK /\ RequestInv /\ AuthInv
  BY InitInv
<1>2. TypeOK /\ RequestInv /\ AuthInv /\ [Next]_vars => (TypeOK /\ RequestInv /\ AuthInv)'
  BY TypeStep, RequestStep, AuthStep
<1> QED BY <1>1, <1>2, PTL DEF Spec

(* Without late requests, every key has one owner.                         *)
LEMMA KeyInvariance ==
    ASSUME ~Late
    PROVE  Spec => []KeyInv
<1>1. Init => KeyInv
  BY InitInv
<1>2. TypeOK /\ RequestInv /\ KeyInv /\ [Next]_vars => KeyInv'
  BY KeyStep
<1> QED BY <1>1, <1>2, RequestInvariance, PTL DEF Spec

(* The executor's tables and coroutines keep their types.                  *)
THEOREM TypeCorrect == Spec => []TypeOK
BY RequestInvariance, PTL

(* A tool function is started only for a known tool with valid arguments   *)
(* and an allowed permission, and after an approval where one is needed.   *)
THEOREM AuthorisationTheorem == Spec => []OnlyAuthorisedRuns
<1>1. AuthInv => OnlyAuthorisedRuns
  BY DEF AuthInv
<1> QED BY <1>1, RequestInvariance, PTL

(* While no request arrives after the end of its invocation, only one      *)
(* owner executes a key at a time, even if owners are cancelled.           *)
THEOREM OwnerTheorem ==
    ASSUME ~Late
    PROVE  Spec => []OneOwnerPerKey
<1>1. KeyInv => OneOwnerPerKey
  BY DEF KeyInv
<1> QED BY <1>1, KeyInvariance, PTL

(* Under the same condition end_invocation() leaves nothing behind.        *)
THEOREM CleanupTheorem ==
    ASSUME ~Late
    PROVE  Spec => []NothingLeftAfterEnd
<1>1. TypeOK /\ KeyInv => NothingLeftAfterEnd
  BY NoneAssumption DEF KeyInv, TypeOK, NothingLeftAfterEnd, Keys
<1> QED BY <1>1, RequestInvariance, KeyInvariance, PTL

(* The parts about keys and events, which hold of every execution too.     *)
LEMMA KeysInvariance == Spec => [](OwnedInv /\ EffectInv /\ AnswerInv /\ TerminalInv)
<1>1. Init => OwnedInv /\ EffectInv /\ AnswerInv /\ TerminalInv
  BY InitInv
<1>2. TypeOK /\ RequestInv /\ OwnedInv /\ EffectInv /\ AnswerInv /\ TerminalInv /\ [Next]_vars
         => (OwnedInv /\ EffectInv /\ AnswerInv /\ TerminalInv)'
  BY OwnedStep, EffectStep, AnswerStep, TerminalStep
<1> QED BY <1>1, <1>2, RequestInvariance, PTL DEF Spec

(* The bound on the effects of a live key.                                 *)
LEMMA EffectBound ==
    ASSUME TypeOK, RequestInv, EffectInv, NEW r \in Requests, Owned(r), Live(key[r])
    PROVE  runs[key[r]] <= IF tool[r] \in Idempotent THEN MaxAttempts ELSE 1
<1>1. key[r] \in Keys
  BY DEF RequestInv, TypeOK, PCs, Owned
<1>2. runs[key[r]] \in Nat /\ attempt[r] \in 0..MaxAttempts /\ runs[key[r]] <= attempt[r]
  BY <1>1 DEF TypeOK, EffectInv
<1>3. CASE tool[r] \in Idempotent
  BY <1>2, <1>3, PolicyAssumption
<1>4. CASE tool[r] \notin Idempotent
  BY <1>2, <1>4, PolicyAssumption DEF RequestInv
<1> QED BY <1>3, <1>4

(* While no request arrives after the end of its invocation, a call runs   *)
(* its tool at most once, or MaxAttempts times if it is idempotent,        *)
(* whatever the number of duplicates, whether or not the event sink fails, *)
(* unless an owner of that call was cancelled.                             *)
THEOREM EffectsTheorem ==
    ASSUME ~Late
    PROVE  Spec => []EffectsBounded
<1>1. TypeOK /\ RequestInv /\ EffectInv => EffectsBounded
  BY EffectBound DEF EffectsBounded, Live
<1> QED BY <1>1, RequestInvariance, KeysInvariance, PTL

(* All requests for one call that were answered before the end of the      *)
(* invocation got the same answer, unless an owner was cancelled.          *)
THEOREM AnswersTheorem == Spec => []AnswersAgree
<1>1. RequestInv /\ OwnedInv /\ AnswerInv => AnswersAgree
  <2> SUFFICES ASSUME RequestInv, OwnedInv, AnswerInv, NEW r \in Requests, NEW s \in Requests,
                      pc[r] = "returned", pc[s] = "returned", key[r] = key[s], Shared(key[r])
               PROVE  answer[r] = answer[s]
    BY DEF AnswersAgree, Shared
  <2> DEFINE owner == calls[key[r]]
  <2>1. ASSUME NEW q \in Requests, pc[q] = "returned", key[q] = key[r]
        PROVE  answer[q] = future[owner]
    BY <2>1 DEF AnswerInv, OwnedInv, Shared
  <2> QED BY <2>1
<1> QED BY <1>1, RequestInvariance, KeysInvariance, PTL

(* A duplicate whose future is pending waits for an owner at work on the   *)
(* same key, whether or not requests come late, coroutines are cancelled   *)
(* or the sink raises.                                                     *)
THEOREM DuplicateTheorem == Spec => []DuplicatesAreAnswered
<1>1. Init => PendingInv
  BY InitInv
<1>2. TypeOK /\ RequestInv /\ OwnedInv /\ PendingInv /\ [Next]_vars => PendingInv'
  BY PendingStep
<1>3. RequestInv /\ PendingInv => DuplicatesAreAnswered
  BY DEF RequestInv, PendingInv, DuplicatesAreAnswered
<1> QED BY <1>1, <1>2, <1>3, RequestInvariance, KeysInvariance, PTL DEF Spec

(* An answered owner has emitted exactly one terminal event, or none where *)
(* the approval could not be asked for, and nobody emits two, cancelled or *)
(* not, unless the event sink raised.                                      *)
THEOREM TerminalTheorem == Spec => []OneTerminalEvent
<1>1. TypeOK /\ TerminalInv => OneTerminalEvent
  <2> SUFFICES ASSUME TypeOK, TerminalInv, NEW r \in Requests \ sinkFailed
               PROVE  LET events == IF decision[r] = "unasked" THEN 0 ELSE 1 IN
                      /\ terminals[r] <= events
                      /\ pc[r] = "returned" /\ Owned(r) => terminals[r] = events
                      /\ decision[r] = "unasked" => attempt[r] = 0
    BY DEF OneTerminalEvent
  <2>1. CASE decision[r] = "unasked"
    BY <2>1 DEF TerminalInv
  <2>2. CASE decision[r] # "unasked"
    BY <2>2 DEF TerminalInv
  <2> QED BY <2>1, <2>2
<1> QED BY <1>1, RequestInvariance, KeysInvariance, PTL
=============================================================================
