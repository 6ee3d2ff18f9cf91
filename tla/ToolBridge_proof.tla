-------------------------- MODULE ToolBridge_proof --------------------------
(***************************************************************************)
(* Proofs about ToolBridge, for any number of requests, turns and calls,   *)
(* with requests that arrive late and coroutines that are cancelled.  A    *)
(* step of the composition is a step of ToolExecutor, or the submission of *)
(* a job, which gives a key to a request that has none: the invariants     *)
(* proved for the executor carry over.  What the composition adds is the   *)
(* link between a request, its bridge and its turn (LinkInv), and that     *)
(* only the cleanup of a turn ends its invocation or cancels its jobs      *)
(* (CleanupInv).                                                           *)
(***************************************************************************)
EXTENDS ToolBridge, ToolExecutor_proof

TurnState == {"new", "registered", "ending", "unrouted", "unrouted last", "cancelled",
              "cancelled last", "unbound", "over"}
ReaderPC == {"idle", "routed", "submitted", "blocked", "answered"}

(* Types of the mux and of the reader threads.                             *)
BridgeTypeOK ==
    /\ turn \in [Invocations -> TurnState]
    /\ routes \subseteq Invocations /\ bound \subseteq Invocations
    /\ pending \in [Invocations -> SUBSET Requests]
    /\ reader \in [Requests -> ReaderPC]
    /\ target \in [Requests -> Keys \cup {None}]
    /\ bridge \in [Requests -> Invocations \cup {None}]
    /\ queued \subseteq Requests /\ cancelling \subseteq Requests

(* The executor's invariants that hold of the composition.                 *)
ExecInv == TypeOK /\ RequestInv /\ OwnedInv /\ EffectInv

(* A request is routed to the bridge of the turn it names, and runs under  *)
(* that turn once it is submitted.                                         *)
LinkInv ==
    \A r \in Requests :
        /\ key[r] \in {None, target[r]}
        /\ reader[r] \in {"idle", "routed"} => pc[r] = "idle" /\ key[r] = None /\ r \notin queued
        /\ reader[r] \in {"routed", "submitted", "blocked"} =>
              target[r] \in Keys /\ bridge[r] = target[r][1]
        /\ reader[r] \in {"submitted", "blocked"} => key[r] = target[r]
        /\ r \in queued => key[r] \in Keys
        /\ r \in queued \/ pc[r] # "idle" => key[r] = target[r]

(* Only the cleanup of a turn ends its invocation and cancels its jobs.    *)
CleanupInv ==
    /\ \A i \in ended : turn[i] \notin {"new", "registered"}
    /\ \A i \in Invocations : \A r \in pending[i] :
          reader[r] \notin {"idle", "routed"} /\ key[r] \in Keys /\ key[r][1] = i
    /\ \A r \in cancelling :
          /\ reader[r] \notin {"idle", "routed"} /\ key[r] \in Keys
          /\ turn[key[r][1]] \notin {"new", "registered"}
    /\ \A r \in Requests : pc[r] = "cancelled" => r \in cancelling

(* The job of a reader that has submitted it is queued or has begun.       *)
QueuedInv ==
    \A r \in Requests : reader[r] \in {"submitted", "blocked"} /\ pc[r] = "idle" => r \in queued

BridgeInv == ExecInv /\ BridgeTypeOK /\ LinkInv /\ CleanupInv

-----------------------------------------------------------------------------
(* The initial states satisfy the invariant.                               *)
LEMMA InitBridge == BridgeInit => BridgeInv
<1> SUFFICES ASSUME BridgeInit PROVE BridgeInv
  OBVIOUS
<1>1. ExecInv
  BY InitInv DEF BridgeInit, ExecInv
<1>2. BridgeTypeOK
  BY DEF BridgeInit, BridgeTypeOK, TurnState, ReaderPC
<1>3. LinkInv /\ CleanupInv
  BY DEF BridgeInit, Init, LinkInv, CleanupInv
<1> QED BY <1>1, <1>2, <1>3 DEF BridgeInv

(* A step of a job is one of the executor: it keeps all keys, moves only   *)
(* its own request, and cancels it only if that was asked for.             *)
LEMMA JobFrame ==
    ASSUME BridgeInv, NEW r \in Requests, LoopStep(r)
    PROVE  /\ Next
           /\ UNCHANGED <<key, ended, readerVars, loopVars, pending, cancelling>>
           /\ pc' = [pc EXCEPT ![r] = pc'[r]]
           /\ pc'[r] = "cancelled" => r \in cancelling
           /\ queued' \subseteq queued
           /\ pc[r] # "idle" \/ r \in queued
<1> USE DEF BridgeInv, ExecInv, reqVars, dedupVars
<1>1. CASE StartJob(r)
  <2>1. PICK n \in Tools : Execute(r, key[r], n, TRUE)
    BY <1>1 DEF StartJob
  <2>2. r \in queued /\ key[r] \in Keys
    BY <1>1 DEF StartJob, LinkInv
  <2>3. key' = key /\ UNCHANGED ended
    BY <2>1, <2>2 DEF Execute, Own, Join, Arrives, TypeOK
  <2>4. pc' = [pc EXCEPT ![r] = pc'[r]] /\ pc'[r] \in {"requested", "waiting"}
    BY <2>1 DEF Execute, Own, Join, Arrives, Goto, TypeOK
  <2> QED BY <1>1, <2>1, <2>2, <2>3, <2>4 DEF StartJob, Next
<1>2. CASE DeliverCancel(r)
  <2>1. r \in cancelling /\ (CancelOwner(r) \/ CancelWaiter(r))
    BY <1>2 DEF DeliverCancel
  <2>2. pc' = [pc EXCEPT ![r] = pc'[r]] /\ UNCHANGED <<key, ended>> /\ pc[r] # "idle"
    BY <2>1 DEF CancelOwner, CancelWaiter, Goto, TypeOK, Pipeline
  <2> QED BY <1>2, <2>1, <2>2 DEF DeliverCancel, Next
<1>3. CASE JobStep(r)
  <2>1. CASE OwnerStep(r)
    BY <1>3, <2>1, OwnerFrame DEF JobStep, Next, Pipeline
  <2>2. CASE Share(r)
    BY <1>3, <2>2 DEF JobStep, Next, Share, Goto, TypeOK
  <2> QED BY <1>3, <2>1, <2>2 DEF JobStep
<1> QED BY <1>1, <1>2, <1>3 DEF LoopStep

(* The end of an invocation leaves keys and coroutines alone.              *)
LEMMA EndFrame ==
    ASSUME NEW i \in Invocations, EndInvocation(i)
    PROVE  Next /\ UNCHANGED <<key, pc>> /\ ended' = ended \cup {i}
  BY DEF EndInvocation, EndWith, Next, reqVars

(* A submission gives its request the key that the provider named.         *)
LEMMA SubmitFrame ==
    ASSUME BridgeInv, NEW r \in Requests, Submit(r)
    PROVE  /\ pc[r] = "idle" /\ target[r] \in Keys
           /\ key' = [key EXCEPT ![r] = target[r]]
           /\ queued' = queued \cup {r}
           /\ reader[r] = "routed" /\ reader' = [reader EXCEPT ![r] = "submitted"]
           /\ UNCHANGED <<pc, tool, valid, dedupVars, attempt, runs, answer, terminals, decision,
                          sinkFailed, target, bridge, loopVars, pending, cancelling>>
<1>1. target[r] \in Keys /\ bridge[r] = target[r][1] /\ pc[r] = "idle"
  BY DEF Submit, BridgeInv, LinkInv
<1>2. RequestKey(r) = target[r]
  BY <1>1 DEF RequestKey, Keys
<1> QED BY <1>1, <1>2 DEF Submit, At

(* What a step is to the executor.                                         *)
LEMMA ExecutorStep ==
    ASSUME BridgeInv, [BridgeNext]_allVars
    PROVE  [Next]_vars \/ \E r \in Requests : Submit(r)
<1>1. ASSUME NEW r \in Requests, NEW k \in Keys, Denied(r, k) \/ Routed(r, k)
      PROVE  UNCHANGED vars
  BY <1>1 DEF Denied, Routed
<1>2. ASSUME NEW r \in Requests, Pend(r) \/ Answer(r) PROVE UNCHANGED vars
  BY <1>2 DEF Pend, Answer
<1>3. ASSUME NEW r \in Requests, LoopStep(r) PROVE Next
  BY <1>3, JobFrame
<1>4. ASSUME NEW i \in Invocations, Register(i) \/ DropRoute(i) \/ CancelPending(i) \/ Unbind(i)
      PROVE  UNCHANGED vars
  BY <1>4 DEF Register, DropRoute, CancelPending, Unbind
<1>5. ASSUME NEW i \in Invocations, EndTurn(i) \/ CloseMux(i) PROVE Next
  BY <1>5, EndFrame DEF EndTurn, CloseMux
<1>6. CASE UNCHANGED allVars
  BY <1>6 DEF allVars
<1> QED BY <1>1, <1>2, <1>3, <1>4, <1>5, <1>6 DEF BridgeNext, ReaderStep, TurnStep

(* Every step preserves the executor's invariants.                         *)
LEMMA ExecStep ==
    ASSUME BridgeInv, [BridgeNext]_allVars
    PROVE  ExecInv'
<1>1. CASE [Next]_vars
  BY <1>1, TypeStep, RequestStep, OwnedStep, EffectStep DEF BridgeInv, ExecInv
<1>2. ASSUME NEW r \in Requests, Submit(r) PROVE ExecInv'
  <2>1. /\ pc[r] = "idle" /\ future[r] = "none" /\ target[r] \in Keys
        /\ key' = [key EXCEPT ![r] = target[r]]
        /\ UNCHANGED <<pc, tool, valid, dedupVars, attempt, terminals, answer, decision, runs,
                       sinkFailed>>
    BY <1>2, SubmitFrame DEF BridgeInv, ExecInv, RequestInv
  <2>2. TypeOK'
    BY <2>1 DEF BridgeInv, ExecInv, TypeOK, dedupVars
  <2>3. \A q \in Requests : pc[q] # "idle" => key'[q] = key[q]
    BY <2>1 DEF BridgeInv, ExecInv, TypeOK
  <2>4. RequestInv'
    BY <2>1, <2>3 DEF BridgeInv, ExecInv, RequestInv, dedupVars
  <2>5. /\ \A q \in Requests : Owned(q)' = Owned(q)
        /\ \A q \in Requests : Owned(q) => key'[q] = key[q] /\ pc'[q] = pc[q]
    BY <2>1, <2>3 DEF BridgeInv, ExecInv, RequestInv, Owned, dedupVars
  <2>6. \A k : (Undisturbed(k)' <=> Undisturbed(k)) /\ (Live(k)' <=> Live(k))
    BY <2>1, <2>5 DEF Undisturbed, Live, dedupVars
  <2>7. OwnedInv'
    <3>1. \A k \in Keys : calls[k] # None => key'[calls[k]] = k
      <4>1. \A k \in Keys : calls[k] # None => calls[k] \in Requests /\ Owned(calls[k])
        BY DEF BridgeInv, ExecInv, TypeOK, RequestInv, Owned
      <4> QED BY <4>1, <2>5 DEF BridgeInv, ExecInv, OwnedInv
    <3> QED BY <2>1, <2>5, <2>6, <3>1 DEF BridgeInv, ExecInv, OwnedInv, dedupVars
  <2>8. EffectInv'
    BY <2>1, <2>5, <2>6 DEF BridgeInv, ExecInv, EffectInv
  <2> QED BY <2>2, <2>4, <2>7, <2>8 DEF ExecInv
<1> QED BY <1>1, <1>2, ExecutorStep

(* Every step preserves the types of the mux and the readers.              *)
LEMMA BridgeTypeStep ==
    ASSUME BridgeInv, [BridgeNext]_allVars
    PROVE  BridgeTypeOK'
<1> USE DEF BridgeInv, BridgeTypeOK, TurnState, ReaderPC, readerVars, loopVars, Keys, At
<1>1. ASSUME NEW r \in Requests, NEW k \in Keys, Denied(r, k) PROVE BridgeTypeOK'
  BY <1>1 DEF Denied
<1>2. ASSUME NEW r \in Requests, NEW k \in Keys, Routed(r, k) PROVE BridgeTypeOK'
  <2>1. bridge' = [bridge EXCEPT ![r] = k[1]] /\ k[1] \in Invocations
    BY <1>2 DEF Routed, Lookup, Keys
  <2> QED BY <1>2, <2>1 DEF Routed
<1>3. ASSUME NEW r \in Requests, Submit(r) PROVE BridgeTypeOK'
  BY <1>3 DEF Submit
<1>4. ASSUME NEW r \in Requests, Pend(r) PROVE BridgeTypeOK'
  BY <1>4 DEF Pend, Keys
<1>5. ASSUME NEW r \in Requests, Answer(r) PROVE BridgeTypeOK'
  BY <1>5 DEF Answer
<1>6. ASSUME NEW r \in Requests, LoopStep(r) PROVE BridgeTypeOK'
  BY <1>6, JobFrame
<1>7. ASSUME NEW i \in Invocations, Register(i) PROVE BridgeTypeOK'
  BY <1>7 DEF Register, Bind
<1>8. ASSUME NEW i \in Invocations, DropRoute(i) PROVE BridgeTypeOK'
  BY <1>8 DEF DropRoute, RoutesWithout
<1>9. ASSUME NEW i \in Invocations, CancelPending(i) PROVE BridgeTypeOK'
  BY <1>9 DEF CancelPending, CancelledByUnbind
<1>10. ASSUME NEW i \in Invocations, Unbind(i) PROVE BridgeTypeOK'
  BY <1>10 DEF Unbind
<1>11. ASSUME NEW i \in Invocations, EndTurn(i) PROVE BridgeTypeOK'
  BY <1>11, EndFrame DEF EndTurn
<1>12. ASSUME NEW i \in Invocations, CloseMux(i) PROVE BridgeTypeOK'
  BY <1>12, EndFrame DEF CloseMux
<1>13. CASE UNCHANGED allVars
  BY <1>13 DEF allVars
<1> QED BY <1>1, <1>2, <1>3, <1>4, <1>5, <1>6, <1>7, <1>8, <1>9, <1>10, <1>11, <1>12, <1>13
    DEF BridgeNext, ReaderStep, TurnStep


(* Every step keeps a request linked to the turn it names.                 *)
LEMMA LinkStep ==
    ASSUME BridgeInv, [BridgeNext]_allVars
    PROVE  LinkInv'
<1> USE DEF BridgeInv, ExecInv, BridgeTypeOK, LinkInv, TypeOK, PCs, Pipeline, readerVars, vars, reqVars, At
<1>1. ASSUME NEW r \in Requests, NEW k \in Keys, Denied(r, k) PROVE LinkInv'
  BY <1>1 DEF Denied
<1>2. ASSUME NEW r \in Requests, NEW k \in Keys, Routed(r, k) PROVE LinkInv'
  <2>1. bridge' = [bridge EXCEPT ![r] = k[1]] /\ k[1] \in Invocations
    BY <1>2 DEF Routed, Lookup, Keys
  <2> QED BY <1>2, <2>1 DEF Routed
<1>3. ASSUME NEW r \in Requests, Submit(r) PROVE LinkInv'
  BY <1>3, SubmitFrame
<1>4. ASSUME NEW r \in Requests, Pend(r) PROVE LinkInv'
  BY <1>4 DEF Pend, Keys
<1>5. ASSUME NEW r \in Requests, Answer(r) PROVE LinkInv'
  BY <1>5 DEF Answer
<1>6. ASSUME NEW r \in Requests, LoopStep(r) PROVE LinkInv'
  BY <1>6, JobFrame
<1>7. ASSUME NEW i \in Invocations, Register(i) PROVE LinkInv'
  BY <1>7 DEF Register, Bind
<1>8. ASSUME NEW i \in Invocations, DropRoute(i) PROVE LinkInv'
  BY <1>8 DEF DropRoute, RoutesWithout
<1>9. ASSUME NEW i \in Invocations, CancelPending(i) PROVE LinkInv'
  BY <1>9 DEF CancelPending, CancelledByUnbind
<1>10. ASSUME NEW i \in Invocations, Unbind(i) PROVE LinkInv'
  BY <1>10 DEF Unbind
<1>11. ASSUME NEW i \in Invocations, EndTurn(i) PROVE LinkInv'
  BY <1>11, EndFrame DEF EndTurn
<1>12. ASSUME NEW i \in Invocations, CloseMux(i) PROVE LinkInv'
  BY <1>12, EndFrame DEF CloseMux
<1>13. CASE UNCHANGED allVars
  BY <1>13 DEF allVars
<1> QED BY <1>1, <1>2, <1>3, <1>4, <1>5, <1>6, <1>7, <1>8, <1>9, <1>10, <1>11, <1>12, <1>13
    DEF BridgeNext, ReaderStep, TurnStep


(* What a step may do to ends and cancellations: a submitted request keeps *)
(* its key and a turn that is over stays so; an invocation ends, and jobs  *)
(* are cancelled, only with a turn that is being cleaned up; the jobs are  *)
(* those that were added to the bridge they were routed to.                *)
CleanupFrame ==
    /\ \A r \in Requests : reader[r] \notin {"idle", "routed"} =>
          key'[r] = key[r] /\ reader'[r] \notin {"idle", "routed"}
    /\ \A i \in Invocations :
          turn[i] \notin {"new", "registered"} => turn'[i] \notin {"new", "registered"}
    /\ ended \subseteq ended' /\ cancelling \subseteq cancelling'
    /\ \A i \in ended' \ ended : turn'[i] \notin {"new", "registered"}
    /\ \A i \in Invocations : \A r \in pending'[i] \ pending[i] :
          reader[r] = "submitted" /\ bridge[r] = i
    /\ \A r \in cancelling' \ cancelling :
          \E i \in Invocations : r \in pending[i] /\ turn'[i] \notin {"new", "registered"}
    /\ \A r \in Requests : pc'[r] = "cancelled" => pc[r] = "cancelled" \/ r \in cancelling

(* Every step is within that frame.                                        *)
LEMMA CleanupFrameStep ==
    ASSUME BridgeInv, [BridgeNext]_allVars
    PROVE  CleanupFrame
<1> USE DEF BridgeTypeOK, CleanupFrame, TurnState, ReaderPC, readerVars, loopVars, vars, reqVars, dedupVars, At
<1>0. BridgeTypeOK /\ TypeOK /\ (\A i \in ended : turn[i] # "new")
  BY DEF BridgeInv, ExecInv, CleanupInv
<1> USE <1>0 DEF TypeOK, PCs
<1>1. ASSUME NEW r \in Requests, NEW k \in Keys, Denied(r, k) PROVE CleanupFrame
  BY <1>1 DEF Denied
<1>2. ASSUME NEW r \in Requests, NEW k \in Keys, Routed(r, k) PROVE CleanupFrame
  <2>1. bridge' = [bridge EXCEPT ![r] = k[1]] /\ k[1] \in Invocations
    BY <1>2 DEF Routed, Lookup, Keys
  <2> QED BY <1>2, <2>1 DEF Routed
<1>3. ASSUME NEW r \in Requests, Submit(r) PROVE CleanupFrame
  <2>1. /\ UNCHANGED <<pc, turn, ended, cancelling, pending>>
        /\ key' = [key EXCEPT ![r] = target[r]]
        /\ reader[r] = "routed" /\ reader' = [reader EXCEPT ![r] = "submitted"]
    BY <1>3, SubmitFrame
  <2>2. /\ key'[r] = target[r] /\ reader'[r] = "submitted"
        /\ \A q \in Requests \ {r} : key'[q] = key[q] /\ reader'[q] = reader[q]
    BY <2>1
  <2> HIDE DEF TypeOK, PCs
  <2> QED BY <2>1, <2>2
<1>4. ASSUME NEW r \in Requests, Pend(r) PROVE CleanupFrame
  BY <1>4 DEF Pend, Keys
<1>5. ASSUME NEW r \in Requests, Answer(r) PROVE CleanupFrame
  BY <1>5 DEF Answer
<1>6. ASSUME NEW r \in Requests, LoopStep(r) PROVE CleanupFrame
  BY <1>6, JobFrame
<1>7. ASSUME NEW i \in Invocations, Register(i) PROVE CleanupFrame
  BY <1>7 DEF Register, Bind
<1>8. ASSUME NEW i \in Invocations, DropRoute(i) PROVE CleanupFrame
  BY <1>8 DEF DropRoute, RoutesWithout
<1>9. ASSUME NEW i \in Invocations, CancelPending(i) PROVE CleanupFrame
  BY <1>9 DEF CancelPending, CancelledByUnbind
<1>10. ASSUME NEW i \in Invocations, Unbind(i) PROVE CleanupFrame
  BY <1>10 DEF Unbind
<1>11. ASSUME NEW i \in Invocations, EndTurn(i) PROVE CleanupFrame
  <2>1. /\ ended' = ended \cup {i} /\ turn' = [turn EXCEPT ![i] = "over"]
        /\ UNCHANGED <<key, pc, reader, bridge, pending, cancelling>>
    BY <1>11, EndFrame DEF EndTurn
  <2> QED BY <2>1
<1>12. ASSUME NEW i \in Invocations, CloseMux(i) PROVE CleanupFrame
  <2>1. /\ ended' = ended \cup {i} /\ turn' = [turn EXCEPT ![i] = "ending"]
        /\ UNCHANGED <<key, pc, reader, bridge, pending, cancelling>>
    BY <1>12, EndFrame DEF CloseMux
  <2> QED BY <2>1
<1>13. CASE UNCHANGED allVars
  BY <1>13 DEF allVars
<1> QED BY <1>1, <1>2, <1>3, <1>4, <1>5, <1>6, <1>7, <1>8, <1>9, <1>10, <1>11, <1>12, <1>13
    DEF BridgeNext, ReaderStep, TurnStep

(* Hence every step keeps a registered turn from being ended or cancelled. *)
LEMMA CleanupStep ==
    ASSUME BridgeInv, [BridgeNext]_allVars
    PROVE  CleanupInv'
<1>1. BridgeTypeOK /\ BridgeTypeOK' /\ TypeOK /\ TypeOK' /\ LinkInv /\ CleanupInv /\ CleanupFrame
  BY CleanupFrameStep, BridgeTypeStep, ExecStep DEF BridgeInv, ExecInv
<1>2. \A i \in ended' : turn'[i] \notin {"new", "registered"}
  BY <1>1 DEF CleanupInv, CleanupFrame, TypeOK
<1>3. ASSUME NEW i \in Invocations, NEW r \in pending'[i]
      PROVE  reader'[r] \notin {"idle", "routed"} /\ key'[r] \in Keys /\ key'[r][1] = i
  <2>1. r \in Requests
    BY <1>1 DEF BridgeTypeOK
  <2>2. reader[r] \notin {"idle", "routed"} /\ key[r] \in Keys /\ key[r][1] = i
    BY <1>1, <2>1 DEF CleanupInv, CleanupFrame, LinkInv
  <2> QED BY <1>1, <2>1, <2>2 DEF CleanupFrame
<1>4. ASSUME NEW r \in cancelling'
      PROVE  /\ reader'[r] \notin {"idle", "routed"} /\ key'[r] \in Keys
             /\ turn'[key'[r][1]] \notin {"new", "registered"}
  <2>1. r \in Requests
    BY <1>1 DEF BridgeTypeOK
  <2>2. /\ reader[r] \notin {"idle", "routed"} /\ key[r] \in Keys /\ key[r][1] \in Invocations
        /\ turn'[key[r][1]] \notin {"new", "registered"}
    BY <1>1, <2>1 DEF CleanupInv, CleanupFrame, Keys
  <2> QED BY <1>1, <2>1, <2>2 DEF CleanupFrame
<1>5. \A r \in Requests : pc'[r] = "cancelled" => r \in cancelling'
  BY <1>1 DEF CleanupInv, CleanupFrame
<1> QED BY <1>2, <1>3, <1>4, <1>5 DEF CleanupInv

(* The invariant of the composition holds in every reachable state.        *)
THEOREM BridgeInvariance == BridgeSpec => []BridgeInv
<1>1. BridgeInv /\ [BridgeNext]_allVars => BridgeInv'
  BY ExecStep, BridgeTypeStep, LinkStep, CleanupStep DEF BridgeInv
<1> QED BY <1>1, InitBridge, PTL DEF BridgeSpec

-----------------------------------------------------------------------------
(* A request runs under the turn that the provider named, also when the    *)
(* turns of its thread change between lookup, submission and execution.    *)
THEOREM RoutingTheorem == BridgeSpec => []RoutedToOwnTurn
<1>1. BridgeInv => RoutedToOwnTurn
  BY DEF BridgeInv, LinkInv, RoutedToOwnTurn
<1> QED BY <1>1, BridgeInvariance, PTL

(* The calls of a registered turn are neither ended nor abandoned.         *)
LEMMA RegisteredIsLive ==
    ASSUME BridgeInv, NEW r \in Requests, Owned(r), turn[key[r][1]] = "registered"
    PROVE  Live(key[r])
<1>1. key[r] \in Keys
  BY DEF BridgeInv, ExecInv, RequestInv, TypeOK, PCs, Owned
<1>2. key[r][1] \notin ended
  BY DEF BridgeInv, CleanupInv
<1>3. Undisturbed(key[r])
  BY DEF BridgeInv, CleanupInv, Undisturbed
<1> QED BY <1>2, <1>3 DEF Live

(* While a turn is registered, one job at a time owns a call and the tool  *)
(* runs as often as its policy allows, however many duplicates arrive.     *)
THEOREM ExactlyOnceTheorem == BridgeSpec => []ExactlyOnceWhileRegistered
<1>1. BridgeInv => ExactlyOnceWhileRegistered
  <2> SUFFICES ASSUME BridgeInv, NEW r \in Requests, NEW s \in Requests, Owned(r),
                      turn[key[r][1]] = "registered"
               PROVE  /\ runs[key[r]] <= IF tool[r] \in Idempotent THEN MaxAttempts ELSE 1
                      /\ Owner(r) /\ Owner(s) /\ key[r] = key[s] => r = s
    BY DEF ExactlyOnceWhileRegistered
  <2>1. Live(key[r])
    BY RegisteredIsLive
  <2>2. runs[key[r]] <= IF tool[r] \in Idempotent THEN MaxAttempts ELSE 1
    BY <2>1, EffectBound DEF BridgeInv, ExecInv
  <2>3. Owner(s) => Owned(s)
    BY DEF BridgeInv, ExecInv, RequestInv, Owner, Owned
  <2> QED BY <2>1, <2>2, <2>3 DEF BridgeInv, ExecInv, EffectInv
<1> QED BY <1>1, BridgeInvariance, PTL

-----------------------------------------------------------------------------
(* Every step keeps a pending future in the hands of an owner, as it does  *)
(* in the executor alone.                                                  *)
LEMMA PendingBridgeStep ==
    ASSUME BridgeInv, PendingInv, [BridgeNext]_allVars
    PROVE  PendingInv'
<1>1. CASE [Next]_vars
  BY <1>1, PendingStep DEF BridgeInv, ExecInv
<1>2. ASSUME NEW r \in Requests, Submit(r) PROVE PendingInv'
  <2>1. pc[r] = "idle" /\ key' = [key EXCEPT ![r] = target[r]] /\ UNCHANGED <<pc, dedupVars, answer>>
    BY <1>2, SubmitFrame
  <2>2. \A q \in Requests : pc[q] # "idle" => key'[q] = key[q]
    BY <2>1 DEF BridgeInv, ExecInv, TypeOK
  <2>3. ASSUME NEW q \in Requests, pc[q] = "waiting"
        PROVE  waitFor[q] \in Requests /\ pc[waitFor[q]] # "idle"
    BY <2>3 DEF BridgeInv, ExecInv, RequestInv
  <2> QED BY <2>1, <2>2, <2>3 DEF PendingInv, Owner, Pipeline, dedupVars
<1> QED BY <1>1, <1>2, ExecutorStep

(* Every step but the first of a job leaves the job queued, or begun.      *)
LEMMA QueuedStep ==
    ASSUME BridgeInv, QueuedInv, [BridgeNext]_allVars
    PROVE  QueuedInv'
<1> USE DEF BridgeInv, ExecInv, BridgeTypeOK, QueuedInv, TypeOK, readerVars, loopVars, vars, reqVars, At
<1>1. ASSUME NEW r \in Requests, NEW k \in Keys, Denied(r, k) \/ Routed(r, k) PROVE QueuedInv'
  BY <1>1 DEF Denied, Routed
<1>2. ASSUME NEW r \in Requests, Submit(r) PROVE QueuedInv'
  BY <1>2, SubmitFrame
<1>3. ASSUME NEW r \in Requests, Pend(r) \/ Answer(r) PROVE QueuedInv'
  BY <1>3 DEF Pend, Answer
<1>4. ASSUME NEW r \in Requests, LoopStep(r) PROVE QueuedInv'
  <2>1. pc' = [pc EXCEPT ![r] = pc'[r]] /\ UNCHANGED reader
    BY <1>4, JobFrame
  <2>2. pc'[r] # "idle" /\ queued \ {r} \subseteq queued'
    <3>1. CASE StartJob(r)
      BY <3>1 DEF StartJob, Execute, Own, Join, Goto
    <3>2. CASE DeliverCancel(r)
      BY <3>2 DEF DeliverCancel, CancelOwner, CancelWaiter, Goto
    <3>3. CASE JobStep(r)
      BY <3>3, OwnerFrame DEF JobStep, Share, Goto, Pipeline
    <3> QED BY <1>4, <3>1, <3>2, <3>3 DEF LoopStep
  <2> QED BY <2>1, <2>2
<1>5. ASSUME NEW i \in Invocations, Register(i) \/ CloseMux(i) \/ TurnStep(i) PROVE QueuedInv'
  BY <1>5 DEF Register, CloseMux, TurnStep, DropRoute, CancelPending, Unbind, EndTurn,
     EndInvocation, EndWith
<1>6. CASE UNCHANGED allVars
  BY <1>6 DEF allVars
<1> QED BY <1>1, <1>2, <1>3, <1>4, <1>5, <1>6 DEF BridgeNext, ReaderStep

(* A blocked reader thread waits for a job that is queued or at work, or   *)
(* for a future of its own turn and call whose owner is at work, however   *)
(* requests, registrations and cleanups interleave.                        *)
THEOREM ReaderTheorem == BridgeSpec => []NoReaderWaitsInVain
<1>1. BridgeInit => PendingInv /\ QueuedInv
  BY InitInv DEF BridgeInit, QueuedInv
<1>2. BridgeInv /\ PendingInv /\ QueuedInv /\ [BridgeNext]_allVars => (PendingInv /\ QueuedInv)'
  BY PendingBridgeStep, QueuedStep
<1>3. BridgeInv /\ PendingInv /\ QueuedInv => NoReaderWaitsInVain
  <2> SUFFICES ASSUME BridgeInv, PendingInv, QueuedInv, NEW r \in Requests,
                      reader[r] \in {"submitted", "blocked"}, answer[r] = "none",
                      r \notin queued, ~Owner(r)
               PROVE  /\ pc[r] = "waiting"
                      /\ future[waitFor[r]] = "pending" =>
                            Owner(waitFor[r]) /\ target[waitFor[r]] = target[r]
    BY DEF NoReaderWaitsInVain
  <2>1. pc[r] = "waiting"
    BY DEF BridgeInv, ExecInv, TypeOK, PCs, Owner, PendingInv, QueuedInv
  <2>2. waitFor[r] \in Requests /\ key[waitFor[r]] = key[r] /\ key[r] \in Keys
    BY <2>1 DEF BridgeInv, ExecInv, RequestInv, PendingInv
  <2>3. key[r] = target[r]
    BY DEF BridgeInv, LinkInv
  <2>4. pc[waitFor[r]] # "idle"
    BY <2>1 DEF BridgeInv, ExecInv, RequestInv
  <2>5. target[waitFor[r]] = key[waitFor[r]]
    BY <2>2, <2>4 DEF BridgeInv, LinkInv
  <2> QED BY <2>1, <2>2, <2>3, <2>5 DEF PendingInv
<1> QED BY <1>1, <1>2, <1>3, BridgeInvariance, PTL DEF BridgeSpec
=============================================================================
