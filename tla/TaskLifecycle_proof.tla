------------------------ MODULE TaskLifecycle_proof ------------------------
(***************************************************************************)
(* Proofs about TaskLifecycle, for any number of callers, closers and      *)
(* turns.  The inductive invariant IInv has four parts: types, the         *)
(* ownership of the turn lock by the one coroutine inside a turn, the      *)
(* uniqueness of the call of close() that tears down, and the fact that    *)
(* resources go only with the transition to CLOSED.  On top of it come the *)
(* tool state of the turns, and what a close() leaves behind.  Each part   *)
(* has a lemma that every step preserves it, with one case per action.     *)
(***************************************************************************)
EXTENDS TaskLifecycle, TLAPS

(* A caller is inside a turn exactly when it holds the turn lock; it then  *)
(* has a turn, and _active_run is set only to the turn of a caller that    *)
(* runs it.                                                                *)
OwnerInv ==
    /\ \A c \in Callers : pc[c] # "idle" <=> lock = c
    /\ \A c \in Callers : pc[c] # "idle" => turnOf[c] \in Turns
    /\ \A c \in Callers : pc[c] \in RunPC => activeRun = turnOf[c]
    /\ activeRun # NoTurn => \E c \in Callers : pc[c] \in RunPC

(* One call of close() at most tears down, only while CLOSING, and it      *)
(* holds the turn lock while the provider deletes the thread.              *)
TeardownInv ==
    /\ \A k \in Closers : pc[k] \in TeardownPC => state = "CLOSING"
    /\ \A k, l \in Closers : pc[k] \in TeardownPC /\ pc[l] \in TeardownPC => k = l
    /\ \A k \in Closers : pc[k] = "deleting" <=> lock = k

(* TASK_CLOSED goes with CLOSED; what is destroyed is destroyed in a       *)
(* closed task in which no caller holds the turn lock.                     *)
ResourceInv ==
    /\ taskClosed = IF state = "CLOSED" THEN 1 ELSE 0
    /\ TornDown => state = "CLOSED" /\ lock \notin Callers

IInv == TypeOK /\ OwnerInv /\ TeardownInv /\ ResourceInv

-----------------------------------------------------------------------------
(* The initial states satisfy the invariant.                               *)
LEMMA InitIInv == Init => IInv
<1> SUFFICES ASSUME Init PROVE IInv
  OBVIOUS
<1> USE ProcsAssumption, TurnsAssumption DEF Init, Callers, Procs
<1>1. TypeOK
  BY DEF TypeOK, TaskState, CallerPC, CloserPC
<1>2. OwnerInv
  BY DEF OwnerInv, RunPC
<1>3. TeardownInv
  BY DEF TeardownInv, TeardownPC
<1>4. ResourceInv
  BY DEF ResourceInv, TornDown
<1> QED BY <1>1, <1>2, <1>3, <1>4 DEF IInv

(* Every step preserves the types.  A cleanup needs the turn of the       *)
(* coroutine that runs it, hence OwnerInv.                                 *)
LEMMA TypeStep ==
    ASSUME IInv, [Next]_vars
    PROVE  TypeOK'
<1> USE ProcsAssumption, TurnsAssumption, FlagsAssumption DEF IInv, vars, runVars, outerVars,
    closeVars, resVars, envVars, TypeOK, TaskState, RunPC, CallerPC, TeardownPC, CloserPC,
    Callers, Procs, OwnerInv
<1>1. ASSUME NEW c \in Callers, CallerStep(c) PROVE TypeOK'
  <2> USE <1>1
  <2>1. ASSUME NEW t \in Turns, Begin(c, t) PROVE TypeOK'
    BY <2>1 DEF Begin, Reserve, Goto, SetTurn
  <2>2. CASE StartFails(c)
    BY <2>2 DEF StartFails, LeaveStartup, Goto, SetTurn
  <2>3. CASE CancelStart(c)
    BY <2>3 DEF CancelStart, LeaveStartup, Goto, SetTurn
  <2>4. CASE TurnStarted(c)
    BY <2>4 DEF TurnStarted, Handed, Adopt, Goto
  <2>5. CASE StartRejected(c)
    BY <2>5 DEF StartRejected, Handed, AskStop, Goto
  <2>6. CASE BridgeRefused(c)
    BY <2>6 DEF BridgeRefused, Handed, AskStop, Goto
  <2>7. CASE AbortDone(c)
    BY <2>7 DEF AbortDone, LeaveStartup, Goto, SetTurn
  <2>8. CASE Yield(c)
    BY <2>8 DEF Yield, Move, Goto
  <2>9. CASE Pull(c)
    BY <2>9 DEF Pull, Move, Goto
  <2>10. CASE Terminal(c)
    BY <2>10 DEF Terminal, RunFrame, Goto
  <2>11. CASE Finish(c)
    BY <2>11 DEF Finish, Finalise, CleanupTurn, MarkFinished, ReleaseTurn, RunFrame, Goto,
        SetTurn
  <2>12. CASE StreamBreaks(c)
    BY <2>12 DEF StreamBreaks, Finalise, CleanupTurn, MarkFinished, ReleaseTurn, Drain,
        AskStop, RunFrame, Goto, SetTurn
  <2>13. CASE MissingTerminal(c)
    BY <2>13 DEF MissingTerminal, Finalise, CleanupTurn, MarkFinished, RunFrame, Goto
  <2>14. CASE LastEvent(c)
    BY <2>14 DEF LastEvent, ReleaseTurn, Drain, AskStop, RunFrame, Goto, SetTurn
  <2>15. CASE CancelTurn(c)
    BY <2>15 DEF CancelTurn, AskStop, RunFrame, Goto
  <2>16. CASE Unwound(c)
    BY <2>16 DEF Unwound, Finalise, CleanupTurn, MarkFinished, Drain, AskStop, RunFrame, Goto
  <2>17. CASE DrainDone(c)
    BY <2>17 DEF DrainDone, Finalise, CleanupTurn, MarkFinished, ReleaseTurn, RunFrame, Goto,
        SetTurn
  <2>18. CASE CloseStream(c)
    BY <2>18 DEF CloseStream, CleanupTurn, MarkFinished, ReleaseTurn, Drain, AskStop,
        RunFrame, Goto, SetTurn
  <2> QED BY <2>1, <2>2, <2>3, <2>4, <2>5, <2>6, <2>7, <2>8, <2>9, <2>10, <2>11, <2>12, <2>13,
      <2>14, <2>15, <2>16, <2>17, <2>18 DEF CallerStep
<1>2. ASSUME NEW k \in Closers, CloserStep(k) PROVE TypeOK'
  <2> USE <1>2
  <2>1. CASE CloseQueue(k)
    BY <2>1 DEF CloseQueue, Move, Goto
  <2>2. CASE CloseNoop(k)
    BY <2>2 DEF CloseNoop, EntersClose, Move, Goto
  <2>3. CASE CloseJoin(k)
    BY <2>3 DEF CloseJoin, EntersClose, SetCloseLock, Goto
  <2>4. CASE EventSet(k)
    BY <2>4 DEF EventSet, SetCloseLock, Goto
  <2>5. CASE CloseBegin(k)
    BY <2>5 DEF CloseBegin, EntersClose, BeginTeardown, AskStop, Goto
  <2>6. CASE InterruptReturned(k)
    <3>1. turnOf' \in [Procs -> Turns \cup {NoTurn}]
      BY <2>6 DEF InterruptReturned, SetTurn
    <3>2. PICK l \in {"waitFinished", "waitTurn"} : pc' = [pc EXCEPT ![k] = l]
      BY <2>6 DEF InterruptReturned, Goto
    <3>3. /\ pc' \in [Procs -> CallerPC \cup CloserPC]
          /\ \A c \in Callers : pc'[c] \in CallerPC
          /\ \A m \in Closers : pc'[m] \in CloserPC
      BY <3>2
    <3>4. diagnostics' \subseteq {"interrupt_failed", "tool_state_failed",
                                  "provider_delete_failed", "workspace_failed"}
      BY <2>6 DEF InterruptReturned
    <3> QED BY <2>6, <3>1, <3>3, <3>4 DEF InterruptReturned, WaitFrame
  <2>7. CASE InterruptFailed(k)
    BY <2>7 DEF InterruptFailed, SetTurn, WaitFrame, Goto
  <2>8. CASE RunFinished(k)
    BY <2>8 DEF RunFinished, SetTurn, WaitFrame, Goto
  <2>9. CASE AcquireTurn(k)
    BY <2>9 DEF AcquireTurn, DeleteThread, EndTurnState, CleanupTurn, Goto
  <2>10. CASE AcquireTurnNoSdk(k)
    <3>1. registered' \in BOOLEAN /\ closeEvent' \in BOOLEAN
      BY <2>10 DEF AcquireTurnNoSdk, EndTurnState, CleanupTurn, DestroyRest, CloseState, Goto
    <3>2. workspace' \in {"present", "removed", "left"}
      BY <2>10 DEF AcquireTurnNoSdk, EndTurnState, CleanupTurn, DestroyRest, CloseState, Goto
    <3>3. ended' \in [Turns -> Nat]
      BY <2>10 DEF AcquireTurnNoSdk, EndTurnState, CleanupTurn, DestroyRest, CloseState, Goto,
          runVars
    <3> QED BY <2>10, <3>1, <3>2, <3>3 DEF AcquireTurnNoSdk, EndTurnState, CleanupTurn,
        DestroyRest, CloseState, Goto
  <2>11. CASE DeleteReturned(k)
    <3>1. registered' \in BOOLEAN /\ closeEvent' \in BOOLEAN
      BY <2>11 DEF DeleteReturned, DestroyRest, CloseState, Goto
    <3>2. workspace' \in {"present", "removed", "left"}
      BY <2>11 DEF DeleteReturned, DestroyRest, CloseState, Goto
    <3>3. ended' \in [Turns -> Nat]
      BY <2>11 DEF DeleteReturned, DestroyRest, CloseState, Goto, runVars
    <3> QED BY <2>11, <3>1, <3>2, <3>3 DEF DeleteReturned, DestroyRest, CloseState, Goto
  <2>12. CASE DeleteFailed(k)
    <3>1. registered' \in BOOLEAN /\ closeEvent' \in BOOLEAN
      BY <2>12 DEF DeleteFailed, DestroyRest, CloseState, Goto
    <3>2. workspace' \in {"present", "removed", "left"}
      BY <2>12 DEF DeleteFailed, DestroyRest, CloseState, Goto
    <3>3. ended' \in [Turns -> Nat]
      BY <2>12 DEF DeleteFailed, DestroyRest, CloseState, Goto, runVars
    <3> QED BY <2>12, <3>1, <3>2, <3>3 DEF DeleteFailed, DestroyRest, CloseState, Goto
  <2>13. CASE Announced(k)
    BY <2>13 DEF Announced, Move, Goto
  <2>14. CASE CancelTeardown(k)
    BY <2>14 DEF CancelTeardown, CloseState, SetTurn, Goto
  <2>15. CASE CancelWaiting(k)
    BY <2>15 DEF CancelWaiting, SetCloseLock, Goto
  <2> QED BY <2>1, <2>2, <2>3, <2>4, <2>5, <2>6, <2>7, <2>8, <2>9, <2>10, <2>11, <2>12, <2>13,
      <2>14, <2>15 DEF CloserStep
<1>3. CASE EnvStep
  <2>1. CASE Interrupt
    BY <2>1 DEF Interrupt, AskStop
  <2>2. ASSUME NEW t \in Turns, ProviderStarts(t) \/ ProviderEnds(t) PROVE TypeOK'
    <3>1. CASE ProviderStarts(t)
      BY <3>1 DEF ProviderStarts, SetProv
    <3>2. CASE ProviderEnds(t)
      BY <3>2 DEF ProviderEnds, SetProv
    <3> QED BY <2>2, <3>1, <3>2
  <2>3. CASE RuntimeClosing
    BY <2>3 DEF RuntimeClosing
  <2>4. CASE SdkDown
    <3>1. registered' \in BOOLEAN
      BY <2>4 DEF SdkDown
    <3> QED BY <2>4, <3>1 DEF SdkDown
  <2> QED BY <1>3, <2>1, <2>2, <2>3, <2>4 DEF EnvStep
<1>4. CASE UNCHANGED vars
  BY <1>4
<1> QED BY <1>1, <1>2, <1>3, <1>4 DEF Next

(* Every step preserves the ownership of the turn lock.                    *)
LEMMA OwnerStep ==
    ASSUME IInv, [Next]_vars
    PROVE  OwnerInv'
<1> USE ProcsAssumption, TurnsAssumption, FlagsAssumption DEF IInv, vars, runVars, outerVars,
    closeVars, resVars, envVars, TypeOK, TaskState, RunPC, CallerPC, TeardownPC, CloserPC,
    Callers, Procs, OwnerInv, TeardownInv
<1>1. ASSUME NEW c \in Callers, CallerStep(c) PROVE OwnerInv'
  <2> USE <1>1
  <2>1. ASSUME NEW t \in Turns, Begin(c, t) PROVE OwnerInv'
    BY <2>1 DEF Begin, Reserve, Goto, SetTurn
  <2>2. CASE StartFails(c)
    BY <2>2 DEF StartFails, LeaveStartup, Goto, SetTurn
  <2>3. CASE CancelStart(c)
    BY <2>3 DEF CancelStart, LeaveStartup, Goto, SetTurn
  <2>4. CASE TurnStarted(c)
    BY <2>4 DEF TurnStarted, Handed, Adopt, Goto
  <2>5. CASE StartRejected(c)
    BY <2>5 DEF StartRejected, Handed, AskStop, Goto
  <2>6. CASE BridgeRefused(c)
    BY <2>6 DEF BridgeRefused, Handed, AskStop, Goto
  <2>7. CASE AbortDone(c)
    BY <2>7 DEF AbortDone, LeaveStartup, Goto, SetTurn
  <2>8. CASE Yield(c)
    BY <2>8 DEF Yield, Move, Goto
  <2>9. CASE Pull(c)
    BY <2>9 DEF Pull, Move, Goto
  <2>10. CASE Terminal(c)
    BY <2>10 DEF Terminal, RunFrame, Goto
  <2>11. CASE Finish(c)
    BY <2>11 DEF Finish, Finalise, CleanupTurn, MarkFinished, ReleaseTurn, RunFrame, Goto,
        SetTurn
  <2>12. CASE StreamBreaks(c)
    BY <2>12 DEF StreamBreaks, Finalise, CleanupTurn, MarkFinished, ReleaseTurn, Drain,
        AskStop, RunFrame, Goto, SetTurn
  <2>13. CASE MissingTerminal(c)
    BY <2>13 DEF MissingTerminal, Finalise, CleanupTurn, MarkFinished, RunFrame, Goto
  <2>14. CASE LastEvent(c)
    BY <2>14 DEF LastEvent, ReleaseTurn, Drain, AskStop, RunFrame, Goto, SetTurn
  <2>15. CASE CancelTurn(c)
    BY <2>15 DEF CancelTurn, AskStop, RunFrame, Goto
  <2>16. CASE Unwound(c)
    BY <2>16 DEF Unwound, Finalise, CleanupTurn, MarkFinished, Drain, AskStop, RunFrame, Goto
  <2>17. CASE DrainDone(c)
    BY <2>17 DEF DrainDone, Finalise, CleanupTurn, MarkFinished, ReleaseTurn, RunFrame, Goto,
        SetTurn
  <2>18. CASE CloseStream(c)
    BY <2>18 DEF CloseStream, CleanupTurn, MarkFinished, ReleaseTurn, Drain, AskStop,
        RunFrame, Goto, SetTurn
  <2> QED BY <2>1, <2>2, <2>3, <2>4, <2>5, <2>6, <2>7, <2>8, <2>9, <2>10, <2>11, <2>12, <2>13,
      <2>14, <2>15, <2>16, <2>17, <2>18 DEF CallerStep
<1>2. ASSUME NEW k \in Closers, CloserStep(k) PROVE OwnerInv'
  <2> USE <1>2
  <2>1. CASE CloseQueue(k)
    BY <2>1 DEF CloseQueue, Move, Goto
  <2>2. CASE CloseNoop(k)
    BY <2>2 DEF CloseNoop, EntersClose, Move, Goto
  <2>3. CASE CloseJoin(k)
    BY <2>3 DEF CloseJoin, EntersClose, SetCloseLock, Goto
  <2>4. CASE EventSet(k)
    BY <2>4 DEF EventSet, SetCloseLock, Goto
  <2>5. CASE CloseBegin(k)
    BY <2>5 DEF CloseBegin, EntersClose, BeginTeardown, AskStop, Goto
  <2>6. CASE InterruptReturned(k)
    BY <2>6 DEF InterruptReturned, SetTurn, WaitFrame, Goto
  <2>7. CASE InterruptFailed(k)
    BY <2>7 DEF InterruptFailed, SetTurn, WaitFrame, Goto
  <2>8. CASE RunFinished(k)
    BY <2>8 DEF RunFinished, SetTurn, WaitFrame, Goto
  <2>9. CASE AcquireTurn(k)
    BY <2>9 DEF AcquireTurn, DeleteThread, EndTurnState, CleanupTurn, Goto
  <2>10. CASE AcquireTurnNoSdk(k)
    BY <2>10 DEF AcquireTurnNoSdk, EndTurnState, CleanupTurn, DestroyRest, CloseState, Goto
  <2>11. CASE DeleteReturned(k)
    BY <2>11 DEF DeleteReturned, DestroyRest, CloseState, Goto
  <2>12. CASE DeleteFailed(k)
    BY <2>12 DEF DeleteFailed, DestroyRest, CloseState, Goto
  <2>13. CASE Announced(k)
    BY <2>13 DEF Announced, Move, Goto
  <2>14. CASE CancelTeardown(k)
    BY <2>14 DEF CancelTeardown, CloseState, SetTurn, Goto
  <2>15. CASE CancelWaiting(k)
    BY <2>15 DEF CancelWaiting, SetCloseLock, Goto
  <2> QED BY <2>1, <2>2, <2>3, <2>4, <2>5, <2>6, <2>7, <2>8, <2>9, <2>10, <2>11, <2>12, <2>13,
      <2>14, <2>15 DEF CloserStep
<1>3. CASE EnvStep
  <2>1. CASE Interrupt
    BY <2>1 DEF Interrupt, AskStop
  <2>2. ASSUME NEW t \in Turns, ProviderStarts(t) \/ ProviderEnds(t) PROVE OwnerInv'
    BY <2>2 DEF ProviderStarts, ProviderEnds, SetProv
  <2>3. CASE RuntimeClosing
    BY <2>3 DEF RuntimeClosing
  <2>4. CASE SdkDown
    BY <2>4 DEF SdkDown
  <2> QED BY <1>3, <2>1, <2>2, <2>3, <2>4 DEF EnvStep
<1>4. CASE UNCHANGED vars
  BY <1>4
<1> QED BY <1>1, <1>2, <1>3, <1>4 DEF Next

(* Every step preserves the uniqueness of the teardown.                    *)
LEMMA TeardownStep ==
    ASSUME IInv, [Next]_vars
    PROVE  TeardownInv'
<1> USE ProcsAssumption, TurnsAssumption, FlagsAssumption DEF IInv, vars, runVars, outerVars,
    closeVars, resVars, envVars, TypeOK, TaskState, RunPC, CallerPC, TeardownPC, CloserPC,
    Callers, Procs, OwnerInv, TeardownInv
<1>1. ASSUME NEW c \in Callers, CallerStep(c) PROVE TeardownInv'
  <2> USE <1>1
  <2>1. ASSUME NEW t \in Turns, Begin(c, t) PROVE TeardownInv'
    BY <2>1 DEF Begin, Reserve, Goto, SetTurn
  <2>2. CASE StartFails(c)
    BY <2>2 DEF StartFails, LeaveStartup, Goto, SetTurn
  <2>3. CASE CancelStart(c)
    BY <2>3 DEF CancelStart, LeaveStartup, Goto, SetTurn
  <2>4. CASE TurnStarted(c)
    BY <2>4 DEF TurnStarted, Handed, Adopt, Goto
  <2>5. CASE StartRejected(c)
    BY <2>5 DEF StartRejected, Handed, AskStop, Goto
  <2>6. CASE BridgeRefused(c)
    BY <2>6 DEF BridgeRefused, Handed, AskStop, Goto
  <2>7. CASE AbortDone(c)
    BY <2>7 DEF AbortDone, LeaveStartup, Goto, SetTurn
  <2>8. CASE Yield(c)
    BY <2>8 DEF Yield, Move, Goto
  <2>9. CASE Pull(c)
    BY <2>9 DEF Pull, Move, Goto
  <2>10. CASE Terminal(c)
    BY <2>10 DEF Terminal, RunFrame, Goto
  <2>11. CASE Finish(c)
    BY <2>11 DEF Finish, Finalise, CleanupTurn, MarkFinished, ReleaseTurn, RunFrame, Goto,
        SetTurn
  <2>12. CASE StreamBreaks(c)
    BY <2>12 DEF StreamBreaks, Finalise, CleanupTurn, MarkFinished, ReleaseTurn, Drain,
        AskStop, RunFrame, Goto, SetTurn
  <2>13. CASE MissingTerminal(c)
    BY <2>13 DEF MissingTerminal, Finalise, CleanupTurn, MarkFinished, RunFrame, Goto
  <2>14. CASE LastEvent(c)
    BY <2>14 DEF LastEvent, ReleaseTurn, Drain, AskStop, RunFrame, Goto, SetTurn
  <2>15. CASE CancelTurn(c)
    BY <2>15 DEF CancelTurn, AskStop, RunFrame, Goto
  <2>16. CASE Unwound(c)
    BY <2>16 DEF Unwound, Finalise, CleanupTurn, MarkFinished, Drain, AskStop, RunFrame, Goto
  <2>17. CASE DrainDone(c)
    BY <2>17 DEF DrainDone, Finalise, CleanupTurn, MarkFinished, ReleaseTurn, RunFrame, Goto,
        SetTurn
  <2>18. CASE CloseStream(c)
    BY <2>18 DEF CloseStream, CleanupTurn, MarkFinished, ReleaseTurn, Drain, AskStop,
        RunFrame, Goto, SetTurn
  <2> QED BY <2>1, <2>2, <2>3, <2>4, <2>5, <2>6, <2>7, <2>8, <2>9, <2>10, <2>11, <2>12, <2>13,
      <2>14, <2>15, <2>16, <2>17, <2>18 DEF CallerStep
<1>2. ASSUME NEW k \in Closers, CloserStep(k) PROVE TeardownInv'
  <2> USE <1>2
  <2>1. CASE CloseQueue(k)
    BY <2>1 DEF CloseQueue, Move, Goto
  <2>2. CASE CloseNoop(k)
    BY <2>2 DEF CloseNoop, EntersClose, Move, Goto
  <2>3. CASE CloseJoin(k)
    BY <2>3 DEF CloseJoin, EntersClose, SetCloseLock, Goto
  <2>4. CASE EventSet(k)
    BY <2>4 DEF EventSet, SetCloseLock, Goto
  <2>5. CASE CloseBegin(k)
    BY <2>5 DEF CloseBegin, EntersClose, BeginTeardown, AskStop, Goto
  <2>6. CASE InterruptReturned(k)
    BY <2>6 DEF InterruptReturned, SetTurn, WaitFrame, Goto
  <2>7. CASE InterruptFailed(k)
    BY <2>7 DEF InterruptFailed, SetTurn, WaitFrame, Goto
  <2>8. CASE RunFinished(k)
    BY <2>8 DEF RunFinished, SetTurn, WaitFrame, Goto
  <2>9. CASE AcquireTurn(k)
    BY <2>9 DEF AcquireTurn, DeleteThread, EndTurnState, CleanupTurn, Goto
  <2>10. CASE AcquireTurnNoSdk(k)
    BY <2>10 DEF AcquireTurnNoSdk, EndTurnState, CleanupTurn, DestroyRest, CloseState, Goto
  <2>11. CASE DeleteReturned(k)
    BY <2>11 DEF DeleteReturned, DestroyRest, CloseState, Goto
  <2>12. CASE DeleteFailed(k)
    BY <2>12 DEF DeleteFailed, DestroyRest, CloseState, Goto
  <2>13. CASE Announced(k)
    BY <2>13 DEF Announced, Move, Goto
  <2>14. CASE CancelTeardown(k)
    BY <2>14 DEF CancelTeardown, CloseState, SetTurn, Goto
  <2>15. CASE CancelWaiting(k)
    BY <2>15 DEF CancelWaiting, SetCloseLock, Goto
  <2> QED BY <2>1, <2>2, <2>3, <2>4, <2>5, <2>6, <2>7, <2>8, <2>9, <2>10, <2>11, <2>12, <2>13,
      <2>14, <2>15 DEF CloserStep
<1>3. CASE EnvStep
  <2>1. CASE Interrupt
    BY <2>1 DEF Interrupt, AskStop
  <2>2. ASSUME NEW t \in Turns, ProviderStarts(t) \/ ProviderEnds(t) PROVE TeardownInv'
    BY <2>2 DEF ProviderStarts, ProviderEnds, SetProv
  <2>3. CASE RuntimeClosing
    BY <2>3 DEF RuntimeClosing
  <2>4. CASE SdkDown
    BY <2>4 DEF SdkDown
  <2> QED BY <1>3, <2>1, <2>2, <2>3, <2>4 DEF EnvStep
<1>4. CASE UNCHANGED vars
  BY <1>4
<1> QED BY <1>1, <1>2, <1>3, <1>4 DEF Next

(* Every step preserves the tie between CLOSED, the event and the          *)
(* resources.                                                              *)
LEMMA ResourceStep ==
    ASSUME IInv, [Next]_vars
    PROVE  ResourceInv'
<1> USE ProcsAssumption, TurnsAssumption, FlagsAssumption DEF IInv, vars, runVars, outerVars,
    closeVars, resVars, envVars, TypeOK, TaskState, RunPC, CallerPC, TeardownPC, CloserPC,
    Callers, Procs, OwnerInv, TeardownInv, ResourceInv, TornDown
<1>1. ASSUME NEW c \in Callers, CallerStep(c) PROVE ResourceInv'
  <2> USE <1>1
  <2>1. ASSUME NEW t \in Turns, Begin(c, t) PROVE ResourceInv'
    BY <2>1 DEF Begin, Reserve, Goto, SetTurn
  <2>2. CASE StartFails(c)
    BY <2>2 DEF StartFails, LeaveStartup, Goto, SetTurn
  <2>3. CASE CancelStart(c)
    BY <2>3 DEF CancelStart, LeaveStartup, Goto, SetTurn
  <2>4. CASE TurnStarted(c)
    BY <2>4 DEF TurnStarted, Handed, Adopt, Goto
  <2>5. CASE StartRejected(c)
    BY <2>5 DEF StartRejected, Handed, AskStop, Goto
  <2>6. CASE BridgeRefused(c)
    BY <2>6 DEF BridgeRefused, Handed, AskStop, Goto
  <2>7. CASE AbortDone(c)
    BY <2>7 DEF AbortDone, LeaveStartup, Goto, SetTurn
  <2>8. CASE Yield(c)
    BY <2>8 DEF Yield, Move, Goto
  <2>9. CASE Pull(c)
    BY <2>9 DEF Pull, Move, Goto
  <2>10. CASE Terminal(c)
    BY <2>10 DEF Terminal, RunFrame, Goto
  <2>11. CASE Finish(c)
    BY <2>11 DEF Finish, Finalise, CleanupTurn, MarkFinished, ReleaseTurn, RunFrame, Goto,
        SetTurn
  <2>12. CASE StreamBreaks(c)
    BY <2>12 DEF StreamBreaks, Finalise, CleanupTurn, MarkFinished, ReleaseTurn, Drain,
        AskStop, RunFrame, Goto, SetTurn
  <2>13. CASE MissingTerminal(c)
    BY <2>13 DEF MissingTerminal, Finalise, CleanupTurn, MarkFinished, RunFrame, Goto
  <2>14. CASE LastEvent(c)
    BY <2>14 DEF LastEvent, ReleaseTurn, Drain, AskStop, RunFrame, Goto, SetTurn
  <2>15. CASE CancelTurn(c)
    BY <2>15 DEF CancelTurn, AskStop, RunFrame, Goto
  <2>16. CASE Unwound(c)
    BY <2>16 DEF Unwound, Finalise, CleanupTurn, MarkFinished, Drain, AskStop, RunFrame, Goto
  <2>17. CASE DrainDone(c)
    BY <2>17 DEF DrainDone, Finalise, CleanupTurn, MarkFinished, ReleaseTurn, RunFrame, Goto,
        SetTurn
  <2>18. CASE CloseStream(c)
    BY <2>18 DEF CloseStream, CleanupTurn, MarkFinished, ReleaseTurn, Drain, AskStop,
        RunFrame, Goto, SetTurn
  <2> QED BY <2>1, <2>2, <2>3, <2>4, <2>5, <2>6, <2>7, <2>8, <2>9, <2>10, <2>11, <2>12, <2>13,
      <2>14, <2>15, <2>16, <2>17, <2>18 DEF CallerStep
<1>2. ASSUME NEW k \in Closers, CloserStep(k) PROVE ResourceInv'
  <2> USE <1>2
  <2>1. CASE CloseQueue(k)
    BY <2>1 DEF CloseQueue, Move, Goto
  <2>2. CASE CloseNoop(k)
    BY <2>2 DEF CloseNoop, EntersClose, Move, Goto
  <2>3. CASE CloseJoin(k)
    BY <2>3 DEF CloseJoin, EntersClose, SetCloseLock, Goto
  <2>4. CASE EventSet(k)
    BY <2>4 DEF EventSet, SetCloseLock, Goto
  <2>5. CASE CloseBegin(k)
    BY <2>5 DEF CloseBegin, EntersClose, BeginTeardown, AskStop, Goto
  <2>6. CASE InterruptReturned(k)
    BY <2>6 DEF InterruptReturned, SetTurn, WaitFrame, Goto
  <2>7. CASE InterruptFailed(k)
    BY <2>7 DEF InterruptFailed, SetTurn, WaitFrame, Goto
  <2>8. CASE RunFinished(k)
    BY <2>8 DEF RunFinished, SetTurn, WaitFrame, Goto
  <2>9. CASE AcquireTurn(k)
    BY <2>9 DEF AcquireTurn, DeleteThread, EndTurnState, CleanupTurn, Goto
  <2>10. CASE AcquireTurnNoSdk(k)
    BY <2>10 DEF AcquireTurnNoSdk, EndTurnState, CleanupTurn, DestroyRest, CloseState, Goto
  <2>11. CASE DeleteReturned(k)
    BY <2>11 DEF DeleteReturned, DestroyRest, CloseState, Goto
  <2>12. CASE DeleteFailed(k)
    BY <2>12 DEF DeleteFailed, DestroyRest, CloseState, Goto
  <2>13. CASE Announced(k)
    BY <2>13 DEF Announced, Move, Goto
  <2>14. CASE CancelTeardown(k)
    BY <2>14 DEF CancelTeardown, CloseState, SetTurn, Goto
  <2>15. CASE CancelWaiting(k)
    BY <2>15 DEF CancelWaiting, SetCloseLock, Goto
  <2> QED BY <2>1, <2>2, <2>3, <2>4, <2>5, <2>6, <2>7, <2>8, <2>9, <2>10, <2>11, <2>12, <2>13,
      <2>14, <2>15 DEF CloserStep
<1>3. CASE EnvStep
  <2>1. CASE Interrupt
    BY <2>1 DEF Interrupt, AskStop
  <2>2. ASSUME NEW t \in Turns, ProviderStarts(t) \/ ProviderEnds(t) PROVE ResourceInv'
    BY <2>2 DEF ProviderStarts, ProviderEnds, SetProv
  <2>3. CASE RuntimeClosing
    BY <2>3 DEF RuntimeClosing
  <2>4. CASE SdkDown
    BY <2>4 DEF SdkDown
  <2> QED BY <1>3, <2>1, <2>2, <2>3, <2>4 DEF EnvStep
<1>4. CASE UNCHANGED vars
  BY <1>4
<1> QED BY <1>1, <1>2, <1>3, <1>4 DEF Next

(* The invariant is inductive.                                             *)
LEMMA IInvInductive == IInv /\ [Next]_vars => IInv'
  BY TypeStep, OwnerStep, TeardownStep, ResourceStep DEF IInv

(* The inductive invariant holds in every reachable state.                 *)
THEOREM Invariance == Spec => []IInv
  BY InitIInv, IInvInductive, PTL DEF Spec

-----------------------------------------------------------------------------
(* Every field of the task keeps its type, in particular the sets of       *)
(* routes, cleaned and finished turns contain only turns that were started.*)
THEOREM TypeCorrect == Spec => []TypeOK
<1>1. IInv => TypeOK
  BY DEF IInv
<1> QED BY Invariance, <1>1, PTL

(* One coroutine at most is inside a turn, and _active_run is its run.     *)
THEOREM OwnershipTheorem == Spec => []TurnOwnership
<1>1. IInv => TurnOwnership
  BY DEF IInv, OwnerInv, TurnOwnership, InTurn, RunPC
<1> QED BY Invariance, <1>1, PTL

(* Thread and workspace are never destroyed under a turn, whichever calls  *)
(* are cancelled and wherever.                                             *)
THEOREM TeardownTheorem == Spec => []NoTeardownUnderTurn
<1>1. IInv => NoTeardownUnderTurn
  <2> SUFFICES ASSUME IInv, TornDown \/ \E k \in Closers : pc[k] = "deleting",
                      NEW c \in Callers
               PROVE  pc[c] = "idle"
    BY DEF NoTeardownUnderTurn, InTurn
  <2>1. lock # c
    <3>1. CASE TornDown
      BY <3>1 DEF IInv, ResourceInv
    <3>2. ASSUME NEW k \in Closers, pc[k] = "deleting" PROVE lock # c
      BY <3>2, ProcsAssumption DEF IInv, TeardownInv
    <3> QED BY <3>1, <3>2
  <2> QED BY <2>1 DEF IInv, OwnerInv
<1> QED BY Invariance, <1>1, PTL

(* TASK_CLOSED is emitted exactly once, with the transition to CLOSED.     *)
THEOREM TaskClosedTheorem == Spec => []TaskClosedOnce
<1>1. IInv => TaskClosedOnce
  BY DEF IInv, ResourceInv, TaskClosedOnce
<1> QED BY Invariance, <1>1, PTL

-----------------------------------------------------------------------------
(* The tool state of turns, and what a close() leaves behind.              *)

(* A turn's tool state: finalised at most once, and before its cleanup is  *)
(* recorded only by step 3 of close(); untouched while the turn is unused  *)
(* or starting; gone when the failure of its stream is published.          *)
EndedInv ==
    /\ \A t \in Turns : ended[t] \in {0, 1}
    /\ \A t \in cleaned : ended[t] = 1
    /\ finished \subseteq cleaned
    /\ \A t \in Turns : prov[t] = "unused" =>
          ended[t] = 0 /\ t \notin cleaned /\ t # activeInvocation
    /\ \A c \in Callers : pc[c] # "idle" =>
          /\ prov[turnOf[c]] # "unused"
          /\ turnOf[c] \notin cleaned => ended[turnOf[c]] = 0
          /\ pc[c] \in {"starting", "aborting"} => turnOf[c] \notin cleaned
          /\ pc[c] = "lastEvent" => turnOf[c] \in cleaned

(* A route belongs to the active run and is gone when that is cleaned up.  *)
RouteInv == routes \subseteq {activeRun} /\ routes \cap cleaned = {}

(* What step 3 of close() finalises was not finalised before: the recorded *)
(* invocation is that of a run, or of a call that got none.                *)
InvocationInv ==
    activeInvocation # NoTurn /\ state # "CLOSED" /\ (\A k \in Closers : pc[k] # "deleting") =>
        \/ ended[activeInvocation] = 0
        \/ \E c \in Callers : pc[c] \in RunPC /\ turnOf[c] = activeInvocation

(* A call of close() that has left its waits, or the event, says CLOSED.   *)
ReturnInv ==
    /\ closeEvent => state = "CLOSED"
    /\ \A k \in Closers : pc[k] \in {"announcing", "done"} => state = "CLOSED"

(* What the waits of close() rest on: the event is set when the task is    *)
(* CLOSED, a CLOSING task is being torn down, and _close_lock belongs to   *)
(* the one call that waits for the event.                                  *)
WaitInv ==
    /\ state = "CLOSED" => closeEvent
    /\ state = "CLOSING" => \E k \in Closers : pc[k] \in TeardownPC
    /\ closeLock # NoOne => pc[closeLock] = "waitEvent"
    /\ \A k \in Closers : pc[k] = "waitEvent" => closeLock = k /\ state # "OPEN"

(* What a close() that was not cancelled leaves behind.                    *)
ReleaseInv ==
    state = "CLOSED" =>
        /\ ~registered /\ workspace # "present" /\ lock \notin Callers
        /\ thread = "live" => "provider_delete_failed" \in diagnostics \/ sdk = "down"

(* A step of a caller concerns its turn: it leaves state, resources and    *)
(* the calls of close() alone, and takes the turn lock only while OPEN.    *)
LEMMA CallerFrame ==
    ASSUME TypeOK, NEW c \in Callers, CallerStep(c)
    PROVE  /\ UNCHANGED <<state, outerVars>>
           /\ \A k \in Closers : pc'[k] = pc[k]
           /\ lock' \in {lock, NoOne} \/ (lock' = c /\ state = "OPEN")
<1> USE ProcsAssumption DEF outerVars, closeVars, resVars, envVars, Callers, Procs, TypeOK
<1>1. ASSUME NEW t \in Turns, Begin(c, t) PROVE UNCHANGED <<state, outerVars>>
      /\ (\A k \in Closers : pc'[k] = pc[k])
      /\ (lock' \in {lock, NoOne} \/ (lock' = c /\ state = "OPEN"))
  BY <1>1 DEF Begin, Reserve, Goto, SetTurn
<1>2. CASE StartFails(c)
  BY <1>2 DEF StartFails, LeaveStartup, Goto, SetTurn
<1>3. CASE CancelStart(c)
  BY <1>3 DEF CancelStart, LeaveStartup, Goto, SetTurn
<1>4. CASE TurnStarted(c)
  BY <1>4 DEF TurnStarted, Handed, Adopt, Goto
<1>5. CASE StartRejected(c)
  BY <1>5 DEF StartRejected, Handed, AskStop, Goto
<1>6. CASE BridgeRefused(c)
  BY <1>6 DEF BridgeRefused, Handed, AskStop, Goto
<1>7. CASE AbortDone(c)
  BY <1>7 DEF AbortDone, LeaveStartup, Goto, SetTurn
<1>8. CASE Yield(c)
  BY <1>8 DEF Yield, Move, Goto
<1>9. CASE Pull(c)
  BY <1>9 DEF Pull, Move, Goto
<1>10. CASE Terminal(c)
  BY <1>10 DEF Terminal, RunFrame, Goto
<1>11. CASE Finish(c)
  BY <1>11 DEF Finish, Finalise, CleanupTurn, MarkFinished, ReleaseTurn, RunFrame, Goto,
      SetTurn
<1>12. CASE StreamBreaks(c)
  BY <1>12 DEF StreamBreaks, Finalise, CleanupTurn, MarkFinished, ReleaseTurn, Drain,
      AskStop, RunFrame, Goto, SetTurn
<1>13. CASE MissingTerminal(c)
  BY <1>13 DEF MissingTerminal, Finalise, CleanupTurn, MarkFinished, RunFrame, Goto
<1>14. CASE LastEvent(c)
  BY <1>14 DEF LastEvent, ReleaseTurn, Drain, AskStop, RunFrame, Goto, SetTurn
<1>15. CASE CancelTurn(c)
  BY <1>15 DEF CancelTurn, AskStop, RunFrame, Goto
<1>16. CASE Unwound(c)
  BY <1>16 DEF Unwound, Finalise, CleanupTurn, MarkFinished, Drain, AskStop, RunFrame, Goto
<1>17. CASE DrainDone(c)
  BY <1>17 DEF DrainDone, Finalise, CleanupTurn, MarkFinished, ReleaseTurn, RunFrame, Goto,
      SetTurn
<1>18. CASE CloseStream(c)
  BY <1>18 DEF CloseStream, CleanupTurn, MarkFinished, ReleaseTurn, Drain, AskStop,
      RunFrame, Goto, SetTurn
<1> QED BY <1>1, <1>2, <1>3, <1>4, <1>5, <1>6, <1>7, <1>8, <1>9, <1>10, <1>11, <1>12, <1>13,
    <1>14, <1>15, <1>16, <1>17, <1>18 DEF CallerStep

(* Every step preserves the bookkeeping of finalised turns.                *)
LEMMA EndedStep ==
    ASSUME IInv, EndedInv, InvocationInv, [Next]_vars
    PROVE  EndedInv'
<1> USE ProcsAssumption, TurnsAssumption, FlagsAssumption DEF IInv, vars, runVars, outerVars,
    closeVars, resVars, envVars, TypeOK, TaskState, RunPC, CallerPC, TeardownPC, CloserPC,
    Callers, Procs, OwnerInv, TeardownInv, EndedInv, InvocationInv
<1>1. ASSUME NEW c \in Callers, CallerStep(c) PROVE EndedInv'
  <2> USE <1>1
  <2>1. ASSUME NEW t \in Turns, Begin(c, t) PROVE EndedInv'
    BY <2>1 DEF Begin, Reserve, Goto, SetTurn
  <2>2. CASE StartFails(c)
    BY <2>2 DEF StartFails, LeaveStartup, Goto, SetTurn
  <2>3. CASE CancelStart(c)
    BY <2>3 DEF CancelStart, LeaveStartup, Goto, SetTurn
  <2>4. CASE TurnStarted(c)
    BY <2>4 DEF TurnStarted, Handed, Adopt, Goto
  <2>5. CASE StartRejected(c)
    BY <2>5 DEF StartRejected, Handed, AskStop, Goto
  <2>6. CASE BridgeRefused(c)
    BY <2>6 DEF BridgeRefused, Handed, AskStop, Goto
  <2>7. CASE AbortDone(c)
    BY <2>7 DEF AbortDone, LeaveStartup, Goto, SetTurn
  <2>8. CASE Yield(c)
    BY <2>8 DEF Yield, Move, Goto
  <2>9. CASE Pull(c)
    BY <2>9 DEF Pull, Move, Goto
  <2>10. CASE Terminal(c)
    BY <2>10 DEF Terminal, RunFrame, Goto
  <2>11. CASE Finish(c)
    BY <2>11 DEF Finish, Finalise, CleanupTurn, MarkFinished, ReleaseTurn, RunFrame, Goto,
        SetTurn
  <2>12. CASE StreamBreaks(c)
    BY <2>12 DEF StreamBreaks, Finalise, CleanupTurn, MarkFinished, ReleaseTurn, Drain,
        AskStop, RunFrame, Goto, SetTurn
  <2>13. CASE MissingTerminal(c)
    BY <2>13 DEF MissingTerminal, Finalise, CleanupTurn, MarkFinished, RunFrame, Goto
  <2>14. CASE LastEvent(c)
    BY <2>14 DEF LastEvent, ReleaseTurn, Drain, AskStop, RunFrame, Goto, SetTurn
  <2>15. CASE CancelTurn(c)
    BY <2>15 DEF CancelTurn, AskStop, RunFrame, Goto
  <2>16. CASE Unwound(c)
    BY <2>16 DEF Unwound, Finalise, CleanupTurn, MarkFinished, Drain, AskStop, RunFrame, Goto
  <2>17. CASE DrainDone(c)
    BY <2>17 DEF DrainDone, Finalise, CleanupTurn, MarkFinished, ReleaseTurn, RunFrame, Goto,
        SetTurn
  <2>18. CASE CloseStream(c)
    BY <2>18 DEF CloseStream, CleanupTurn, MarkFinished, ReleaseTurn, Drain, AskStop,
        RunFrame, Goto, SetTurn
  <2> QED BY <2>1, <2>2, <2>3, <2>4, <2>5, <2>6, <2>7, <2>8, <2>9, <2>10, <2>11, <2>12, <2>13,
      <2>14, <2>15, <2>16, <2>17, <2>18 DEF CallerStep
<1>2. ASSUME NEW k \in Closers, CloserStep(k) PROVE EndedInv'
  <2> USE <1>2
  <2>1. CASE CloseQueue(k)
    BY <2>1 DEF CloseQueue, Move, Goto
  <2>2. CASE CloseNoop(k)
    BY <2>2 DEF CloseNoop, EntersClose, Move, Goto
  <2>3. CASE CloseJoin(k)
    BY <2>3 DEF CloseJoin, EntersClose, SetCloseLock, Goto
  <2>4. CASE EventSet(k)
    BY <2>4 DEF EventSet, SetCloseLock, Goto
  <2>5. CASE CloseBegin(k)
    BY <2>5 DEF CloseBegin, EntersClose, BeginTeardown, AskStop, Goto
  <2>6. CASE InterruptReturned(k)
    BY <2>6 DEF InterruptReturned, SetTurn, WaitFrame, Goto
  <2>7. CASE InterruptFailed(k)
    BY <2>7 DEF InterruptFailed, SetTurn, WaitFrame, Goto
  <2>8. CASE RunFinished(k)
    BY <2>8 DEF RunFinished, SetTurn, WaitFrame, Goto
  <2>9. CASE AcquireTurn(k)
    BY <2>9 DEF AcquireTurn, DeleteThread, EndTurnState, CleanupTurn, Goto
  <2>10. CASE AcquireTurnNoSdk(k)
    BY <2>10 DEF AcquireTurnNoSdk, EndTurnState, CleanupTurn, DestroyRest, CloseState, Goto
  <2>11. CASE DeleteReturned(k)
    BY <2>11 DEF DeleteReturned, DestroyRest, CloseState, Goto
  <2>12. CASE DeleteFailed(k)
    BY <2>12 DEF DeleteFailed, DestroyRest, CloseState, Goto
  <2>13. CASE Announced(k)
    BY <2>13 DEF Announced, Move, Goto
  <2>14. CASE CancelTeardown(k)
    BY <2>14 DEF CancelTeardown, CloseState, SetTurn, Goto
  <2>15. CASE CancelWaiting(k)
    BY <2>15 DEF CancelWaiting, SetCloseLock, Goto
  <2> QED BY <2>1, <2>2, <2>3, <2>4, <2>5, <2>6, <2>7, <2>8, <2>9, <2>10, <2>11, <2>12, <2>13,
      <2>14, <2>15 DEF CloserStep
<1>3. CASE EnvStep
  <2>1. CASE Interrupt
    BY <2>1 DEF Interrupt, AskStop
  <2>2. ASSUME NEW t \in Turns, ProviderStarts(t) \/ ProviderEnds(t) PROVE EndedInv'
    BY <2>2 DEF ProviderStarts, ProviderEnds, SetProv
  <2>3. CASE RuntimeClosing
    BY <2>3 DEF RuntimeClosing
  <2>4. CASE SdkDown
    BY <2>4 DEF SdkDown
  <2> QED BY <1>3, <2>1, <2>2, <2>3, <2>4 DEF EnvStep
<1>4. CASE UNCHANGED vars
  BY <1>4
<1> QED BY <1>1, <1>2, <1>3, <1>4 DEF Next

(* Every step keeps the routes within the active run.                      *)
LEMMA RouteStep ==
    ASSUME IInv, EndedInv, RouteInv, [Next]_vars
    PROVE  RouteInv'
<1> USE ProcsAssumption, TurnsAssumption, FlagsAssumption DEF IInv, vars, runVars, outerVars,
    closeVars, resVars, envVars, TypeOK, TaskState, RunPC, CallerPC, TeardownPC, CloserPC,
    Callers, Procs, OwnerInv, TeardownInv, EndedInv, RouteInv
<1>1. ASSUME NEW c \in Callers, CallerStep(c) PROVE RouteInv'
  <2> USE <1>1
  <2>1. ASSUME NEW t \in Turns, Begin(c, t) PROVE RouteInv'
    BY <2>1 DEF Begin, Reserve, Goto, SetTurn
  <2>2. CASE StartFails(c)
    BY <2>2 DEF StartFails, LeaveStartup, Goto, SetTurn
  <2>3. CASE CancelStart(c)
    BY <2>3 DEF CancelStart, LeaveStartup, Goto, SetTurn
  <2>4. CASE TurnStarted(c)
    BY <2>4 DEF TurnStarted, Handed, Adopt, Goto
  <2>5. CASE StartRejected(c)
    BY <2>5 DEF StartRejected, Handed, AskStop, Goto
  <2>6. CASE BridgeRefused(c)
    BY <2>6 DEF BridgeRefused, Handed, AskStop, Goto
  <2>7. CASE AbortDone(c)
    BY <2>7 DEF AbortDone, LeaveStartup, Goto, SetTurn
  <2>8. CASE Yield(c)
    BY <2>8 DEF Yield, Move, Goto
  <2>9. CASE Pull(c)
    BY <2>9 DEF Pull, Move, Goto
  <2>10. CASE Terminal(c)
    BY <2>10 DEF Terminal, RunFrame, Goto
  <2>11. CASE Finish(c)
    BY <2>11 DEF Finish, Finalise, CleanupTurn, MarkFinished, ReleaseTurn, RunFrame, Goto,
        SetTurn
  <2>12. CASE StreamBreaks(c)
    BY <2>12 DEF StreamBreaks, Finalise, CleanupTurn, MarkFinished, ReleaseTurn, Drain,
        AskStop, RunFrame, Goto, SetTurn
  <2>13. CASE MissingTerminal(c)
    BY <2>13 DEF MissingTerminal, Finalise, CleanupTurn, MarkFinished, RunFrame, Goto
  <2>14. CASE LastEvent(c)
    BY <2>14 DEF LastEvent, ReleaseTurn, Drain, AskStop, RunFrame, Goto, SetTurn
  <2>15. CASE CancelTurn(c)
    BY <2>15 DEF CancelTurn, AskStop, RunFrame, Goto
  <2>16. CASE Unwound(c)
    BY <2>16 DEF Unwound, Finalise, CleanupTurn, MarkFinished, Drain, AskStop, RunFrame, Goto
  <2>17. CASE DrainDone(c)
    BY <2>17 DEF DrainDone, Finalise, CleanupTurn, MarkFinished, ReleaseTurn, RunFrame, Goto,
        SetTurn
  <2>18. CASE CloseStream(c)
    BY <2>18 DEF CloseStream, CleanupTurn, MarkFinished, ReleaseTurn, Drain, AskStop,
        RunFrame, Goto, SetTurn
  <2> QED BY <2>1, <2>2, <2>3, <2>4, <2>5, <2>6, <2>7, <2>8, <2>9, <2>10, <2>11, <2>12, <2>13,
      <2>14, <2>15, <2>16, <2>17, <2>18 DEF CallerStep
<1>2. ASSUME NEW k \in Closers, CloserStep(k) PROVE RouteInv'
  <2> USE <1>2
  <2>1. CASE CloseQueue(k)
    BY <2>1 DEF CloseQueue, Move, Goto
  <2>2. CASE CloseNoop(k)
    BY <2>2 DEF CloseNoop, EntersClose, Move, Goto
  <2>3. CASE CloseJoin(k)
    BY <2>3 DEF CloseJoin, EntersClose, SetCloseLock, Goto
  <2>4. CASE EventSet(k)
    BY <2>4 DEF EventSet, SetCloseLock, Goto
  <2>5. CASE CloseBegin(k)
    BY <2>5 DEF CloseBegin, EntersClose, BeginTeardown, AskStop, Goto
  <2>6. CASE InterruptReturned(k)
    BY <2>6 DEF InterruptReturned, SetTurn, WaitFrame, Goto
  <2>7. CASE InterruptFailed(k)
    BY <2>7 DEF InterruptFailed, SetTurn, WaitFrame, Goto
  <2>8. CASE RunFinished(k)
    BY <2>8 DEF RunFinished, SetTurn, WaitFrame, Goto
  <2>9. CASE AcquireTurn(k)
    BY <2>9 DEF AcquireTurn, DeleteThread, EndTurnState, CleanupTurn, Goto
  <2>10. CASE AcquireTurnNoSdk(k)
    BY <2>10 DEF AcquireTurnNoSdk, EndTurnState, CleanupTurn, DestroyRest, CloseState, Goto
  <2>11. CASE DeleteReturned(k)
    BY <2>11 DEF DeleteReturned, DestroyRest, CloseState, Goto
  <2>12. CASE DeleteFailed(k)
    BY <2>12 DEF DeleteFailed, DestroyRest, CloseState, Goto
  <2>13. CASE Announced(k)
    BY <2>13 DEF Announced, Move, Goto
  <2>14. CASE CancelTeardown(k)
    BY <2>14 DEF CancelTeardown, CloseState, SetTurn, Goto
  <2>15. CASE CancelWaiting(k)
    BY <2>15 DEF CancelWaiting, SetCloseLock, Goto
  <2> QED BY <2>1, <2>2, <2>3, <2>4, <2>5, <2>6, <2>7, <2>8, <2>9, <2>10, <2>11, <2>12, <2>13,
      <2>14, <2>15 DEF CloserStep
<1>3. CASE EnvStep
  <2>1. CASE Interrupt
    BY <2>1 DEF Interrupt, AskStop
  <2>2. ASSUME NEW t \in Turns, ProviderStarts(t) \/ ProviderEnds(t) PROVE RouteInv'
    BY <2>2 DEF ProviderStarts, ProviderEnds, SetProv
  <2>3. CASE RuntimeClosing
    BY <2>3 DEF RuntimeClosing
  <2>4. CASE SdkDown
    BY <2>4 DEF SdkDown
  <2> QED BY <1>3, <2>1, <2>2, <2>3, <2>4 DEF EnvStep
<1>4. CASE UNCHANGED vars
  BY <1>4
<1> QED BY <1>1, <1>2, <1>3, <1>4 DEF Next

(* Every step keeps the recorded invocation unfinalised outside a run.     *)
LEMMA InvocationStep ==
    ASSUME IInv, EndedInv, InvocationInv, [Next]_vars
    PROVE  InvocationInv'
<1> USE ProcsAssumption, TurnsAssumption, FlagsAssumption DEF IInv, vars, runVars, outerVars,
    closeVars, resVars, envVars, TypeOK, TaskState, RunPC, CallerPC, TeardownPC, CloserPC,
    Callers, Procs, OwnerInv, TeardownInv, EndedInv, InvocationInv
<1>1. ASSUME NEW c \in Callers, CallerStep(c) PROVE InvocationInv'
  <2> USE <1>1
  <2>1. ASSUME NEW t \in Turns, Begin(c, t) PROVE InvocationInv'
    BY <2>1 DEF Begin, Reserve, Goto, SetTurn
  <2>2. CASE StartFails(c)
    BY <2>2 DEF StartFails, LeaveStartup, Goto, SetTurn
  <2>3. CASE CancelStart(c)
    BY <2>3 DEF CancelStart, LeaveStartup, Goto, SetTurn
  <2>4. CASE TurnStarted(c)
    BY <2>4 DEF TurnStarted, Handed, Adopt, Goto
  <2>5. CASE StartRejected(c)
    BY <2>5 DEF StartRejected, Handed, AskStop, Goto
  <2>6. CASE BridgeRefused(c)
    BY <2>6 DEF BridgeRefused, Handed, AskStop, Goto
  <2>7. CASE AbortDone(c)
    BY <2>7 DEF AbortDone, LeaveStartup, Goto, SetTurn
  <2>8. CASE Yield(c)
    BY <2>8 DEF Yield, Move, Goto
  <2>9. CASE Pull(c)
    BY <2>9 DEF Pull, Move, Goto
  <2>10. CASE Terminal(c)
    BY <2>10 DEF Terminal, RunFrame, Goto
  <2>11. CASE Finish(c)
    BY <2>11 DEF Finish, Finalise, CleanupTurn, MarkFinished, ReleaseTurn, RunFrame, Goto,
        SetTurn
  <2>12. CASE StreamBreaks(c)
    BY <2>12 DEF StreamBreaks, Finalise, CleanupTurn, MarkFinished, ReleaseTurn, Drain,
        AskStop, RunFrame, Goto, SetTurn
  <2>13. CASE MissingTerminal(c)
    BY <2>13 DEF MissingTerminal, Finalise, CleanupTurn, MarkFinished, RunFrame, Goto
  <2>14. CASE LastEvent(c)
    BY <2>14 DEF LastEvent, ReleaseTurn, Drain, AskStop, RunFrame, Goto, SetTurn
  <2>15. CASE CancelTurn(c)
    BY <2>15 DEF CancelTurn, AskStop, RunFrame, Goto
  <2>16. CASE Unwound(c)
    BY <2>16 DEF Unwound, Finalise, CleanupTurn, MarkFinished, Drain, AskStop, RunFrame, Goto
  <2>17. CASE DrainDone(c)
    BY <2>17 DEF DrainDone, Finalise, CleanupTurn, MarkFinished, ReleaseTurn, RunFrame, Goto,
        SetTurn
  <2>18. CASE CloseStream(c)
    BY <2>18 DEF CloseStream, CleanupTurn, MarkFinished, ReleaseTurn, Drain, AskStop,
        RunFrame, Goto, SetTurn
  <2> QED BY <2>1, <2>2, <2>3, <2>4, <2>5, <2>6, <2>7, <2>8, <2>9, <2>10, <2>11, <2>12, <2>13,
      <2>14, <2>15, <2>16, <2>17, <2>18 DEF CallerStep
<1>2. ASSUME NEW k \in Closers, CloserStep(k) PROVE InvocationInv'
  <2> USE <1>2
  <2>1. CASE CloseQueue(k)
    BY <2>1 DEF CloseQueue, Move, Goto
  <2>2. CASE CloseNoop(k)
    BY <2>2 DEF CloseNoop, EntersClose, Move, Goto
  <2>3. CASE CloseJoin(k)
    BY <2>3 DEF CloseJoin, EntersClose, SetCloseLock, Goto
  <2>4. CASE EventSet(k)
    BY <2>4 DEF EventSet, SetCloseLock, Goto
  <2>5. CASE CloseBegin(k)
    BY <2>5 DEF CloseBegin, EntersClose, BeginTeardown, AskStop, Goto
  <2>6. CASE InterruptReturned(k)
    BY <2>6 DEF InterruptReturned, SetTurn, WaitFrame, Goto
  <2>7. CASE InterruptFailed(k)
    BY <2>7 DEF InterruptFailed, SetTurn, WaitFrame, Goto
  <2>8. CASE RunFinished(k)
    BY <2>8 DEF RunFinished, SetTurn, WaitFrame, Goto
  <2>9. CASE AcquireTurn(k)
    BY <2>9 DEF AcquireTurn, DeleteThread, EndTurnState, CleanupTurn, Goto
  <2>10. CASE AcquireTurnNoSdk(k)
    BY <2>10 DEF AcquireTurnNoSdk, EndTurnState, CleanupTurn, DestroyRest, CloseState, Goto
  <2>11. CASE DeleteReturned(k)
    BY <2>11 DEF DeleteReturned, DestroyRest, CloseState, Goto
  <2>12. CASE DeleteFailed(k)
    BY <2>12 DEF DeleteFailed, DestroyRest, CloseState, Goto
  <2>13. CASE Announced(k)
    BY <2>13 DEF Announced, Move, Goto
  <2>14. CASE CancelTeardown(k)
    BY <2>14 DEF CancelTeardown, CloseState, SetTurn, Goto
  <2>15. CASE CancelWaiting(k)
    BY <2>15 DEF CancelWaiting, SetCloseLock, Goto
  <2> QED BY <2>1, <2>2, <2>3, <2>4, <2>5, <2>6, <2>7, <2>8, <2>9, <2>10, <2>11, <2>12, <2>13,
      <2>14, <2>15 DEF CloserStep
<1>3. CASE EnvStep
  <2>1. CASE Interrupt
    BY <2>1 DEF Interrupt, AskStop
  <2>2. ASSUME NEW t \in Turns, ProviderStarts(t) \/ ProviderEnds(t) PROVE InvocationInv'
    BY <2>2 DEF ProviderStarts, ProviderEnds, SetProv
  <2>3. CASE RuntimeClosing
    BY <2>3 DEF RuntimeClosing
  <2>4. CASE SdkDown
    BY <2>4 DEF SdkDown
  <2> QED BY <1>3, <2>1, <2>2, <2>3, <2>4 DEF EnvStep
<1>4. CASE UNCHANGED vars
  BY <1>4
<1> QED BY <1>1, <1>2, <1>3, <1>4 DEF Next

(* Every step, a cancellation included, keeps the waits of close() served. *)
LEMMA WaitStep ==
    ASSUME IInv, WaitInv, [Next]_vars
    PROVE  WaitInv'
<1> USE ProcsAssumption, TurnsAssumption, FlagsAssumption DEF IInv, vars, runVars, outerVars,
    closeVars, resVars, envVars, TypeOK, TaskState, RunPC, CallerPC, TeardownPC, CloserPC,
    Callers, Procs, OwnerInv, TeardownInv, WaitInv
<1>1. ASSUME NEW c \in Callers, CallerStep(c) PROVE WaitInv'
  BY <1>1, CallerFrame
<1>2. ASSUME NEW k \in Closers, CloserStep(k) PROVE WaitInv'
  <2> USE <1>2
  <2>1. CASE CloseQueue(k)
    BY <2>1 DEF CloseQueue, Move, Goto
  <2>2. CASE CloseNoop(k)
    BY <2>2 DEF CloseNoop, EntersClose, Move, Goto
  <2>3. CASE CloseJoin(k)
    BY <2>3 DEF CloseJoin, EntersClose, SetCloseLock, Goto
  <2>4. CASE EventSet(k)
    BY <2>4 DEF EventSet, SetCloseLock, Goto
  <2>5. CASE CloseBegin(k)
    BY <2>5 DEF CloseBegin, EntersClose, BeginTeardown, AskStop, Goto
  <2>6. CASE InterruptReturned(k)
    BY <2>6 DEF InterruptReturned, SetTurn, WaitFrame, Goto
  <2>7. CASE InterruptFailed(k)
    BY <2>7 DEF InterruptFailed, SetTurn, WaitFrame, Goto
  <2>8. CASE RunFinished(k)
    BY <2>8 DEF RunFinished, SetTurn, WaitFrame, Goto
  <2>9. CASE AcquireTurn(k)
    BY <2>9 DEF AcquireTurn, DeleteThread, EndTurnState, CleanupTurn, Goto
  <2>10. CASE AcquireTurnNoSdk(k)
    BY <2>10 DEF AcquireTurnNoSdk, EndTurnState, CleanupTurn, DestroyRest, CloseState, Goto
  <2>11. CASE DeleteReturned(k)
    BY <2>11 DEF DeleteReturned, DestroyRest, CloseState, Goto
  <2>12. CASE DeleteFailed(k)
    BY <2>12 DEF DeleteFailed, DestroyRest, CloseState, Goto
  <2>13. CASE Announced(k)
    BY <2>13 DEF Announced, Move, Goto
  <2>14. CASE CancelTeardown(k)
    BY <2>14 DEF CancelTeardown, CloseState, SetTurn, Goto
  <2>15. CASE CancelWaiting(k)
    BY <2>15 DEF CancelWaiting, SetCloseLock, Goto
  <2> QED BY <2>1, <2>2, <2>3, <2>4, <2>5, <2>6, <2>7, <2>8, <2>9, <2>10, <2>11, <2>12, <2>13,
      <2>14, <2>15 DEF CloserStep
<1>3. CASE EnvStep
  <2>1. CASE Interrupt
    BY <2>1 DEF Interrupt, AskStop
  <2>2. ASSUME NEW t \in Turns, ProviderStarts(t) \/ ProviderEnds(t) PROVE WaitInv'
    BY <2>2 DEF ProviderStarts, ProviderEnds, SetProv
  <2>3. CASE RuntimeClosing
    BY <2>3 DEF RuntimeClosing
  <2>4. CASE SdkDown
    BY <2>4 DEF SdkDown
  <2> QED BY <1>3, <2>1, <2>2, <2>3, <2>4 DEF EnvStep
<1>4. CASE UNCHANGED vars
  BY <1>4
<1> QED BY <1>1, <1>2, <1>3, <1>4 DEF Next

(* Every step keeps the returns of close() behind the teardown.            *)
LEMMA ReturnStep ==
    ASSUME IInv, ReturnInv, [Next]_vars
    PROVE  ReturnInv'
<1> USE ProcsAssumption, TurnsAssumption, FlagsAssumption DEF IInv, vars, runVars, outerVars,
    closeVars, resVars, envVars, TypeOK, TaskState, RunPC, CallerPC, TeardownPC, CloserPC,
    Callers, Procs, OwnerInv, TeardownInv, ReturnInv
<1>1. ASSUME NEW c \in Callers, CallerStep(c) PROVE ReturnInv'
  BY <1>1, CallerFrame
<1>2. ASSUME NEW k \in Closers, CloserStep(k) PROVE ReturnInv'
  <2> USE <1>2
  <2>1. CASE CloseQueue(k)
    BY <2>1 DEF CloseQueue, Move, Goto
  <2>2. CASE CloseNoop(k)
    BY <2>2 DEF CloseNoop, EntersClose, Move, Goto
  <2>3. CASE CloseJoin(k)
    BY <2>3 DEF CloseJoin, EntersClose, SetCloseLock, Goto
  <2>4. CASE EventSet(k)
    BY <2>4 DEF EventSet, SetCloseLock, Goto
  <2>5. CASE CloseBegin(k)
    BY <2>5 DEF CloseBegin, EntersClose, BeginTeardown, AskStop, Goto
  <2>6. CASE InterruptReturned(k)
    BY <2>6 DEF InterruptReturned, SetTurn, WaitFrame, Goto
  <2>7. CASE InterruptFailed(k)
    BY <2>7 DEF InterruptFailed, SetTurn, WaitFrame, Goto
  <2>8. CASE RunFinished(k)
    BY <2>8 DEF RunFinished, SetTurn, WaitFrame, Goto
  <2>9. CASE AcquireTurn(k)
    BY <2>9 DEF AcquireTurn, DeleteThread, EndTurnState, CleanupTurn, Goto
  <2>10. CASE AcquireTurnNoSdk(k)
    BY <2>10 DEF AcquireTurnNoSdk, EndTurnState, CleanupTurn, DestroyRest, CloseState, Goto
  <2>11. CASE DeleteReturned(k)
    BY <2>11 DEF DeleteReturned, DestroyRest, CloseState, Goto
  <2>12. CASE DeleteFailed(k)
    BY <2>12 DEF DeleteFailed, DestroyRest, CloseState, Goto
  <2>13. CASE Announced(k)
    BY <2>13 DEF Announced, Move, Goto
  <2>14. CASE CancelTeardown(k)
    BY <2>14 DEF CancelTeardown, CloseState, SetTurn, Goto
  <2>15. CASE CancelWaiting(k)
    BY <2>15 DEF CancelWaiting, SetCloseLock, Goto
  <2> QED BY <2>1, <2>2, <2>3, <2>4, <2>5, <2>6, <2>7, <2>8, <2>9, <2>10, <2>11, <2>12, <2>13,
      <2>14, <2>15 DEF CloserStep
<1>3. CASE EnvStep
  <2>1. CASE Interrupt
    BY <2>1 DEF Interrupt, AskStop
  <2>2. ASSUME NEW t \in Turns, ProviderStarts(t) \/ ProviderEnds(t) PROVE ReturnInv'
    BY <2>2 DEF ProviderStarts, ProviderEnds, SetProv
  <2>3. CASE RuntimeClosing
    BY <2>3 DEF RuntimeClosing
  <2>4. CASE SdkDown
    BY <2>4 DEF SdkDown
  <2> QED BY <1>3, <2>1, <2>2, <2>3, <2>4 DEF EnvStep
<1>4. CASE UNCHANGED vars
  BY <1>4
<1> QED BY <1>1, <1>2, <1>3, <1>4 DEF Next

(* Without cancellation inside close() every step to CLOSED releases all.  *)
LEMMA ReleaseStep ==
    ASSUME IInv, ReleaseInv, ~ClosersCancellable, [Next]_vars
    PROVE  ReleaseInv'
<1> USE ProcsAssumption, TurnsAssumption, FlagsAssumption DEF IInv, vars, runVars, outerVars,
    closeVars, resVars, envVars, TypeOK, TaskState, RunPC, CallerPC, TeardownPC, CloserPC,
    Callers, Procs, OwnerInv, TeardownInv, ReleaseInv
<1>1. ASSUME NEW c \in Callers, CallerStep(c) PROVE ReleaseInv'
  BY <1>1, CallerFrame
<1>2. ASSUME NEW k \in Closers, CloserStep(k) PROVE ReleaseInv'
  <2> USE <1>2
  <2>1. CASE CloseQueue(k)
    BY <2>1 DEF CloseQueue, Move, Goto
  <2>2. CASE CloseNoop(k)
    BY <2>2 DEF CloseNoop, EntersClose, Move, Goto
  <2>3. CASE CloseJoin(k)
    BY <2>3 DEF CloseJoin, EntersClose, SetCloseLock, Goto
  <2>4. CASE EventSet(k)
    BY <2>4 DEF EventSet, SetCloseLock, Goto
  <2>5. CASE CloseBegin(k)
    BY <2>5 DEF CloseBegin, EntersClose, BeginTeardown, AskStop, Goto
  <2>6. CASE InterruptReturned(k)
    BY <2>6 DEF InterruptReturned, SetTurn, WaitFrame, Goto
  <2>7. CASE InterruptFailed(k)
    BY <2>7 DEF InterruptFailed, SetTurn, WaitFrame, Goto
  <2>8. CASE RunFinished(k)
    BY <2>8 DEF RunFinished, SetTurn, WaitFrame, Goto
  <2>9. CASE AcquireTurn(k)
    BY <2>9 DEF AcquireTurn, DeleteThread, EndTurnState, CleanupTurn, Goto
  <2>10. CASE AcquireTurnNoSdk(k)
    BY <2>10 DEF AcquireTurnNoSdk, EndTurnState, CleanupTurn, DestroyRest, CloseState, Goto
  <2>11. CASE DeleteReturned(k)
    BY <2>11 DEF DeleteReturned, DestroyRest, CloseState, Goto
  <2>12. CASE DeleteFailed(k)
    BY <2>12 DEF DeleteFailed, DestroyRest, CloseState, Goto
  <2>13. CASE Announced(k)
    BY <2>13 DEF Announced, Move, Goto
  <2>14. CASE CancelTeardown(k)
    BY <2>14 DEF CancelTeardown, CloseState, SetTurn, Goto
  <2>15. CASE CancelWaiting(k)
    BY <2>15 DEF CancelWaiting, SetCloseLock, Goto
  <2> QED BY <2>1, <2>2, <2>3, <2>4, <2>5, <2>6, <2>7, <2>8, <2>9, <2>10, <2>11, <2>12, <2>13,
      <2>14, <2>15 DEF CloserStep
<1>3. CASE EnvStep
  <2>1. CASE Interrupt
    BY <2>1 DEF Interrupt, AskStop
  <2>2. ASSUME NEW t \in Turns, ProviderStarts(t) \/ ProviderEnds(t) PROVE ReleaseInv'
    BY <2>2 DEF ProviderStarts, ProviderEnds, SetProv
  <2>3. CASE RuntimeClosing
    BY <2>3 DEF RuntimeClosing
  <2>4. CASE SdkDown
    BY <2>4 DEF SdkDown
  <2> QED BY <1>3, <2>1, <2>2, <2>3, <2>4 DEF EnvStep
<1>4. CASE UNCHANGED vars
  BY <1>4
<1> QED BY <1>1, <1>2, <1>3, <1>4 DEF Next

(* The initial states satisfy these parts.                                 *)
LEMMA InitParts ==
    ASSUME Init
    PROVE  EndedInv /\ RouteInv /\ InvocationInv /\ ReturnInv /\ ReleaseInv /\ WaitInv
  BY ProcsAssumption, TurnsAssumption DEF Init, Callers, Procs, EndedInv, RouteInv, InvocationInv,
     ReturnInv, ReleaseInv, WaitInv

(* The parts about turns hold in every reachable state.                    *)
LEMMA TurnInvariance == Spec => [](EndedInv /\ RouteInv /\ InvocationInv)
<1>1. Init => EndedInv /\ RouteInv /\ InvocationInv
  BY InitParts
<1>2. IInv /\ EndedInv /\ RouteInv /\ InvocationInv /\ [Next]_vars
         => (EndedInv /\ RouteInv /\ InvocationInv)'
  BY EndedStep, RouteStep, InvocationStep
<1> QED BY <1>1, <1>2, Invariance, PTL DEF Spec

(* The tool state of a turn is finalised at most once, by the cleanup of   *)
(* its run or by step 3 of close(), and not later than the turn lock goes; *)
(* until then only the active run has a route, on every way out of a turn. *)
THEOREM FinalisedOnceTheorem == Spec => []ToolStateFinalisedOnce
<1>1. IInv /\ EndedInv /\ RouteInv => ToolStateFinalisedOnce
  <2> SUFFICES ASSUME IInv, EndedInv, RouteInv PROVE ToolStateFinalisedOnce
    OBVIOUS
  <2>1. \A t \in Turns : ended[t] <= 1
    BY DEF EndedInv
  <2>2. lock = NoOne => routes = {}
    BY ProcsAssumption, TurnsAssumption DEF IInv, TypeOK, OwnerInv, RouteInv, RunPC, Callers, Procs
  <2> QED BY <2>1, <2>2 DEF EndedInv, RouteInv, ToolStateFinalisedOnce
<1> QED BY <1>1, Invariance, TurnInvariance, PTL

(* No call of close() waits for what nobody will bring about, and one at a *)
(* time tears down, also when calls are cancelled at any await.            *)
THEOREM CloseWaitTheorem == Spec => []NoCloseWaitsInVain
<1>1. Init => WaitInv
  BY InitParts
<1>2. IInv /\ WaitInv /\ [Next]_vars => WaitInv'
  BY WaitStep
<1>3. IInv /\ WaitInv => NoCloseWaitsInVain
  <2> SUFFICES ASSUME IInv, WaitInv PROVE NoCloseWaitsInVain
    OBVIOUS
  <2>1. state # "OPEN" => closeEvent \/ \E j \in Closers : pc[j] \in TeardownPC
    BY DEF IInv, TypeOK, TaskState, WaitInv
  <2>2. ASSUME NEW k \in Closers, pc[k] = "waitTurn", lock # NoOne
        PROVE  lock \in Callers /\ InTurn(lock)
    <3>1. lock \notin Closers
      BY <2>2 DEF IInv, TeardownInv, TeardownPC
    <3>2. lock \in Callers
      BY <2>2, <3>1 DEF IInv, TypeOK, Procs
    <3> QED BY <3>2 DEF IInv, OwnerInv, InTurn
  <2>3. ASSUME NEW j \in Closers, NEW k \in Closers, pc[j] \in TeardownPC, pc[k] \in TeardownPC
        PROVE  j = k /\ state # "OPEN"
    BY <2>3 DEF IInv, TeardownInv
  <2> QED BY <2>1, <2>2, <2>3 DEF WaitInv, NoCloseWaitsInVain
<1> QED BY <1>1, <1>2, <1>3, Invariance, PTL DEF Spec

(* While close() is not cancelled, CLOSED means that nothing is left and   *)
(* that every call that returned did so after the teardown.                *)
LEMMA CloseInvariance ==
    ASSUME ~ClosersCancellable
    PROVE  Spec => [](ReturnInv /\ ReleaseInv)
<1>1. Init => ReturnInv /\ ReleaseInv
  BY InitParts
<1>2. IInv /\ ReturnInv /\ ReleaseInv /\ [Next]_vars => (ReturnInv /\ ReleaseInv)'
  BY ReturnStep, ReleaseStep
<1> QED BY <1>1, <1>2, Invariance, PTL DEF Spec

(* A close() that runs to its end has unregistered the task, removed the   *)
(* directory as far as possible and deleted the thread, or says why not.   *)
THEOREM ReleaseTheorem ==
    ASSUME ~ClosersCancellable
    PROVE  Spec => []CloseReleasesEverything
<1>1. ReleaseInv => CloseReleasesEverything
  BY DEF ReleaseInv, CloseReleasesEverything
<1> QED BY <1>1, CloseInvariance, PTL

(* No call of close() returns before the teardown is over, also when       *)
(* another call performs it.                                               *)
THEOREM CloseReturnTheorem ==
    ASSUME ~ClosersCancellable
    PROVE  Spec => []CloseReturnsAfterTeardown
<1>1. IInv /\ ReturnInv /\ ReleaseInv => CloseReturnsAfterTeardown
  BY DEF IInv, OwnerInv, ReturnInv, ReleaseInv, CloseReturnsAfterTeardown, InTurn
<1> QED BY <1>1, Invariance, CloseInvariance, PTL

-----------------------------------------------------------------------------
(* The task implements its contract.                                       *)

(* Without cancellation inside close() every step is one of the contract,  *)
(* or leaves the contract's variables alone.                               *)
LEMMA ContractStep ==
    ASSUME IInv, ~ClosersCancellable, [Next]_vars
    PROVE  [Contract!Next]_Contract!vars
<1> USE DEF Contract!Next, Contract!vars, Contract!Reserve, Contract!Own, Contract!Leave,
            Contract!BeginClose, Contract!Release, Contract!Forget
<1> USE ProcsAssumption, TurnsAssumption, FlagsAssumption DEF IInv, vars, runVars, outerVars,
    closeVars, resVars, envVars, TypeOK, TaskState, RunPC, CallerPC, TeardownPC, CloserPC,
    Callers, Procs, OwnerInv, TeardownInv, ResourceInv, TornDown, turnOfTask
<1>1. ASSUME NEW c \in Callers, CallerStep(c) PROVE [Contract!Next]_Contract!vars
  <2> USE <1>1
  <2>1. ASSUME NEW t \in Turns, Begin(c, t) PROVE [Contract!Next]_Contract!vars
    BY <2>1 DEF Begin, Reserve, Goto, SetTurn
  <2>2. CASE StartFails(c)
    BY <2>2 DEF StartFails, LeaveStartup, Goto, SetTurn
  <2>3. CASE CancelStart(c)
    BY <2>3 DEF CancelStart, LeaveStartup, Goto, SetTurn
  <2>4. CASE TurnStarted(c)
    BY <2>4 DEF TurnStarted, Handed, Adopt, Goto
  <2>5. CASE StartRejected(c)
    BY <2>5 DEF StartRejected, Handed, AskStop, Goto
  <2>6. CASE BridgeRefused(c)
    BY <2>6 DEF BridgeRefused, Handed, AskStop, Goto
  <2>7. CASE AbortDone(c)
    BY <2>7 DEF AbortDone, LeaveStartup, Goto, SetTurn
  <2>8. CASE Yield(c)
    BY <2>8 DEF Yield, Move, Goto
  <2>9. CASE Pull(c)
    BY <2>9 DEF Pull, Move, Goto
  <2>10. CASE Terminal(c)
    BY <2>10 DEF Terminal, RunFrame, Goto
  <2>11. CASE Finish(c)
    BY <2>11 DEF Finish, Finalise, CleanupTurn, MarkFinished, ReleaseTurn, RunFrame, Goto,
        SetTurn
  <2>12. CASE StreamBreaks(c)
    BY <2>12 DEF StreamBreaks, Finalise, CleanupTurn, MarkFinished, ReleaseTurn, Drain,
        AskStop, RunFrame, Goto, SetTurn
  <2>13. CASE MissingTerminal(c)
    BY <2>13 DEF MissingTerminal, Finalise, CleanupTurn, MarkFinished, RunFrame, Goto
  <2>14. CASE LastEvent(c)
    BY <2>14 DEF LastEvent, ReleaseTurn, Drain, AskStop, RunFrame, Goto, SetTurn
  <2>15. CASE CancelTurn(c)
    BY <2>15 DEF CancelTurn, AskStop, RunFrame, Goto
  <2>16. CASE Unwound(c)
    BY <2>16 DEF Unwound, Finalise, CleanupTurn, MarkFinished, Drain, AskStop, RunFrame, Goto
  <2>17. CASE DrainDone(c)
    BY <2>17 DEF DrainDone, Finalise, CleanupTurn, MarkFinished, ReleaseTurn, RunFrame, Goto,
        SetTurn
  <2>18. CASE CloseStream(c)
    BY <2>18 DEF CloseStream, CleanupTurn, MarkFinished, ReleaseTurn, Drain, AskStop,
        RunFrame, Goto, SetTurn
  <2> QED BY <2>1, <2>2, <2>3, <2>4, <2>5, <2>6, <2>7, <2>8, <2>9, <2>10, <2>11, <2>12, <2>13,
      <2>14, <2>15, <2>16, <2>17, <2>18 DEF CallerStep
<1>2. ASSUME NEW k \in Closers, CloserStep(k) PROVE [Contract!Next]_Contract!vars
  <2> USE <1>2
  <2>1. CASE CloseQueue(k)
    BY <2>1 DEF CloseQueue, Move, Goto
  <2>2. CASE CloseNoop(k)
    BY <2>2 DEF CloseNoop, EntersClose, Move, Goto
  <2>3. CASE CloseJoin(k)
    BY <2>3 DEF CloseJoin, EntersClose, SetCloseLock, Goto
  <2>4. CASE EventSet(k)
    BY <2>4 DEF EventSet, SetCloseLock, Goto
  <2>5. CASE CloseBegin(k)
    BY <2>5 DEF CloseBegin, EntersClose, BeginTeardown, AskStop, Goto
  <2>6. CASE InterruptReturned(k)
    BY <2>6 DEF InterruptReturned, SetTurn, WaitFrame, Goto
  <2>7. CASE InterruptFailed(k)
    BY <2>7 DEF InterruptFailed, SetTurn, WaitFrame, Goto
  <2>8. CASE RunFinished(k)
    BY <2>8 DEF RunFinished, SetTurn, WaitFrame, Goto
  <2>9. CASE AcquireTurn(k)
    BY <2>9 DEF AcquireTurn, DeleteThread, EndTurnState, CleanupTurn, Goto
  <2>10. CASE AcquireTurnNoSdk(k)
    BY <2>10 DEF AcquireTurnNoSdk, EndTurnState, CleanupTurn, DestroyRest, CloseState, Goto
  <2>11. CASE DeleteReturned(k)
    BY <2>11 DEF DeleteReturned, DestroyRest, CloseState, Goto
  <2>12. CASE DeleteFailed(k)
    BY <2>12 DEF DeleteFailed, DestroyRest, CloseState, Goto
  <2>13. CASE Announced(k)
    BY <2>13 DEF Announced, Move, Goto
  <2>14. CASE CancelTeardown(k)
    BY <2>14 DEF CancelTeardown, CloseState, SetTurn, Goto
  <2>15. CASE CancelWaiting(k)
    BY <2>15 DEF CancelWaiting, SetCloseLock, Goto
  <2> QED BY <2>1, <2>2, <2>3, <2>4, <2>5, <2>6, <2>7, <2>8, <2>9, <2>10, <2>11, <2>12, <2>13,
      <2>14, <2>15 DEF CloserStep
<1>3. CASE EnvStep
  <2>1. CASE Interrupt
    BY <2>1 DEF Interrupt, AskStop
  <2>2. ASSUME NEW t \in Turns, ProviderStarts(t) \/ ProviderEnds(t) PROVE
      [Contract!Next]_Contract!vars
    BY <2>2 DEF ProviderStarts, ProviderEnds, SetProv
  <2>3. CASE RuntimeClosing
    BY <2>3 DEF RuntimeClosing
  <2>4. CASE SdkDown
    BY <2>4 DEF SdkDown
  <2> QED BY <1>3, <2>1, <2>2, <2>3, <2>4 DEF EnvStep
<1>4. CASE UNCHANGED vars
  BY <1>4
<1> QED BY <1>1, <1>2, <1>3, <1>4 DEF Next

(* The lifecycle of the implementation is that of the contract: turns are  *)
(* gained only while OPEN, and everything is released in the one step to   *)
(* CLOSED with no turn left, unless close() itself is cancelled.           *)
THEOREM Refinement ==
    ASSUME ~ClosersCancellable
    PROVE  Spec => ContractSpec
<1>1. Init => Contract!Init
  BY ProcsAssumption DEF Init, Contract!Init, turnOfTask, Callers, Procs
<1>2. IInv /\ [Next]_vars => [Contract!Next]_Contract!vars
  BY ContractStep
<1> QED BY <1>1, <1>2, Invariance, PTL DEF Spec, ContractSpec, Contract!Spec

(* No turn becomes the active run once close() has left OPEN.              *)
THEOREM OwnershipAfterClosing == Spec => NoOwnershipAfterClosing
<1> DEFINE A == activeRun' \in {activeRun, NoTurn} \/ (state = "OPEN" /\ state' = "OPEN")
<1>1. [Next]_vars => [A]_vars
  <2> SUFFICES ASSUME Next PROVE A
    OBVIOUS
  <2> USE DEF runVars
  <2>1. ASSUME NEW c \in Callers, CallerStep(c) PROVE A
    BY <2>1 DEF CallerStep, Begin, Reserve, StartFails, CancelStart, LeaveStartup, TurnStarted,
        Handed, Adopt, StartRejected, BridgeRefused, AbortDone, Yield, Pull, Move, Terminal,
        Finish, StreamBreaks, MissingTerminal, LastEvent, CancelTurn, Unwound, DrainDone,
        CloseStream, ReleaseTurn, Drain, RunFrame
  <2>2. ASSUME NEW k \in Closers, CloserStep(k) PROVE A
    BY <2>2 DEF CloserStep, CloseQueue, CloseNoop, CloseJoin, EventSet, SetCloseLock, CloseBegin,
        BeginTeardown, InterruptReturned, InterruptFailed, RunFinished, WaitFrame, AcquireTurn,
        AcquireTurnNoSdk, DeleteThread, DeleteReturned, DeleteFailed, DestroyRest, Announced,
        CancelTeardown, CancelWaiting, Move
  <2>3. CASE EnvStep
    BY <2>3 DEF EnvStep, Interrupt, ProviderStarts, ProviderEnds, SetProv, RuntimeClosing, SdkDown
  <2> QED BY <2>1, <2>2, <2>3 DEF Next
<1> QED BY <1>1, PTL DEF Spec, NoOwnershipAfterClosing
=============================================================================
