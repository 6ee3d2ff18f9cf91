--------------------------- MODULE FakeTask_proof ---------------------------
(***************************************************************************)
(* FakeTask implements TaskContract: the task with which hosts test their  *)
(* code keeps the promises of core/task.py that the Codex task keeps.      *)
(***************************************************************************)
EXTENDS FakeTask, SequenceTheorems, TLAPS

Actors == Callers \cup Closers

TypeOK ==
    /\ state \in {"OPEN", "CLOSING", "CLOSED"}
    /\ active \in BOOLEAN
    /\ pc \in [Actors -> {"idle", "running", "publishing", "streaming", "done", "lock", "joining",
                          "teardown", "announcing", "cancelled"}]

InTurn == {c \in Callers : pc[c] \in {"running", "publishing", "streaming"}}
Tearing == {x \in Closers : pc[x] = "teardown"}

(* Who stands in the queue of _lock: nobody; a caller; the teardown; or a  *)
(* caller and behind it the teardown.  The caller is the one that set      *)
(* _active, and the teardown is the only one.                              *)
Free == ~active /\ state # "CLOSING" /\ InTurn = {} /\ Tearing = {} /\ lockQ = << >>
Taken(c) == active /\ state # "CLOSING" /\ InTurn = {c} /\ Tearing = {} /\ lockQ = <<c>>
Closing(x) == ~active /\ state = "CLOSING" /\ InTurn = {} /\ Tearing = {x} /\ lockQ = <<x>>
Overtaken(c, x) == active /\ state = "CLOSING" /\ InTurn = {c} /\ Tearing = {x} /\ lockQ = <<c, x>>

LockInv ==
    \/ Free
    \/ \E c \in Callers : Taken(c)
    \/ \E x \in Closers : Closing(x)
    \/ \E c \in Callers, x \in Closers : Overtaken(c, x)

FakeInv == TypeOK /\ LockInv

(* The queues that occur.                                                  *)
LEMMA Queues ==
    ASSUME NEW a, NEW b
    PROVE  /\ Tail(<<a>>) = << >> /\ Tail(<<a, b>>) = <<b>>
           /\ Append(<< >>, a) = <<a>> /\ Append(<<a>>, b) = <<a, b>>
           /\ Head(<<a>>) = a /\ Head(<<a, b>>) = a
           /\ <<a>> # << >> /\ <<a, b>> # << >>
<1>1. Tail(<<a>>) = << >>
  OBVIOUS
<1>2. Tail(<<a, b>>) = <<b>>
  OBVIOUS
<1>3. Append(<< >>, a) = <<a>>
  OBVIOUS
<1>4. Append(<<a>>, b) = <<a, b>>
  <2> DEFINE s == Append(<<a>>, b)
             t == <<a, b>>
  <2>1. s \in Seq({a, b}) /\ t \in Seq({a, b})
    OBVIOUS
  <2>2. Len(s) = 2 /\ Len(t) = 2
    OBVIOUS
  <2>3. \A i \in 1..2 : s[i] = t[i]
    <3> SUFFICES ASSUME NEW i \in 1..2 PROVE s[i] = t[i]
      OBVIOUS
    <3>1. CASE i = 1
      BY <3>1
    <3>2. CASE i = 2
      BY <3>2
    <3> QED BY <3>1, <3>2
  <2> HIDE DEF s, t
  <2> QED BY <2>1, <2>2, <2>3, SeqEqual DEF s, t
<1>5. Head(<<a>>) = a /\ Head(<<a, b>>) = a
  OBVIOUS
<1>6. <<a>> # << >> /\ <<a, b>> # << >>
  OBVIOUS
<1> QED BY <1>1, <1>2, <1>3, <1>4, <1>5, <1>6

(* A caller inside a turn holds the lock; at most the teardown waits.      *)
LEMMA Holder ==
    ASSUME LockInv, NEW c \in InTurn
    PROVE  Taken(c) \/ \E x \in Closers : Overtaken(c, x)
  BY DEF LockInv, Free, Taken, Closing, Overtaken

(* Steps that leave the queue alone and move nobody into or out of a turn  *)
(* or the teardown.                                                        *)
LEMMA Elsewhere ==
    ASSUME LockInv, UNCHANGED <<state, active, lockQ>>, InTurn' = InTurn, Tearing' = Tearing
    PROVE  LockInv'
  BY DEF LockInv, Free, Taken, Closing, Overtaken

(* A turn that leaves passes the lock on to the teardown, if there is one. *)
LEMMA Leaves ==
    ASSUME TypeOK, LockInv, NEW c \in InTurn, Leave(c), state' = state
    PROVE  LockInv'
<1>1. InTurn' = InTurn \ {c} /\ Tearing' = Tearing
  BY FakeAssumption DEF InTurn, Tearing, Leave, Goto, TypeOK, Actors
<1>2. CASE Taken(c)
  <2>1. lockQ' = << >>
    BY <1>2, Queues DEF Taken, Leave
  <2> QED BY <1>1, <1>2, <2>1 DEF Taken, Free, LockInv, Leave
<1>3. ASSUME NEW x \in Closers, Overtaken(c, x) PROVE LockInv'
  <2>1. lockQ' = <<x>>
    BY <1>3, Queues DEF Overtaken, Leave
  <2> QED BY <1>1, <1>3, <2>1 DEF Overtaken, Closing, LockInv, Leave
<1> QED BY <1>2, <1>3, Holder

LEMMA TypeStep == TypeOK /\ [Next]_vars => TypeOK'
<1> SUFFICES ASSUME TypeOK, [Next]_vars PROVE TypeOK'
  OBVIOUS
<1> USE DEF TypeOK, Actors, turnVars, closeVars, Goto
<1>1. ASSUME NEW c \in Callers, Begin(c) \/ CallTool(c) \/ PublishFails(c) \/ StreamEnds(c)
      PROVE  TypeOK'
  BY <1>1 DEF Begin, CallTool, PublishFails, StreamEnds, Leave
<1>2. ASSUME NEW c \in Callers, Executed(c) PROVE TypeOK'
  BY <1>2 DEF Executed
<1>3. ASSUME NEW c \in Callers, ExecutedStream(c) PROVE TypeOK'
  BY <1>3 DEF ExecutedStream, Leave
<1>4. ASSUME NEW c \in Callers, Published(c) PROVE TypeOK'
  BY <1>4 DEF Published, Leave
<1>5. ASSUME NEW c \in Callers, CancelTurn(c) PROVE TypeOK'
  BY <1>5 DEF CancelTurn, Leave
<1>6. CASE Interrupt
  BY <1>6 DEF Interrupt
<1>7. ASSUME NEW x \in Closers, CloseCalled(x) \/ Joined(x) \/ Announced(x) \/ CloseCancelled(x)
      PROVE  TypeOK'
  BY <1>7 DEF CloseCalled, Joined, Announced, CloseCancelled
<1>8. ASSUME NEW x \in Closers, CloseEnters(x) PROVE TypeOK'
  BY <1>8 DEF CloseEnters
<1>9. ASSUME NEW x \in Closers, Teardown(x) PROVE TypeOK'
  BY <1>9 DEF Teardown, DeclareClosed
<1>10. CASE UNCHANGED vars
  BY <1>10 DEF vars
<1> QED
  BY <1>1, <1>2, <1>3, <1>4, <1>5, <1>6, <1>7, <1>8, <1>9, <1>10
  DEF Next, CallerStep, CloserStep

LEMMA LockStep == FakeInv /\ [Next]_vars => LockInv'
<1> SUFFICES ASSUME TypeOK, LockInv, [Next]_vars PROVE LockInv'
  BY DEF FakeInv
<1> USE DEF turnVars, closeVars
<1>1. ASSUME NEW c \in Callers, Begin(c) PROVE LockInv'
  <2>1. InTurn' = InTurn \cup {c} /\ Tearing' = Tearing
    BY <1>1, FakeAssumption DEF Begin, InTurn, Tearing, Goto, TypeOK, Actors
  <2>2. Free
    BY <1>1, Queues DEF Begin, LockInv, Free, Taken, Closing, Overtaken
  <2>3. Taken(c)'
    BY <1>1, <2>1, <2>2 DEF Begin, Free, Taken
  <2> QED BY <2>3 DEF LockInv
<1>2. ASSUME NEW c \in Callers, CallTool(c) \/ PublishFails(c) PROVE LockInv'
  BY <1>2, Elsewhere DEF CallTool, PublishFails, InTurn, Tearing
<1>3. ASSUME NEW c \in Callers, Executed(c) PROVE LockInv'
  <2>1. InTurn' = InTurn /\ Tearing' = Tearing
    BY <1>3, FakeAssumption DEF Executed, InTurn, Tearing, Goto, TypeOK, Actors
  <2> QED BY <1>3, <2>1, Elsewhere DEF Executed
<1>4. ASSUME NEW c \in Callers, ExecutedStream(c) PROVE LockInv'
  <2>1. c \in InTurn
    BY <1>4 DEF ExecutedStream, InTurn
  <2>2. CASE Leave(c)
    BY <1>4, <2>1, <2>2, Leaves DEF ExecutedStream
  <2>3. CASE Goto(c, "streaming") /\ UNCHANGED <<active, lockQ>>
    <3>1. InTurn' = InTurn /\ Tearing' = Tearing
      BY <1>4, <2>3, FakeAssumption DEF ExecutedStream, InTurn, Tearing, Goto, TypeOK, Actors
    <3> QED BY <1>4, <2>3, <3>1, Elsewhere DEF ExecutedStream
  <2> QED BY <1>4, <2>2, <2>3 DEF ExecutedStream
<1>5. ASSUME NEW c \in Callers, Published(c) PROVE LockInv'
  <2>1. c \in InTurn
    BY <1>5 DEF Published, InTurn
  <2> QED BY <1>5, <2>1, Leaves DEF Published
<1>6. ASSUME NEW c \in Callers, CancelTurn(c) PROVE LockInv'
  <2>1. c \in InTurn
    BY <1>6 DEF CancelTurn, InTurn
  <2>2. CASE Leave(c)
    BY <1>6, <2>1, <2>2, Leaves DEF CancelTurn
  <2>3. CASE Goto(c, "publishing") /\ UNCHANGED turnVars
    <3>1. InTurn' = InTurn /\ Tearing' = Tearing
      BY <2>1, <2>3, FakeAssumption DEF InTurn, Tearing, Goto, TypeOK, Actors
    <3> QED BY <1>6, <2>3, <3>1, Elsewhere DEF CancelTurn
  <2> QED BY <1>6, <2>2, <2>3 DEF CancelTurn
<1>7. ASSUME NEW c \in Callers, StreamEnds(c) PROVE LockInv'
  <2>1. c \in InTurn
    BY <1>7 DEF StreamEnds, InTurn
  <2> QED BY <1>7, <2>1, Leaves DEF StreamEnds
<1>8. CASE Interrupt
  BY <1>8, Elsewhere DEF Interrupt, InTurn, Tearing
<1>9. ASSUME NEW x \in Closers, CloseCalled(x) \/ Joined(x) \/ Announced(x) \/ CloseCancelled(x)
      PROVE  LockInv'
  <2>1. InTurn' = InTurn /\ Tearing' = Tearing
    BY <1>9, FakeAssumption
    DEF CloseCalled, Joined, Announced, CloseCancelled, InTurn, Tearing, Goto, TypeOK, Actors
  <2> QED BY <1>9, <2>1, Elsewhere DEF CloseCalled, Joined, Announced, CloseCancelled
<1>10. ASSUME NEW x \in Closers, CloseEnters(x) PROVE LockInv'
  <2>1. CASE Goto(x, "done") \/ Goto(x, "joining")
    <3>1. pc[x] = "lock" /\ UNCHANGED <<state, active, lockQ>>
      BY <1>10, <2>1 DEF CloseEnters, Goto, TypeOK, Actors
    <3>2. InTurn' = InTurn /\ Tearing' = Tearing
      BY <2>1, <3>1, FakeAssumption DEF InTurn, Tearing, Goto, TypeOK, Actors
    <3> QED BY <3>1, <3>2, Elsewhere
  <2>2. CASE /\ pc[x] = "lock" /\ state # "CLOSING" /\ state' = "CLOSING"
             /\ lockQ' = Append(lockQ, x) /\ Goto(x, "teardown") /\ UNCHANGED active
    <3>1. InTurn' = InTurn /\ Tearing' = Tearing \cup {x}
      BY <2>2, FakeAssumption DEF InTurn, Tearing, Goto, TypeOK, Actors
    <3>2. CASE Free
      <4>1. lockQ' = <<x>>
        BY <2>2, <3>2, Queues DEF Free
      <4> QED BY <2>2, <3>1, <3>2, <4>1 DEF Free, Closing, LockInv
    <3>3. ASSUME NEW c \in Callers, Taken(c) PROVE LockInv'
      <4>1. lockQ' = <<c, x>>
        BY <2>2, <3>3, Queues DEF Taken
      <4> QED BY <2>2, <3>1, <3>3, <4>1 DEF Taken, Overtaken, LockInv
    <3> QED BY <2>2, <3>2, <3>3 DEF LockInv, Closing, Overtaken
  <2> QED BY <1>10, <2>1, <2>2 DEF CloseEnters, Joins
<1>11. ASSUME NEW x \in Closers, Teardown(x) PROVE LockInv'
  <2>1. InTurn' = InTurn /\ Tearing' = Tearing \ {x} /\ x \in Tearing
    BY <1>11, FakeAssumption
    DEF Teardown, DeclareClosed, InTurn, Tearing, Goto, TypeOK, Actors
  <2>2. Closing(x)
    BY <1>11, <2>1, Queues, FakeAssumption
    DEF Teardown, HasTurnLock, LockInv, Free, Taken, Closing, Overtaken
  <2>3. lockQ' = << >>
    BY <1>11, <2>2, Queues DEF Teardown, Closing
  <2> QED BY <1>11, <2>1, <2>2, <2>3 DEF Teardown, DeclareClosed, Closing, Free, LockInv
<1>12. CASE UNCHANGED vars
  BY <1>12, Elsewhere DEF vars, InTurn, Tearing
<1> QED
  BY <1>1, <1>2, <1>3, <1>4, <1>5, <1>6, <1>7, <1>8, <1>9, <1>10, <1>11, <1>12
  DEF Next, CallerStep, CloserStep

(* Every step of the fake maps to a step of the contract or to a stutter.  *)
LEMMA FakeContractStep == FakeInv /\ [Next]_vars => [Contract!Next]_Contract!vars
<1> SUFFICES ASSUME TypeOK, LockInv, [Next]_vars PROVE [Contract!Next]_Contract!vars
  BY DEF FakeInv
<1> USE DEF turnVars, closeVars, Contract!vars
<1>1. ASSUME NEW c \in Callers, Begin(c) PROVE Contract!Next
  BY <1>1 DEF Begin, Contract!Next, Contract!Reserve
<1>2. ASSUME NEW c \in InTurn, Leave(c), UNCHANGED <<state, registered, taskClosed>>
      PROVE  Contract!Next
  <2>1. active
    BY <1>2, Holder DEF Taken, Overtaken
  <2> QED BY <1>2, <2>1 DEF Leave, Contract!Next, Contract!Leave
<1>3. ASSUME NEW c \in Callers,
             CallTool(c) \/ PublishFails(c) \/ Executed(c) \/ ExecutedStream(c) \/ Published(c)
                \/ CancelTurn(c) \/ StreamEnds(c)
      PROVE  [Contract!Next]_Contract!vars
  <2>1. CASE Leave(c)
    <3>1. c \in InTurn \/ UNCHANGED Contract!vars
      BY <1>3, <2>1
      DEF CallTool, PublishFails, Executed, ExecutedStream, Published, CancelTurn, StreamEnds, InTurn
    <3> QED
      BY <1>2, <1>3, <2>1, <3>1
      DEF CallTool, PublishFails, Executed, ExecutedStream, Published, CancelTurn, StreamEnds
  <2>2. CASE ~Leave(c)
    BY <1>3, <2>2
    DEF CallTool, PublishFails, Executed, ExecutedStream, Published, CancelTurn, StreamEnds
  <2> QED BY <2>1, <2>2
<1>4. CASE Interrupt
  BY <1>4 DEF Interrupt
<1>5. ASSUME NEW x \in Closers, CloseCalled(x) \/ Joined(x) \/ Announced(x) \/ CloseCancelled(x)
      PROVE  UNCHANGED Contract!vars
  BY <1>5 DEF CloseCalled, Joined, Announced, CloseCancelled
<1>6. ASSUME NEW x \in Closers, CloseEnters(x) PROVE [Contract!Next]_Contract!vars
  BY <1>6 DEF CloseEnters, Joins, TypeOK, Contract!Next, Contract!BeginClose
<1>7. ASSUME NEW x \in Closers, Teardown(x) PROVE Contract!Next
  <2>1. x \in Tearing /\ x \notin Callers
    BY <1>7, FakeAssumption DEF Teardown, Tearing
  <2>2. Closing(x)
    BY <1>7, <2>1, Queues
    DEF Teardown, HasTurnLock, LockInv, Free, Taken, Closing, Overtaken
  <2> QED BY <1>7, <2>2 DEF Teardown, DeclareClosed, Closing, Contract!Next, Contract!Release
<1>8. CASE UNCHANGED vars
  BY <1>8 DEF vars
<1> QED
  BY <1>1, <1>3, <1>4, <1>5, <1>6, <1>7, <1>8 DEF Next, CallerStep, CloserStep

(* The queue of _lock is never longer than a turn and one teardown, and    *)
(* _active tells exactly whether a turn stands at its head.                *)
THEOREM FakeInvariance == Spec => []FakeInv
<1>1. Init => FakeInv
  BY FakeAssumption
  DEF Init, FakeInv, TypeOK, Actors, LockInv, Free, InTurn, Tearing
<1>2. FakeInv /\ [Next]_vars => FakeInv'
  BY TypeStep, LockStep DEF FakeInv
<1> QED BY <1>1, <1>2, PTL DEF Spec

(* The fake implements the contract of core/task.py: turns begin only      *)
(* while the task is open and exclude one another, close() waits for the   *)
(* turn, is final, unregisters and announces the task once.                *)
THEOREM FakeRefinement == Spec => ContractSpec
<1>1. Init => Contract!Init
  BY DEF Init, Contract!Init
<1> QED BY <1>1, FakeInvariance, FakeContractStep, PTL DEF Spec, ContractSpec, Contract!Spec
=============================================================================
