----------------------- MODULE RuntimeLifecycle_proof -----------------------
(***************************************************************************)
(* Proofs about RuntimeLifecycle, for any number of starts, closes, runs,  *)
(* tasks and sessions, and a host that keeps start() and close() apart     *)
(* (Orderly; runs may still close the runtime at any time).  The invariant *)
(* has five parts: types; the queue of _close_lock; the exclusion of       *)
(* start() and close(); the SDK clients; and what each step of close()     *)
(* has emptied, if no creation was in flight when it began.                *)
(***************************************************************************)
EXTENDS RuntimeLifecycle, FiniteSetTheorems, TLAPS

ActorPC == {"idle", "connecting", "announcing", "closing", "starting", "running", "open", "lost",
            "reclosing", "done"}
WorkPC == {"tasks", "runs", "sessions", "sdk", "bus"}   \* the holder of _close_lock
ClosePC == {"none", "lock", "returned", "raised"} \cup WorkPC

TypeOK ==
    /\ sdk \in Starts \cup {None} /\ sdks \subseteq Starts
    /\ started \in BOOLEAN /\ closed \in BOOLEAN /\ clean \in BOOLEAN
    /\ tasks \subseteq Tasks /\ sessions \subseteq Sessions /\ activeRuns \subseteq Runs
    /\ workspaces \subseteq Runs \cup Views
    /\ abandoned \subseteq Starts \cup Runs \cup Views /\ faults \in Nat
    /\ lockQ \in Seq(Closers)
    /\ pc \in [Actors -> ActorPC]
    /\ cl \in [Closers -> ClosePC]
    /\ todo \in [Closers -> SUBSET Actors]
    /\ stops \in Nat /\ begun \in Nat

(* A coroutine that waits for the lock is in the queue; the one that works *)
(* is its head.  Both entered close() and have not left it.                *)
QueueInv ==
    \A x \in Closers :
        /\ cl[x] = "lock" => \E i \in 1..Len(lockQ) : lockQ[i] = x
        /\ cl[x] \in WorkPC => Len(lockQ) > 0 /\ lockQ[1] = x
        /\ cl[x] \in WorkPC \cup {"lock"} => pc[x] \in {"closing", "reclosing"}
        /\ cl[x] \in {"returned", "raised"} => pc[x] \in {"closing", "reclosing", "done"}

(* One start() at a time; it connects while there is no client and nobody  *)
(* works in close(), and nothing was created before the first start.       *)
StartInv ==
    /\ \A s, u \in Starts : pc[s] \in {"connecting", "announcing"}
                            /\ pc[u] \in {"connecting", "announcing"} => s = u
    /\ \A s \in Starts : pc[s] = "connecting" =>
          sdk = None /\ \A x \in Closers : cl[x] \notin WorkPC /\ (~closed => cl[x] # "lock")
    /\ started <=> sdk # None
    /\ \A x \in Closers : cl[x] \in WorkPC => closed
    /\ ~closed /\ sdk = None =>
          /\ \A a \in Runs \cup Views : pc[a] = "idle"
          /\ tasks = {} /\ sessions = {} /\ activeRuns = {} /\ workspaces = {}

(* The open clients are the installed one, that of a start() which         *)
(* connects and those that were abandoned, which are neither; each         *)
(* installation is matched by an event.                                    *)
SdkInv ==
    /\ sdks \ abandoned \subseteq {s \in Starts : pc[s] = "connecting"} \cup {sdk}
    /\ sdk # None => sdk \in sdks \ abandoned
    /\ \A s \in Starts : pc[s] = "connecting" => s \in sdks
    /\ \A s \in Starts : pc[s] \in {"idle", "connecting"} => s \notin abandoned
    /\ \A x \in Closers : cl[x] = "sdk" => todo[x] = IF sdk = None THEN {} ELSE {sdk}
    /\ \A x \in Closers : cl[x] = "bus" => sdk = None
    /\ begun = stops + (IF started THEN 1 ELSE 0)

(* What a step of close() loops over.                                      *)
TodoInv ==
    \A x \in Closers :
        /\ cl[x] = "tasks" => todo[x] \subseteq Tasks
        /\ cl[x] = "runs" => todo[x] \subseteq Runs
        /\ cl[x] = "sessions" => todo[x] \subseteq Sessions

(* Each step of close() leaves its registry empty, provided that nothing   *)
(* was being created: every workspace then belongs to what is registered,  *)
(* to a creation, or to a run.                                             *)
CleanInv ==
    clean =>
        /\ closed => \A a \in Runs \cup Views : pc[a] # "starting"
        /\ \A w \in workspaces \ abandoned :
              \/ w \in Runs /\ pc[w] \in {"starting", "running", "closing", "reclosing"}
              \/ w \in Views /\ (pc[w] = "starting" \/ w \in tasks \cup sessions)
        /\ \A x \in Closers :
              /\ cl[x] = "tasks" => tasks \subseteq todo[x]
              /\ cl[x] \in {"runs", "sessions", "sdk", "bus"} => tasks = {}
              /\ cl[x] \in {"sessions", "sdk", "bus"} => activeRuns = {}
              /\ cl[x] = "sessions" => workspaces \cap Sessions \subseteq todo[x] \cup abandoned
              /\ cl[x] \in {"sdk", "bus"} =>
                    sessions = {} /\ workspaces \cap Sessions \subseteq abandoned
        /\ sdk = None =>
              /\ tasks = {} /\ sessions = {} /\ activeRuns = {}
              /\ \A w \in workspaces \ abandoned :
                    w \in Runs /\ pc[w] \in {"running", "closing", "reclosing"}

RuntimeInv == TypeOK /\ QueueInv /\ StartInv /\ SdkInv /\ TodoInv /\ CleanInv

-----------------------------------------------------------------------------
(* The initial states satisfy the invariant.                               *)
LEMMA InitRuntime == Init => RuntimeInv
<1> SUFFICES ASSUME Init PROVE RuntimeInv
  OBVIOUS
<1> USE RuntimeAssumption, CoroutinesAssumption DEF Init, Actors, Closers, Views
<1>1. TypeOK
  <2>1. started \in BOOLEAN /\ closed \in BOOLEAN /\ clean \in BOOLEAN
    OBVIOUS
  <2>2. lockQ \in Seq(Closers)
    OBVIOUS
  <2>3. pc \in [Actors -> ActorPC] /\ cl \in [Closers -> ClosePC] /\ todo \in [Closers -> SUBSET Actors]
    BY DEF ActorPC, ClosePC
  <2> QED BY <2>1, <2>2, <2>3 DEF TypeOK
<1>2. QueueInv /\ TodoInv
  BY DEF QueueInv, TodoInv, WorkPC
<1>3. StartInv
  BY DEF StartInv, WorkPC
<1>4. SdkInv
  BY DEF SdkInv
<1>5. CleanInv
  BY DEF CleanInv
<1> QED BY <1>1, <1>2, <1>3, <1>4, <1>5 DEF RuntimeInv

(* A function on an initial segment of the numbers is a sequence.          *)
LEMMA SeqDef ==
    ASSUME NEW S, NEW m \in Nat, NEW s, s = [j \in 1..m |-> s[j]], \A j \in 1..m : s[j] \in S
    PROVE  s \in Seq(S) /\ Len(s) = m
  OBVIOUS

(* A coroutine joins the queue at its end ...                              *)
LEMMA QueueEnter ==
    ASSUME lockQ \in Seq(Closers), NEW x \in Closers, NEW l, EnterClose(x, l)
    PROVE  /\ lockQ' \in Seq(Closers) /\ Len(lockQ) \in Nat /\ Len(lockQ') = Len(lockQ) + 1
           /\ lockQ'[Len(lockQ) + 1] = x
           /\ \A i \in 1..Len(lockQ) : lockQ'[i] = lockQ[i]
  BY DEF EnterClose

(* ... and the head leaves it.                                             *)
LEMMA QueueLeave ==
    ASSUME lockQ \in Seq(Closers), Len(lockQ) > 0
    PROVE  /\ Tail(lockQ) \in Seq(Closers) /\ Len(lockQ) \in Nat /\ Head(lockQ) = lockQ[1]
           /\ Len(Tail(lockQ)) = Len(lockQ) - 1
           /\ \A i \in 1..(Len(lockQ) - 1) : Tail(lockQ)[i] = lockQ[i + 1]
  OBVIOUS

(* The holder of the lock is in the queue: the queue is not empty.         *)
LEMMA HeadOfQueue ==
    ASSUME TypeOK, QueueInv, NEW x \in Closers,
           cl[x] \in WorkPC \/ (cl[x] = "lock" /\ Head(lockQ) = x)
    PROVE  Len(lockQ) > 0 /\ lockQ[1] = x /\ lockQ # << >>
<1>1. CASE cl[x] \in WorkPC
  BY <1>1 DEF QueueInv, TypeOK
<1>2. CASE cl[x] = "lock" /\ Head(lockQ) = x
  <2>1. Len(lockQ) > 0
    BY <1>2 DEF QueueInv, TypeOK
  <2> QED BY <1>2, <2>1, QueueLeave DEF TypeOK
<1> QED BY <1>1, <1>2

(* Leaving close() keeps the order of those that wait.                     *)
LEMMA LeaveQueue ==
    ASSUME TypeOK, QueueInv, NEW x \in Closers, LeaveClose(x) \/ RaiseFromClose(x), UNCHANGED pc,
           cl[x] \in WorkPC \/ (cl[x] = "lock" /\ Head(lockQ) = x)
    PROVE  QueueInv' /\ lockQ' \in Seq(Closers)
<1>1. Len(lockQ) > 0 /\ lockQ[1] = x /\ lockQ' = Tail(lockQ) /\ Len(lockQ) \in Nat
  BY HeadOfQueue, QueueLeave DEF LeaveClose, RaiseFromClose, TypeOK
<1>2. /\ lockQ' \in Seq(Closers) /\ Len(lockQ') = Len(lockQ) - 1
      /\ \A i \in 1..(Len(lockQ) - 1) : lockQ'[i] = lockQ[i + 1]
  BY <1>1, QueueLeave DEF TypeOK
<1>3. /\ cl' = [cl EXCEPT ![x] = cl'[x]] /\ cl'[x] \in {"returned", "raised"}
      /\ pc[x] \in {"closing", "reclosing"}
  BY DEF LeaveClose, RaiseFromClose, Raised, To, QueueInv, TypeOK
<1>4. ASSUME NEW y \in Closers, cl'[y] = "lock"
      PROVE  \E i \in 1..Len(lockQ') : lockQ'[i] = y
  <2>1. y # x /\ cl[y] = "lock"
    BY <1>3, <1>4 DEF TypeOK
  <2>2. PICK i \in 1..Len(lockQ) : lockQ[i] = y
    BY <2>1 DEF QueueInv
  <2>3. i - 1 \in 1..Len(lockQ') /\ lockQ'[i - 1] = y
    BY <1>1, <1>2, <2>1, <2>2
  <2> QED BY <2>3
<1>5. \A y \in Closers : cl[y] \in WorkPC => y = x
  BY <1>1 DEF QueueInv, WorkPC
<1> QED BY <1>2, <1>3, <1>4, <1>5 DEF QueueInv, TypeOK, WorkPC

(* A cancelled coroutine leaves the queue wherever it stands.              *)
LEMMA QueueCancel ==
    ASSUME TypeOK, QueueInv, NEW x \in Closers, CancelClose(x)
    PROVE  QueueInv' /\ lockQ' \in Seq(Closers)
<1> DEFINE n == Len(lockQ)
<1>1. PICK i \in 1..n :
          /\ lockQ[i] = x
          /\ lockQ' = [j \in 1..(n - 1) |-> IF j < i THEN lockQ[j] ELSE lockQ[j + 1]]
  BY DEF CancelClose
<1>2. n \in Nat /\ \A j \in 1..n : lockQ[j] \in Closers
  BY DEF TypeOK
<1>3. lockQ' \in Seq(Closers) /\ Len(lockQ') = n - 1
  <2>1. n - 1 \in Nat
    BY <1>1, <1>2
  <2>2. \A j \in 1..(n - 1) : (IF j < i THEN lockQ[j] ELSE lockQ[j + 1]) \in Closers
    BY <1>1, <1>2
  <2>3. lockQ' = [j \in 1..(n - 1) |-> lockQ'[j]] /\ \A j \in 1..(n - 1) : lockQ'[j] \in Closers
    BY <1>1, <2>2
  <2> QED BY <2>1, <2>3, SeqDef
<1>4. /\ cl' = [cl EXCEPT ![x] = cl'[x]] /\ cl'[x] \in {"returned", "raised"}
      /\ pc[x] \in {"closing", "reclosing"} /\ UNCHANGED pc
  BY DEF CancelClose, InClose, Raised, To, QueueInv, TypeOK, WorkPC
<1>5. ASSUME NEW y \in Closers, cl'[y] = "lock"
      PROVE  \E j \in 1..Len(lockQ') : lockQ'[j] = y
  <2>1. y # x /\ cl[y] = "lock"
    BY <1>4, <1>5 DEF TypeOK
  <2>2. PICK k \in 1..n : lockQ[k] = y
    BY <2>1 DEF QueueInv
  <2>3. CASE k < i
    <3>1. k \in 1..(n - 1)
      BY <1>1, <1>2, <2>2, <2>3
    <3> QED BY <1>1, <1>3, <2>2, <2>3, <3>1
  <2>4. CASE k > i
    <3>1. k - 1 \in 1..(n - 1) /\ ~(k - 1 < i) /\ (k - 1) + 1 = k
      BY <1>1, <1>2, <2>2, <2>4
    <3> QED BY <1>1, <1>3, <2>2, <3>1
  <2>5. k # i /\ k \in Nat /\ i \in Nat
    BY <1>1, <1>2, <2>1, <2>2
  <2> QED BY <2>3, <2>4, <2>5
<1>6. ASSUME NEW y \in Closers, cl'[y] \in WorkPC
      PROVE  Len(lockQ') > 0 /\ lockQ'[1] = y
  <2>1. y # x /\ cl[y] \in WorkPC
    BY <1>4, <1>6 DEF TypeOK, WorkPC
  <2>2. n > 0 /\ lockQ[1] = y
    BY <2>1 DEF QueueInv
  <2>3. i > 1 /\ 1 \in 1..(n - 1)
    BY <1>1, <1>2, <2>1, <2>2
  <2> QED BY <1>1, <1>3, <2>2, <2>3
<1>7. ASSUME NEW y \in Closers
      PROVE  /\ cl'[y] \in WorkPC \cup {"lock"} => pc'[y] \in {"closing", "reclosing"}
             /\ cl'[y] \in {"returned", "raised"} => pc'[y] \in {"closing", "reclosing", "done"}
  BY <1>4 DEF QueueInv, TypeOK, WorkPC
<1> QED BY <1>3, <1>5, <1>6, <1>7 DEF QueueInv

(* Every step preserves the types.                                         *)
LEMMA TypeStep ==
    ASSUME TypeOK, QueueInv, TodoInv, SdkInv, [Next]_vars
    PROVE  TypeOK'
<1> USE RuntimeAssumption, CoroutinesAssumption DEF vars, sdkVars, regVars, obsVars, histVars, Actors,
    Closers, Views, Goto, TypeOK, ActorPC, ClosePC, WorkPC
<1>1. ASSUME NEW s \in Starts, StartBegin(s) PROVE TypeOK'
  BY <1>1 DEF StartBegin
<1>2. ASSUME NEW s \in Starts, StartFails(s) PROVE TypeOK'
  BY <1>2 DEF StartFails
<1>3. ASSUME NEW s \in Starts, StartInstalls(s) PROVE TypeOK'
  <2>1. started' \in BOOLEAN /\ closed' \in BOOLEAN
    BY <1>3 DEF StartInstalls
  <2> QED BY <1>3, <2>1 DEF StartInstalls
<1>4. ASSUME NEW s \in Starts, StartReturns(s) PROVE TypeOK'
  BY <1>4 DEF StartReturns
<1>5. ASSUME NEW s \in Starts, StartRefused(s) PROVE TypeOK'
  <2>1. lockQ' \in Seq(Closers)
    BY <1>5, QueueEnter DEF StartRefused
  <2> QED BY <1>5, <2>1 DEF StartRefused, EnterClose
<1>6. ASSUME NEW x \in Closers, HostCloses(x) PROVE TypeOK'
  <2>1. lockQ' \in Seq(Closers)
    BY <1>6, QueueEnter DEF HostCloses
  <2> QED BY <1>6, <2>1 DEF HostCloses, EnterClose
<1>7. ASSUME NEW x \in Closers, HasLock(x) PROVE TypeOK'
  <2>1. CASE closed /\ sdk = None
    <3>1. lockQ' \in Seq(Closers)
      BY <1>7, <2>1, LeaveQueue DEF HasLock, At
    <3> QED BY <1>7, <2>1, <3>1 DEF HasLock, LeaveClose, At, To
  <2>2. CASE ~(closed /\ sdk = None)
    <3>1. clean' \in BOOLEAN /\ closed' \in BOOLEAN
      BY <1>7, <2>2 DEF HasLock
    <3> QED BY <1>7, <2>2, <3>1 DEF HasLock, At, To
  <2> QED BY <2>1, <2>2
<1>8. ASSUME NEW x \in Closers, CloseTask(x) PROVE TypeOK'
  <2>1. PICK t \in todo[x] : /\ tasks' = tasks \ {t}
                             /\ workspaces' = workspaces \ ({t} \ abandoned)
                             /\ todo' = [todo EXCEPT ![x] = @ \ {t}] /\ Goto(t, "done")
    BY <1>8 DEF CloseTask
  <2> QED BY <1>8, <2>1 DEF CloseTask, At
<1>9. ASSUME NEW x \in Closers, TasksClosed(x) PROVE TypeOK'
  BY <1>9 DEF TasksClosed, At, To
<1>10. ASSUME NEW x \in Closers, CloseRun(x) PROVE TypeOK'
  BY <1>10 DEF CloseRun, At
<1>11. ASSUME NEW x \in Closers, RunsClosed(x) PROVE TypeOK'
  BY <1>11 DEF RunsClosed, At, To
<1>12. ASSUME NEW x \in Closers, CloseSession(x) PROVE TypeOK'
  BY <1>12 DEF CloseSession, At, Fault, TodoInv
<1>13. ASSUME NEW x \in Closers, SessionsClosed(x) PROVE TypeOK'
  BY <1>13 DEF SessionsClosed, At, To, SessionsAfterClose
<1>14. ASSUME NEW x \in Closers, SdkClosed(x) PROVE TypeOK'
  <2>1. started' \in BOOLEAN /\ StopEvents \in Nat
    BY <1>14 DEF SdkClosed, StopEvents
  <2> QED BY <1>14, <2>1 DEF SdkClosed, At, To
<1>15. ASSUME NEW x \in Closers, SdkCloseFails(x) PROVE TypeOK'
  <2>1. lockQ' \in Seq(Closers)
    BY <1>15, LeaveQueue DEF SdkCloseFails, At
  <2> QED BY <1>15, <2>1 DEF SdkCloseFails, LeaveClose, RaiseFromClose, Raised, At, To
<1>16. ASSUME NEW x \in Closers, BusCloses(x) PROVE TypeOK'
  <2>1. lockQ' \in Seq(Closers)
    BY <1>16, LeaveQueue DEF BusCloses, At
  <2> QED BY <1>16, <2>1 DEF BusCloses, LeaveClose, RaiseFromClose, Raised, At, To
<1>17. ASSUME NEW a \in Runs \cup Views, Create(a) PROVE TypeOK'
  BY <1>17 DEF Create, RequireStarted
<1>18. ASSUME NEW a \in Runs \cup Views, CreateFails(a) PROVE TypeOK'
  BY <1>18 DEF CreateFails
<1>19. ASSUME NEW r \in Runs, RunRegisters(r) PROVE TypeOK'
  BY <1>19 DEF RunRegisters
<1>20. ASSUME NEW r \in Runs, RunEnds(r) PROVE TypeOK'
  BY <1>20 DEF RunEnds, At, To
<1>21. ASSUME NEW r \in Runs, RunInvalidates(r) PROVE TypeOK'
  <2>1. lockQ' \in Seq(Closers)
    BY <1>21, QueueEnter DEF RunInvalidates
  <2> QED BY <1>21, <2>1 DEF RunInvalidates, EnterClose
<1>22. ASSUME NEW v \in Views, ViewRegisters(v) PROVE TypeOK'
  BY <1>22 DEF ViewRegisters
<1>23. ASSUME NEW v \in Views, ViewReturned(v) PROVE TypeOK'
  BY <1>23 DEF ViewReturned
<1>24. ASSUME NEW v \in Views, ViewRefused(v) PROVE TypeOK'
  BY <1>24 DEF ViewRefused
<1>25. ASSUME NEW v \in Views, ViewCloses(v) PROVE TypeOK'
  BY <1>25 DEF ViewCloses
<1>26. CASE UNCHANGED vars
  BY <1>26
<1>27. ASSUME NEW s \in Starts, StartAbandons(s) PROVE TypeOK'
  BY <1>27 DEF StartAbandons, Fault
<1>28. ASSUME NEW x \in Closers, CancelClose(x) PROVE TypeOK'
  <2>1. lockQ' \in Seq(Closers)
    BY <1>28, QueueCancel
  <2>2. abandoned' \subseteq abandoned \cup Tasks
    BY <1>28 DEF CancelClose, At, TodoInv
  <2> QED BY <1>28, <2>1, <2>2 DEF CancelClose, To, Raised, Fault
<1>29. ASSUME NEW a \in Runs \cup Views, CreateCancelled(a) PROVE TypeOK'
  BY <1>29 DEF CreateCancelled, Fault
<1>30. ASSUME NEW r \in Runs, RunAbandons(r) PROVE TypeOK'
  BY <1>30 DEF RunAbandons, At, To
<1> QED BY <1>1, <1>2, <1>3, <1>4, <1>5, <1>6, <1>7, <1>8, <1>9, <1>10, <1>11, <1>12, <1>13,
    <1>14, <1>15, <1>16, <1>17, <1>18, <1>19, <1>20, <1>21, <1>22, <1>23, <1>24, <1>25,
    <1>26, <1>27, <1>28, <1>29, <1>30
    DEF Next, CloseStep

(* Every step keeps the order of the queue.                                *)
LEMMA QueueStep ==
    ASSUME TypeOK, QueueInv, TodoInv, [Next]_vars
    PROVE  QueueInv'
<1> USE RuntimeAssumption, CoroutinesAssumption DEF vars, sdkVars, regVars, obsVars, histVars, Actors,
    Closers, Views, Goto, TypeOK, QueueInv, ActorPC, ClosePC, WorkPC
<1>1. ASSUME NEW s \in Starts, StartBegin(s) PROVE QueueInv'
  BY <1>1 DEF StartBegin
<1>2. ASSUME NEW s \in Starts, StartFails(s) PROVE QueueInv'
  BY <1>2 DEF StartFails
<1>3. ASSUME NEW s \in Starts, StartInstalls(s) PROVE QueueInv'
  BY <1>3 DEF StartInstalls
<1>4. ASSUME NEW s \in Starts, StartReturns(s) PROVE QueueInv'
  BY <1>4 DEF StartReturns
<1>5. ASSUME NEW s \in Starts, StartRefused(s) PROVE QueueInv'
  BY <1>5, QueueEnter DEF StartRefused, EnterClose
<1>6. ASSUME NEW x \in Closers, HostCloses(x) PROVE QueueInv'
  BY <1>6, QueueEnter DEF HostCloses, EnterClose
<1>7. ASSUME NEW x \in Closers, HasLock(x) PROVE QueueInv'
  <2>1. CASE closed /\ sdk = None
    BY <1>7, <2>1, LeaveQueue DEF HasLock, At
  <2>2. CASE ~(closed /\ sdk = None)
    BY <1>7, <2>2, HeadOfQueue DEF HasLock, At, To
  <2> QED BY <2>1, <2>2
<1>8. ASSUME NEW x \in Closers, CloseTask(x) PROVE QueueInv'
  <2>1. PICK t \in Tasks : Goto(t, "done")
    BY <1>8 DEF CloseTask, At, TodoInv
  <2> QED BY <1>8, <2>1 DEF CloseTask, At
<1>9. ASSUME NEW x \in Closers, TasksClosed(x) PROVE QueueInv'
  BY <1>9 DEF TasksClosed, At, To
<1>10. ASSUME NEW x \in Closers, CloseRun(x) PROVE QueueInv'
  BY <1>10 DEF CloseRun, At
<1>11. ASSUME NEW x \in Closers, RunsClosed(x) PROVE QueueInv'
  BY <1>11 DEF RunsClosed, At, To
<1>12. ASSUME NEW x \in Closers, CloseSession(x) PROVE QueueInv'
  BY <1>12 DEF CloseSession, At, Fault
<1>13. ASSUME NEW x \in Closers, SessionsClosed(x) PROVE QueueInv'
  BY <1>13 DEF SessionsClosed, At, To, SessionsAfterClose
<1>14. ASSUME NEW x \in Closers, SdkClosed(x) PROVE QueueInv'
  BY <1>14 DEF SdkClosed, At, To, StopEvents
<1>15. ASSUME NEW x \in Closers, SdkCloseFails(x) PROVE QueueInv'
  BY <1>15, LeaveQueue DEF SdkCloseFails, At
<1>16. ASSUME NEW x \in Closers, BusCloses(x) PROVE QueueInv'
  BY <1>16, LeaveQueue DEF BusCloses, At
<1>17. ASSUME NEW a \in Runs \cup Views, Create(a) PROVE QueueInv'
  BY <1>17 DEF Create, RequireStarted
<1>18. ASSUME NEW a \in Runs \cup Views, CreateFails(a) PROVE QueueInv'
  BY <1>18 DEF CreateFails
<1>19. ASSUME NEW r \in Runs, RunRegisters(r) PROVE QueueInv'
  BY <1>19 DEF RunRegisters
<1>20. ASSUME NEW r \in Runs, RunEnds(r) PROVE QueueInv'
  BY <1>20 DEF RunEnds, At, To
<1>21. ASSUME NEW r \in Runs, RunInvalidates(r) PROVE QueueInv'
  <2>1. PICK l \in {"closing", "reclosing"} : EnterClose(r, l) /\ cl[r] \notin WorkPC
    BY <1>21 DEF RunInvalidates
  <2> QED BY <2>1, QueueEnter DEF EnterClose
<1>22. ASSUME NEW v \in Views, ViewRegisters(v) PROVE QueueInv'
  BY <1>22 DEF ViewRegisters
<1>23. ASSUME NEW v \in Views, ViewReturned(v) PROVE QueueInv'
  BY <1>23 DEF ViewReturned
<1>24. ASSUME NEW v \in Views, ViewRefused(v) PROVE QueueInv'
  BY <1>24 DEF ViewRefused
<1>25. ASSUME NEW v \in Views, ViewCloses(v) PROVE QueueInv'
  BY <1>25 DEF ViewCloses
<1>26. CASE UNCHANGED vars
  BY <1>26
<1>27. ASSUME NEW s \in Starts, StartAbandons(s) PROVE QueueInv'
  BY <1>27 DEF StartAbandons, Fault
<1>28. ASSUME NEW x \in Closers, CancelClose(x) PROVE QueueInv'
  BY <1>28, QueueCancel
<1>29. ASSUME NEW a \in Runs \cup Views, CreateCancelled(a) PROVE QueueInv'
  BY <1>29 DEF CreateCancelled, Fault
<1>30. ASSUME NEW r \in Runs, RunAbandons(r) PROVE QueueInv'
  BY <1>30 DEF RunAbandons, At, To
<1> QED BY <1>1, <1>2, <1>3, <1>4, <1>5, <1>6, <1>7, <1>8, <1>9, <1>10, <1>11, <1>12, <1>13,
    <1>14, <1>15, <1>16, <1>17, <1>18, <1>19, <1>20, <1>21, <1>22, <1>23, <1>24, <1>25,
    <1>26, <1>27, <1>28, <1>29, <1>30
    DEF Next, CloseStep

(* Every step keeps start() and close() apart.                             *)
LEMMA StartStep ==
    ASSUME TypeOK, QueueInv, StartInv, TodoInv, Orderly, [Next]_vars
    PROVE  StartInv'
<1> USE RuntimeAssumption, CoroutinesAssumption DEF vars, sdkVars, regVars, obsVars, histVars, Actors,
    Closers, Views, Goto, TypeOK, QueueInv, StartInv, WorkPC, Starting
<1>1. ASSUME NEW s \in Starts, StartBegin(s) PROVE StartInv'
  BY <1>1 DEF StartBegin
<1>2. ASSUME NEW s \in Starts, StartFails(s) PROVE StartInv'
  BY <1>2 DEF StartFails
<1>3. ASSUME NEW s \in Starts, StartInstalls(s) PROVE StartInv'
  BY <1>3 DEF StartInstalls
<1>4. ASSUME NEW s \in Starts, StartReturns(s) PROVE StartInv'
  BY <1>4 DEF StartReturns
<1>5. ASSUME NEW s \in Starts, StartRefused(s) PROVE StartInv'
  BY <1>5 DEF StartRefused, EnterClose
<1>6. ASSUME NEW x \in Closers, HostCloses(x) PROVE StartInv'
  BY <1>6 DEF HostCloses, EnterClose
<1>7. ASSUME NEW x \in Closers, HasLock(x) PROVE StartInv'
  BY <1>7 DEF HasLock, LeaveClose, At, To
<1>8. ASSUME NEW x \in Closers, CloseTask(x) PROVE StartInv'
  <2>1. PICK t \in Tasks : Goto(t, "done")
    BY <1>8 DEF CloseTask, At, TodoInv
  <2> QED BY <1>8, <2>1 DEF CloseTask, At
<1>9. ASSUME NEW x \in Closers, TasksClosed(x) PROVE StartInv'
  BY <1>9 DEF TasksClosed, At, To
<1>10. ASSUME NEW x \in Closers, CloseRun(x) PROVE StartInv'
  BY <1>10 DEF CloseRun, At
<1>11. ASSUME NEW x \in Closers, RunsClosed(x) PROVE StartInv'
  BY <1>11 DEF RunsClosed, At, To
<1>12. ASSUME NEW x \in Closers, CloseSession(x) PROVE StartInv'
  BY <1>12 DEF CloseSession, At, Fault
<1>13. ASSUME NEW x \in Closers, SessionsClosed(x) PROVE StartInv'
  BY <1>13 DEF SessionsClosed, At, To, SessionsAfterClose
<1>14. ASSUME NEW x \in Closers, SdkClosed(x) PROVE StartInv'
  BY <1>14 DEF SdkClosed, At, To, StopEvents
<1>15. ASSUME NEW x \in Closers, SdkCloseFails(x) PROVE StartInv'
  BY <1>15 DEF SdkCloseFails, LeaveClose, RaiseFromClose, Raised, At, To
<1>16. ASSUME NEW x \in Closers, BusCloses(x) PROVE StartInv'
  BY <1>16 DEF BusCloses, LeaveClose, RaiseFromClose, Raised, At, To
<1>17. ASSUME NEW a \in Runs \cup Views, Create(a) PROVE StartInv'
  BY <1>17 DEF Create, RequireStarted
<1>18. ASSUME NEW a \in Runs \cup Views, CreateFails(a) PROVE StartInv'
  BY <1>18 DEF CreateFails
<1>19. ASSUME NEW r \in Runs, RunRegisters(r) PROVE StartInv'
  BY <1>19 DEF RunRegisters
<1>20. ASSUME NEW r \in Runs, RunEnds(r) PROVE StartInv'
  BY <1>20 DEF RunEnds, At, To
<1>21. ASSUME NEW r \in Runs, RunInvalidates(r) PROVE StartInv'
  BY <1>21 DEF RunInvalidates, EnterClose
<1>22. ASSUME NEW v \in Views, ViewRegisters(v) PROVE StartInv'
  BY <1>22 DEF ViewRegisters
<1>23. ASSUME NEW v \in Views, ViewReturned(v) PROVE StartInv'
  BY <1>23 DEF ViewReturned
<1>24. ASSUME NEW v \in Views, ViewRefused(v) PROVE StartInv'
  BY <1>24 DEF ViewRefused
<1>25. ASSUME NEW v \in Views, ViewCloses(v) PROVE StartInv'
  BY <1>25 DEF ViewCloses
<1>26. CASE UNCHANGED vars
  BY <1>26
<1>27. ASSUME NEW s \in Starts, StartAbandons(s) PROVE StartInv'
  BY <1>27 DEF StartAbandons, Fault
<1>28. ASSUME NEW x \in Closers, CancelClose(x) PROVE StartInv'
  BY <1>28 DEF CancelClose, InClose, At, To, Raised, Fault
<1>29. ASSUME NEW a \in Runs \cup Views, CreateCancelled(a) PROVE StartInv'
  BY <1>29 DEF CreateCancelled, Fault
<1>30. ASSUME NEW r \in Runs, RunAbandons(r) PROVE StartInv'
  BY <1>30 DEF RunAbandons, At, To
<1> QED BY <1>1, <1>2, <1>3, <1>4, <1>5, <1>6, <1>7, <1>8, <1>9, <1>10, <1>11, <1>12, <1>13,
    <1>14, <1>15, <1>16, <1>17, <1>18, <1>19, <1>20, <1>21, <1>22, <1>23, <1>24, <1>25,
    <1>26, <1>27, <1>28, <1>29, <1>30
    DEF Next, CloseStep

(* Every step accounts for the clients and the events.                     *)
LEMMA SdkStep ==
    ASSUME TypeOK, QueueInv, StartInv, SdkInv, TodoInv, [Next]_vars
    PROVE  SdkInv'
<1> USE RuntimeAssumption, CoroutinesAssumption DEF vars, sdkVars, regVars, obsVars, histVars, Actors,
    Closers, Views, Goto, TypeOK, QueueInv, StartInv, SdkInv, WorkPC
<1>1. ASSUME NEW s \in Starts, StartBegin(s) PROVE SdkInv'
  <2>1. CASE started /\ ~closed
    BY <1>1, <2>1 DEF StartBegin
  <2>2. CASE ~(started /\ ~closed)
    <3>1. pc' = [pc EXCEPT ![s] = "connecting"] /\ sdks' = sdks \cup {s}
      BY <1>1, <2>2 DEF StartBegin
    <3>2. {u \in Starts : pc[u] = "connecting"} \cup {s} \subseteq {u \in Starts : pc'[u] = "connecting"}
      BY <3>1
    <3>3. s \notin abandoned /\ UNCHANGED <<sdk, started, cl, todo, stops, begun, abandoned>>
      BY <1>1 DEF StartBegin
    <3>4. \A u \in Starts : pc'[u] = "connecting" <=> u = s \/ pc[u] = "connecting"
      BY <3>1
    <3>5. sdks' \ abandoned' \subseteq {u \in Starts : pc'[u] = "connecting"} \cup {sdk'}
      BY <3>1, <3>2, <3>3
    <3>6. \A u \in Starts : pc'[u] \in {"idle", "connecting"} => u \notin abandoned'
      BY <3>1, <3>3
    <3> QED BY <3>1, <3>3, <3>4, <3>5, <3>6
  <2> QED BY <2>1, <2>2
<1>2. ASSUME NEW s \in Starts, StartFails(s) PROVE SdkInv'
  BY <1>2 DEF StartFails
<1>3. ASSUME NEW s \in Starts, StartInstalls(s) PROVE SdkInv'
  BY <1>3 DEF StartInstalls
<1>4. ASSUME NEW s \in Starts, StartReturns(s) PROVE SdkInv'
  BY <1>4 DEF StartReturns
<1>5. ASSUME NEW s \in Starts, StartRefused(s) PROVE SdkInv'
  BY <1>5 DEF StartRefused, EnterClose
<1>6. ASSUME NEW x \in Closers, HostCloses(x) PROVE SdkInv'
  BY <1>6 DEF HostCloses, EnterClose
<1>7. ASSUME NEW x \in Closers, HasLock(x) PROVE SdkInv'
  BY <1>7 DEF HasLock, LeaveClose, At, To
<1>8. ASSUME NEW x \in Closers, CloseTask(x) PROVE SdkInv'
  <2>1. PICK t \in Tasks : Goto(t, "done")
    BY <1>8 DEF CloseTask, At, TodoInv
  <2> QED BY <1>8, <2>1 DEF CloseTask, At
<1>9. ASSUME NEW x \in Closers, TasksClosed(x) PROVE SdkInv'
  BY <1>9 DEF TasksClosed, At, To
<1>10. ASSUME NEW x \in Closers, CloseRun(x) PROVE SdkInv'
  BY <1>10 DEF CloseRun, At
<1>11. ASSUME NEW x \in Closers, RunsClosed(x) PROVE SdkInv'
  BY <1>11 DEF RunsClosed, At, To
<1>12. ASSUME NEW x \in Closers, CloseSession(x) PROVE SdkInv'
  <2>1. PICK v \in Sessions : abandoned' \subseteq abandoned \cup {v} /\ abandoned \subseteq abandoned'
    BY <1>12 DEF CloseSession, At, TodoInv
  <2>2. \A s \in Starts : s \in abandoned' <=> s \in abandoned
    BY <2>1
  <2> QED BY <1>12, <2>2 DEF CloseSession, At
<1>13. ASSUME NEW x \in Closers, SessionsClosed(x) PROVE SdkInv'
  BY <1>13 DEF SessionsClosed, At, To, SessionsAfterClose
<1>14. ASSUME NEW x \in Closers, SdkClosed(x) PROVE SdkInv'
  BY <1>14 DEF SdkClosed, At, To, StopEvents
<1>15. ASSUME NEW x \in Closers, SdkCloseFails(x) PROVE SdkInv'
  BY <1>15 DEF SdkCloseFails, LeaveClose, RaiseFromClose, Raised, At, To
<1>16. ASSUME NEW x \in Closers, BusCloses(x) PROVE SdkInv'
  BY <1>16 DEF BusCloses, LeaveClose, RaiseFromClose, Raised, At, To
<1>17. ASSUME NEW a \in Runs \cup Views, Create(a) PROVE SdkInv'
  BY <1>17 DEF Create, RequireStarted
<1>18. ASSUME NEW a \in Runs \cup Views, CreateFails(a) PROVE SdkInv'
  BY <1>18 DEF CreateFails
<1>19. ASSUME NEW r \in Runs, RunRegisters(r) PROVE SdkInv'
  BY <1>19 DEF RunRegisters
<1>20. ASSUME NEW r \in Runs, RunEnds(r) PROVE SdkInv'
  BY <1>20 DEF RunEnds, At, To
<1>21. ASSUME NEW r \in Runs, RunInvalidates(r) PROVE SdkInv'
  <2>1. PICK l \in {"closing", "reclosing"} : EnterClose(r, l)
    BY <1>21 DEF RunInvalidates
  <2>2. \A s \in Starts : pc'[s] = pc[s]
    BY <2>1 DEF EnterClose
  <2>3. \A x \in Closers : cl'[x] \in {"sdk", "bus"} => cl[x] = cl'[x]
    BY <2>1 DEF EnterClose
  <2> QED BY <2>1, <2>2, <2>3 DEF EnterClose
<1>22. ASSUME NEW v \in Views, ViewRegisters(v) PROVE SdkInv'
  BY <1>22 DEF ViewRegisters
<1>23. ASSUME NEW v \in Views, ViewReturned(v) PROVE SdkInv'
  BY <1>23 DEF ViewReturned
<1>24. ASSUME NEW v \in Views, ViewRefused(v) PROVE SdkInv'
  BY <1>24 DEF ViewRefused
<1>25. ASSUME NEW v \in Views, ViewCloses(v) PROVE SdkInv'
  BY <1>25 DEF ViewCloses
<1>26. CASE UNCHANGED vars
  BY <1>26
<1>27. ASSUME NEW s \in Starts, StartAbandons(s) PROVE SdkInv'
  <2>1. pc' = [pc EXCEPT ![s] = "done"] /\ abandoned' = abandoned \cup {s} /\ sdk = None
    BY <1>27 DEF StartAbandons
  <2>2. \A u \in Starts : pc'[u] = "connecting" <=> pc[u] = "connecting" /\ u # s
    BY <2>1, <1>27 DEF StartAbandons
  <2>3. sdks \ abandoned' \subseteq {u \in Starts : pc'[u] = "connecting"}
    BY <2>1, <2>2
  <2> QED BY <1>27, <2>1, <2>2, <2>3 DEF StartAbandons
<1>28. ASSUME NEW x \in Closers, CancelClose(x) PROVE SdkInv'
  <2>1. abandoned \subseteq abandoned' /\ abandoned' \subseteq abandoned \cup Tasks
    BY <1>28 DEF CancelClose, At, TodoInv
  <2>2. \A s \in Starts : s \in abandoned' <=> s \in abandoned
    BY <2>1
  <2> QED BY <1>28, <2>2 DEF CancelClose, To, Raised
<1>29. ASSUME NEW a \in Runs \cup Views, CreateCancelled(a) PROVE SdkInv'
  <2>1. \A s \in Starts : s \in abandoned' <=> s \in abandoned
    BY <1>29 DEF CreateCancelled
  <2> QED BY <1>29, <2>1 DEF CreateCancelled
<1>30. ASSUME NEW r \in Runs, RunAbandons(r) PROVE SdkInv'
  <2>1. \A s \in Starts : pc'[s] = pc[s] /\ (s \in abandoned' <=> s \in abandoned)
    BY <1>30 DEF RunAbandons
  <2>2. \A x \in Closers : cl'[x] \in {"sdk", "bus"} => cl[x] = cl'[x]
    BY <1>30 DEF RunAbandons, To
  <2> QED BY <1>30, <2>1, <2>2 DEF RunAbandons
<1> QED BY <1>1, <1>2, <1>3, <1>4, <1>5, <1>6, <1>7, <1>8, <1>9, <1>10, <1>11, <1>12, <1>13,
    <1>14, <1>15, <1>16, <1>17, <1>18, <1>19, <1>20, <1>21, <1>22, <1>23, <1>24, <1>25,
    <1>26, <1>27, <1>28, <1>29, <1>30
    DEF Next, CloseStep

(* Every step keeps the work lists within their registries.               *)
LEMMA TodoStep ==
    ASSUME TypeOK, QueueInv, TodoInv, [Next]_vars
    PROVE  TodoInv'
<1> USE RuntimeAssumption, CoroutinesAssumption DEF vars, sdkVars, regVars, obsVars, histVars, Actors,
    Closers, Views, Goto, TypeOK, QueueInv, TodoInv, WorkPC
<1>1. ASSUME NEW s \in Starts, StartBegin(s) PROVE TodoInv'
  BY <1>1 DEF StartBegin
<1>2. ASSUME NEW s \in Starts, StartFails(s) PROVE TodoInv'
  BY <1>2 DEF StartFails
<1>3. ASSUME NEW s \in Starts, StartInstalls(s) PROVE TodoInv'
  BY <1>3 DEF StartInstalls
<1>4. ASSUME NEW s \in Starts, StartReturns(s) PROVE TodoInv'
  BY <1>4 DEF StartReturns
<1>5. ASSUME NEW s \in Starts, StartRefused(s) PROVE TodoInv'
  BY <1>5 DEF StartRefused, EnterClose
<1>6. ASSUME NEW x \in Closers, HostCloses(x) PROVE TodoInv'
  BY <1>6 DEF HostCloses, EnterClose
<1>7. ASSUME NEW x \in Closers, HasLock(x) PROVE TodoInv'
  BY <1>7 DEF HasLock, LeaveClose, At, To
<1>8. ASSUME NEW x \in Closers, CloseTask(x) PROVE TodoInv'
  BY <1>8 DEF CloseTask, At
<1>9. ASSUME NEW x \in Closers, TasksClosed(x) PROVE TodoInv'
  BY <1>9 DEF TasksClosed, At, To
<1>10. ASSUME NEW x \in Closers, CloseRun(x) PROVE TodoInv'
  BY <1>10 DEF CloseRun, At
<1>11. ASSUME NEW x \in Closers, RunsClosed(x) PROVE TodoInv'
  BY <1>11 DEF RunsClosed, At, To
<1>12. ASSUME NEW x \in Closers, CloseSession(x) PROVE TodoInv'
  BY <1>12 DEF CloseSession, At, Fault
<1>13. ASSUME NEW x \in Closers, SessionsClosed(x) PROVE TodoInv'
  BY <1>13 DEF SessionsClosed, At, To, SessionsAfterClose
<1>14. ASSUME NEW x \in Closers, SdkClosed(x) PROVE TodoInv'
  BY <1>14 DEF SdkClosed, At, To, StopEvents
<1>15. ASSUME NEW x \in Closers, SdkCloseFails(x) PROVE TodoInv'
  BY <1>15 DEF SdkCloseFails, LeaveClose, RaiseFromClose, Raised, At, To
<1>16. ASSUME NEW x \in Closers, BusCloses(x) PROVE TodoInv'
  BY <1>16 DEF BusCloses, LeaveClose, RaiseFromClose, Raised, At, To
<1>17. ASSUME NEW a \in Runs \cup Views, Create(a) PROVE TodoInv'
  BY <1>17 DEF Create, RequireStarted
<1>18. ASSUME NEW a \in Runs \cup Views, CreateFails(a) PROVE TodoInv'
  BY <1>18 DEF CreateFails
<1>19. ASSUME NEW r \in Runs, RunRegisters(r) PROVE TodoInv'
  BY <1>19 DEF RunRegisters
<1>20. ASSUME NEW r \in Runs, RunEnds(r) PROVE TodoInv'
  BY <1>20 DEF RunEnds, At, To
<1>21. ASSUME NEW r \in Runs, RunInvalidates(r) PROVE TodoInv'
  BY <1>21 DEF RunInvalidates, EnterClose
<1>22. ASSUME NEW v \in Views, ViewRegisters(v) PROVE TodoInv'
  BY <1>22 DEF ViewRegisters
<1>23. ASSUME NEW v \in Views, ViewReturned(v) PROVE TodoInv'
  BY <1>23 DEF ViewReturned
<1>24. ASSUME NEW v \in Views, ViewRefused(v) PROVE TodoInv'
  BY <1>24 DEF ViewRefused
<1>25. ASSUME NEW v \in Views, ViewCloses(v) PROVE TodoInv'
  BY <1>25 DEF ViewCloses
<1>26. CASE UNCHANGED vars
  BY <1>26
<1>27. ASSUME NEW s \in Starts, StartAbandons(s) PROVE TodoInv'
  BY <1>27 DEF StartAbandons, Fault
<1>28. ASSUME NEW x \in Closers, CancelClose(x) PROVE TodoInv'
  BY <1>28 DEF CancelClose, InClose, At, To, Raised, Fault
<1>29. ASSUME NEW a \in Runs \cup Views, CreateCancelled(a) PROVE TodoInv'
  BY <1>29 DEF CreateCancelled, Fault
<1>30. ASSUME NEW r \in Runs, RunAbandons(r) PROVE TodoInv'
  BY <1>30 DEF RunAbandons, At, To
<1> QED BY <1>1, <1>2, <1>3, <1>4, <1>5, <1>6, <1>7, <1>8, <1>9, <1>10, <1>11, <1>12, <1>13,
    <1>14, <1>15, <1>16, <1>17, <1>18, <1>19, <1>20, <1>21, <1>22, <1>23, <1>24, <1>25,
    <1>26, <1>27, <1>28, <1>29, <1>30
    DEF Next, CloseStep

(* Every step keeps behind a step of close() what it has emptied.          *)
LEMMA CleanStep ==
    ASSUME TypeOK, QueueInv, StartInv, SdkInv, TodoInv, CleanInv, [Next]_vars
    PROVE  CleanInv'
<1> USE RuntimeAssumption, CoroutinesAssumption DEF vars, sdkVars, regVars, obsVars, histVars, Actors,
    Closers, Views, Goto, TypeOK, QueueInv, StartInv, TodoInv, CleanInv, WorkPC
<1>1. ASSUME NEW s \in Starts, StartBegin(s) PROVE CleanInv'
  BY <1>1 DEF StartBegin
<1>2. ASSUME NEW s \in Starts, StartFails(s) PROVE CleanInv'
  BY <1>2 DEF StartFails
<1>3. ASSUME NEW s \in Starts, StartInstalls(s) PROVE CleanInv'
  BY <1>3 DEF StartInstalls
<1>4. ASSUME NEW s \in Starts, StartReturns(s) PROVE CleanInv'
  BY <1>4 DEF StartReturns
<1>5. ASSUME NEW s \in Starts, StartRefused(s) PROVE CleanInv'
  BY <1>5 DEF StartRefused, EnterClose
<1>6. ASSUME NEW x \in Closers, HostCloses(x) PROVE CleanInv'
  BY <1>6 DEF HostCloses, EnterClose
<1>7. ASSUME NEW x \in Closers, HasLock(x) PROVE CleanInv'
  <2>1. CASE closed /\ sdk = None
    BY <1>7, <2>1 DEF HasLock, LeaveClose, At, To
  <2>2. CASE ~(closed /\ sdk = None)
    <3>1. /\ closed' = TRUE /\ clean' = (clean /\ ~Creating)
          /\ todo' = [todo EXCEPT ![x] = tasks] /\ cl' = [cl EXCEPT ![x] = "tasks"]
          /\ UNCHANGED <<sdk, regVars, pc, abandoned>>
      BY <1>7, <2>2 DEF HasLock, To
    <3>2. clean' => clean /\ \A a \in Runs \cup Views : pc[a] # "starting"
      BY <3>1 DEF Creating
    <3> QED BY <3>1, <3>2
  <2> QED BY <2>1, <2>2
<1>8. ASSUME NEW x \in Closers, CloseTask(x) PROVE CleanInv'
  BY <1>8 DEF CloseTask, At
<1>9. ASSUME NEW x \in Closers, TasksClosed(x) PROVE CleanInv'
  BY <1>9 DEF TasksClosed, At, To
<1>10. ASSUME NEW x \in Closers, CloseRun(x) PROVE CleanInv'
  BY <1>10 DEF CloseRun, At
<1>11. ASSUME NEW x \in Closers, RunsClosed(x) PROVE CleanInv'
  BY <1>11 DEF RunsClosed, At, To
<1>12. ASSUME NEW x \in Closers, CloseSession(x) PROVE CleanInv'
  BY <1>12 DEF CloseSession, At, Fault
<1>13. ASSUME NEW x \in Closers, SessionsClosed(x) PROVE CleanInv'
  BY <1>13 DEF SessionsClosed, At, To, SessionsAfterClose
<1>14. ASSUME NEW x \in Closers, SdkClosed(x) PROVE CleanInv'
  BY <1>14 DEF SdkClosed, At, To, StopEvents
<1>15. ASSUME NEW x \in Closers, SdkCloseFails(x) PROVE CleanInv'
  BY <1>15 DEF SdkCloseFails, LeaveClose, RaiseFromClose, Raised, At, To
<1>16. ASSUME NEW x \in Closers, BusCloses(x) PROVE CleanInv'
  BY <1>16 DEF BusCloses, LeaveClose, RaiseFromClose, Raised, At, To
<1>17. ASSUME NEW a \in Runs \cup Views, Create(a) PROVE CleanInv'
  BY <1>17 DEF Create, RequireStarted
<1>18. ASSUME NEW a \in Runs \cup Views, CreateFails(a) PROVE CleanInv'
  BY <1>18 DEF CreateFails
<1>19. ASSUME NEW r \in Runs, RunRegisters(r) PROVE CleanInv'
  BY <1>19 DEF RunRegisters
<1>20. ASSUME NEW r \in Runs, RunEnds(r) PROVE CleanInv'
  BY <1>20 DEF RunEnds, At, To
<1>21. ASSUME NEW r \in Runs, RunInvalidates(r) PROVE CleanInv'
  <2>1. PICK l \in {"closing", "reclosing"} : EnterClose(r, l)
    BY <1>21 DEF RunInvalidates
  <2> QED BY <2>1 DEF EnterClose
<1>22. ASSUME NEW v \in Views, ViewRegisters(v) PROVE CleanInv'
  BY <1>22 DEF ViewRegisters
<1>23. ASSUME NEW v \in Views, ViewReturned(v) PROVE CleanInv'
  BY <1>23 DEF ViewReturned
<1>24. ASSUME NEW v \in Views, ViewRefused(v) PROVE CleanInv'
  BY <1>24 DEF ViewRefused
<1>25. ASSUME NEW v \in Views, ViewCloses(v) PROVE CleanInv'
  BY <1>25 DEF ViewCloses
<1>26. CASE UNCHANGED vars
  BY <1>26
<1>27. ASSUME NEW s \in Starts, StartAbandons(s) PROVE CleanInv'
  BY <1>27 DEF StartAbandons, Fault
<1>28. ASSUME NEW x \in Closers, CancelClose(x) PROVE CleanInv'
  BY <1>28 DEF CancelClose, InClose, At, To, Raised, Fault
<1>29. ASSUME NEW a \in Runs \cup Views, CreateCancelled(a) PROVE CleanInv'
  BY <1>29 DEF CreateCancelled, Fault
<1>30. ASSUME NEW r \in Runs, RunAbandons(r) PROVE CleanInv'
  BY <1>30 DEF RunAbandons, At, To
<1> QED BY <1>1, <1>2, <1>3, <1>4, <1>5, <1>6, <1>7, <1>8, <1>9, <1>10, <1>11, <1>12, <1>13,
    <1>14, <1>15, <1>16, <1>17, <1>18, <1>19, <1>20, <1>21, <1>22, <1>23, <1>24, <1>25,
    <1>26, <1>27, <1>28, <1>29, <1>30
    DEF Next, CloseStep

-----------------------------------------------------------------------------
(* With a host that keeps start() and close() apart the invariant holds in *)
(* every reachable state.                                                  *)
THEOREM RuntimeInvariance ==
    ASSUME Orderly
    PROVE  Spec => []RuntimeInv
<1>1. RuntimeInv /\ [Next]_vars => RuntimeInv'
  BY TypeStep, QueueStep, StartStep, SdkStep, TodoStep, CleanStep DEF RuntimeInv
<1> QED BY <1>1, InitRuntime, PTL DEF Spec

-----------------------------------------------------------------------------
(* There is one SDK client at most that was not abandoned, and a started   *)
(* runtime uses an open one.                                               *)
THEOREM OneSdkTheorem ==
    ASSUME Orderly
    PROVE  Spec => []OneSdk
<1>1. RuntimeInv => OneSdk
  <2> SUFFICES ASSUME RuntimeInv PROVE OneSdk
    OBVIOUS
  <2> DEFINE live == sdks \ abandoned
  <2>1. ASSUME NEW s \in live, NEW u \in live PROVE s = u
    BY RuntimeAssumption DEF RuntimeInv, TypeOK, StartInv, SdkInv
  <2>2. live = {} \/ \E s \in Starts : live = {s}
    BY <2>1 DEF RuntimeInv, TypeOK
  <2>3. Cardinality(live) <= 1
    <3>1. CASE live = {}
      BY <3>1, FS_EmptySet
    <3>2. ASSUME NEW s \in Starts, live = {s} PROVE Cardinality(live) <= 1
      BY <3>2, FS_Singleton
    <3> QED BY <2>2, <3>1, <3>2
  <2> QED BY <2>3 DEF RuntimeInv, SdkInv, OneSdk, RequireStarted
<1> QED BY <1>1, RuntimeInvariance, PTL

(* RUNTIME_STOPPED is dispatched once for each time the runtime started,   *)
(* however many coroutines close it.                                       *)
THEOREM StoppedTheorem ==
    ASSUME Orderly
    PROVE  Spec => []StoppedOncePerStart
<1>1. RuntimeInv => StoppedOncePerStart
  BY DEF RuntimeInv, TypeOK, SdkInv, StoppedOncePerStart
<1> QED BY <1>1, RuntimeInvariance, PTL

(* As long as a task is open its SDK client is, so that the task can       *)
(* delete its thread.                                                      *)
THEOREM TaskSdkTheorem ==
    ASSUME Orderly
    PROVE  Spec => []OpenTaskHasSdk
<1>1. RuntimeInv => OpenTaskHasSdk
  BY DEF RuntimeInv, SdkInv, CleanInv, OpenTaskHasSdk
<1> QED BY <1>1, RuntimeInvariance, PTL

(* A closed runtime has no client, no entry in a registry, and no          *)
(* workspace but those of runs that still unwind, unless a creation was in *)
(* flight when a close() began, and beside what a cancellation or a        *)
(* failing clean-up has abandoned.                                         *)
THEOREM ClosedTheorem ==
    ASSUME Orderly
    PROVE  Spec => []ClosedLeavesNothing
<1>1. RuntimeInv => ClosedLeavesNothing
  <2> SUFFICES ASSUME RuntimeInv, clean, closed, sdk = None PROVE
           /\ sdks \ abandoned \subseteq {s \in Starts : pc[s] = "connecting"}
           /\ tasks = {} /\ sessions = {} /\ activeRuns = {}
           /\ \A w \in workspaces \ abandoned :
                 w \in Runs /\ pc[w] \in {"running", "closing", "reclosing"}
    BY DEF ClosedLeavesNothing
  <2>1. sdks \ abandoned \subseteq {s \in Starts : pc[s] = "connecting"}
    BY RuntimeAssumption DEF RuntimeInv, TypeOK, SdkInv
  <2> QED BY <2>1 DEF RuntimeInv, CleanInv
<1> QED BY <1>1, RuntimeInvariance, PTL
=============================================================================
