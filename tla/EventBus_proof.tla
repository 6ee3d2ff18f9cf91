--------------------------- MODULE EventBus_proof ---------------------------
(***************************************************************************)
(* Proofs about EventBus, for any number of emitters, any scripts, any of  *)
(* the two observers in any order, and any faults, timeouts and            *)
(* cancellations.                                                          *)
(*                                                                         *)
(* The inductive invariant follows one event on its way.  Queue: the       *)
(* emitters of a lock are ordered; FirstCome, on top of it: by who asked   *)
(* first, and they are finitely many.  Claims: an id is claimed once.      *)
(* OneLock: until the terminal event of an invocation has been dispatched, *)
(* all its emitters ask for one lock.  Deliveries and Tracked: what was    *)
(* claimed and not handled yet is in the hands of one emitter, unless the  *)
(* observer failed.  Reported, Ended and Closing carry that over to the    *)
(* completed result, the open runs and spans, and the shutdown.            *)
(***************************************************************************)
EXTENDS EventBus, FiniteSetTheorems, WellFoundedInduction, TLAPS

Stages == {"idle", "lock", "dispatch", "thread", "answered", "raised"}
LockNames == {<< >>} \cup (Emitters \X Nat)
EventIds == {e.id : e \in Events}
Ids(i) == {e.id : e \in {f \in Events : f.inv = i}}

(* A record that names an event of a script, with its kind or with         *)
(* CANCELLED in place of INVOCATION_COMPLETED.                             *)
IsEvent(e) ==
    \E f \in Events :
        /\ e.id = f.id /\ e.inv = f.inv /\ e.call = f.call
        /\ e.kind = f.kind \/ {e.kind, f.kind} \subseteq InvocationEnds

TypeOK ==
    /\ locks \in [Invocations -> LockNames]
    /\ on \in [Emitters -> LockNames] /\ ahead \in [Emitters -> SUBSET Emitters]
    /\ seen \subseteq EventIds
    /\ pos \in [Emitters -> Nat \ {0}] /\ at \in [Emitters -> Stages]
    /\ obs \in [Emitters -> Nat \ {0}] /\ failed \in [Emitters -> BOOLEAN]
    /\ aborted \subseteq Emitters
    /\ shut \subseteq Range(Bound)
    /\ sent \in [Invocations -> SUBSET EventIds]
    /\ handled \in [Range(Bound) -> SUBSET EventIds]
    /\ reported \in [Invocations -> (SUBSET Range(Bound)) \cup {None}]

Busy(c) == at[c] # "idle"

(* Where an emitter stands in its script and among the observers.          *)
Standing ==
    \A c \in Emitters :
        /\ Busy(c) => pos[c] \in DOMAIN Script[c]
        /\ at[c] \in {"idle", "lock"} => obs[c] = 1
        /\ at[c] \in {"thread", "answered", "raised"} => obs[c] \in DOMAIN Bound /\ Observer(c) = LangSmith

Queue ==
    /\ \A c, d \in Emitters :
          c # d /\ Busy(c) /\ Busy(d) /\ on[c] = on[d] => c \in ahead[d] \/ d \in ahead[c]
    /\ \A c \in Emitters : Busy(c) <=> on[c] # << >>
    /\ \A c \in Emitters : Dispatching(c) => ahead[c] = {}

(* Finitely many emitters are in emit(); those ahead of one are in it for  *)
(* the same lock, and so is whoever is ahead of those.                     *)
FirstCome ==
    /\ IsFiniteSet({c \in Emitters : Busy(c)})
    /\ \A c \in Emitters : c \notin ahead[c]
    /\ \A c \in Emitters : \A d \in ahead[c] :
          Busy(d) /\ on[d] = on[c] /\ ahead[d] \subseteq ahead[c]

Ended(i) == TerminalIds(i) \cap seen # {}

Claims ==
    /\ \A c \in Emitters : Dispatching(c) => Current(c).id \in seen \ cut
    /\ \A c, d \in Emitters :
          Dispatching(c) /\ Dispatching(d) /\ Current(c).id = Current(d).id => c = d
    /\ \A i \in Invocations : sent[i] \subseteq seen \cap Ids(i)
    /\ \A i \in Invocations : Ended(i) => TerminalIds(i) \cap sent[i] # {}
    /\ cut \subseteq seen

(* c dispatches an event of i that came up to its terminal event.          *)
InHand(c, i) == Dispatching(c) /\ Current(c).inv = i /\ Current(c).id \in sent[i]

OneLock ==
    \A i \in Invocations :
        \/ \A c \in Emitters : Busy(c) /\ Current(c).inv = i => on[c] = locks[i]
        \/ Ended(i) /\ \A c \in Emitters : ~InHand(c, i)

EndLast ==
    \A i \in Invocations, c \in Emitters : Ended(i) /\ InHand(c, i) => Current(c).id \in TerminalIds(i)

Rank(o) == CHOOSE n \in DOMAIN Bound : Bound[n] = o

(* o has yet to handle the event c dispatches.                             *)
ToDo(c, o) ==
    \/ at[c] \in {"dispatch", "thread", "raised"} /\ obs[c] <= Rank(o)
    \/ at[c] = "answered" /\ obs[c] < Rank(o)

(* c has handed its event to a thread, and has no answer yet or gave up.   *)
Handed(c) == at[c] = "thread" \/ (at[c] = "dispatch" /\ obs[c] > Rank(LangSmith))

Deliveries ==
    /\ jobs # {} => LangSmith \in Range(Bound)
    /\ \A e \in jobs : IsEvent(e) /\ e.id \in seen
    /\ \A e, f \in jobs : e.id = f.id => e = f
    /\ \A e \in jobs, c \in Emitters : Dispatching(c) /\ Current(c).id = e.id => Handed(c)
    /\ \A o \in Range(Bound) : handled[o] \subseteq seen
    /\ \A c \in Emitters, o \in Range(Bound) : ToDo(c, o) => Current(c).id \notin handled[o]

Fine(o, i) == <<o, i>> \notin failures /\ o \notin shut

Tracked ==
    \A o \in Range(Bound), i \in Invocations : Fine(o, i) =>
        /\ \A x \in sent[i] \ (cut \cup handled[o]) :
              \E c \in Emitters : InHand(c, i) /\ Current(c).id = x /\ ToDo(c, o)
        /\ <<o, i>> \notin disorder
        /\ o = LangSmith => \A e \in jobs : e.id \in sent[i] \ cut =>
              \E c \in Emitters : at[c] = "thread" /\ Current(c).id = e.id

Reported ==
    \A i \in Invocations : reported[i] # None =>
        /\ Ended(i) /\ \A c \in Emitters : ~InHand(c, i)
        /\ closing = <<"idle", 1>> => \A o \in Range(Bound) \ reported[i] :
              /\ sent[i] \ cut \subseteq handled[o] /\ <<o, i>> \notin disorder
              /\ o = LangSmith => \A e \in jobs : e.id \notin sent[i] \ cut

(* o handled a terminal event of i.                                        *)
Through(o, i) == o \in Range(Bound) /\ Fine(o, i) /\ TerminalIds(i) \cap handled[o] # {}

OpenRuns(i) == {r \in DOMAIN runs : r[1] = i}
OpenSpans(i) == {<<i, "turn">>, <<i, "invocation">>} \cap spans
StrayRuns(i) == UNION {OpenedRuns(e) : e \in Strays(i)}
LateSpans(i) == UNION {OpenedSpans(e) : e \in Behind(i)}

TracesEnded ==
    /\ LangSmith \notin Range(Bound) => DOMAIN runs = {}
    /\ OpenTelemetry \notin Range(Bound) => spans = {}
    /\ \A i \in Invocations : Through(LangSmith, i) => OpenRuns(i) \subseteq StrayRuns(i)
    /\ \A i \in Invocations : Through(OpenTelemetry, i) => OpenSpans(i) \subseteq LateSpans(i)

Closing ==
    /\ closing \in {"idle", "flush", "close", "end", "done", "cancelled"} \X Nat
    /\ closing = <<"idle", 1>> => shut = {}
    /\ closing[1] \in {"flush", "close"} => closing[2] \in DOMAIN Bound
    /\ closing[1] = "close" => \A n \in 1..(closing[2] - 1) : Bound[n] \in shut
    /\ closing[1] \in {"end", "done"} => Range(Bound) \subseteq shut
    /\ OpenTelemetry \in shut /\ <<OpenTelemetry, "close">> \notin failures => spans = {}

IInv ==
    /\ TypeOK /\ Standing /\ Queue /\ Claims /\ OneLock /\ EndLast
    /\ Deliveries /\ Tracked /\ Reported /\ TracesEnded /\ Closing

-----------------------------------------------------------------------------
(* Events, ids and observers                                               *)

(* What is kept of an event of a script when its kind may have changed.    *)
LEMMA EventFacts ==
    ASSUME NEW e, IsEvent(e)
    PROVE  /\ e.inv \in Invocations /\ e.id \in EventIds /\ e.id \in Ids(e.inv)
           /\ e.kind \in InvocationEnds <=> e.id \in TerminalIds(e.inv)
<1>1. PICK f \in Events : /\ e.id = f.id /\ e.inv = f.inv /\ e.call = f.call
                          /\ e.kind = f.kind \/ {e.kind, f.kind} \subseteq InvocationEnds
  BY DEF IsEvent
<1>2. e.inv \in Invocations /\ e.id \in EventIds /\ e.id \in Ids(e.inv)
  BY <1>1 DEF Invocations, EventIds, Ids
<1>3. ASSUME e.kind \in InvocationEnds PROVE e.id \in TerminalIds(e.inv)
  BY <1>1, <1>3 DEF TerminalIds
<1>4. ASSUME e.id \in TerminalIds(e.inv) PROVE e.kind \in InvocationEnds
  <2>1. PICK g \in Events : g.inv = e.inv /\ g.kind \in InvocationEnds /\ g.id = e.id
    BY <1>4 DEF TerminalIds
  <2> QED BY <1>1, <2>1, BusAssumption
<1> QED BY <1>2, <1>3, <1>4

(* An id belongs to one invocation.                                        *)
LEMMA IdsApart ==
    ASSUME NEW i, NEW j, NEW x \in Ids(i), x \in Ids(j)
    PROVE  i = j
BY BusAssumption DEF Ids

LEMMA TerminalIdsIn == \A i : TerminalIds(i) \subseteq Ids(i)
BY DEF TerminalIds, Ids

(* The event an emitter is at is an event of its script.                   *)
LEMMA CurrentEvent ==
    ASSUME NEW c \in Emitters, pos[c] \in DOMAIN Script[c]
    PROVE  IsEvent(Current(c))
<1> DEFINE e == Script[c][pos[c]]
<1>1. e \in Events
  BY DEF Events, Range
<1>2. e = [id |-> e.id, inv |-> e.inv, kind |-> e.kind, call |-> e.call, after |-> e.after]
  BY <1>1, BusAssumption
<1>3. CASE c \in aborted /\ e.kind = "invocation_completed"
  <2>1. Current(c) = [e EXCEPT !.kind = "cancelled"]
    BY <1>3 DEF Current
  <2>2. /\ Current(c).id = e.id /\ Current(c).inv = e.inv /\ Current(c).call = e.call
        /\ Current(c).kind = "cancelled"
    <3> HIDE DEF e
    <3> QED BY <1>2, <2>1
  <2> QED BY <1>1, <1>3, <2>2 DEF IsEvent, InvocationEnds
<1>4. CASE ~(c \in aborted /\ e.kind = "invocation_completed")
  BY <1>1, <1>4 DEF Current, IsEvent
<1> QED BY <1>3, <1>4

LEMMA RankFacts ==
    /\ \A o \in Range(Bound) : Rank(o) \in DOMAIN Bound /\ Rank(o) \in Nat /\ Bound[Rank(o)] = o
    /\ \A n \in DOMAIN Bound : n \in Nat /\ Bound[n] \in Range(Bound) /\ Rank(Bound[n]) = n
    /\ Range(Bound) \subseteq {LangSmith, OpenTelemetry}
<1>1. DOMAIN Bound \subseteq Nat /\ Range(Bound) \subseteq {LangSmith, OpenTelemetry}
  BY BusAssumption DEF Range
<1>2. ASSUME NEW n \in DOMAIN Bound PROVE Rank(Bound[n]) = n /\ Bound[n] \in Range(Bound)
  BY BusAssumption DEF Rank, Range
<1> QED BY <1>1, <1>2 DEF Range

-----------------------------------------------------------------------------
(* What the actions do to the emitters                                     *)

(* All emitters but c stay as they are.                                    *)
Others(c) ==
    \A d \in Emitters \ {c} :
        /\ at'[d] = at[d] /\ on'[d] = on[d] /\ obs'[d] = obs[d] /\ pos'[d] = pos[d]
        /\ Current(d)' = Current(d)

(* An event depends on the position of its emitter, and on its abortion.   *)
LEMMA SameCurrent ==
    ASSUME NEW d \in Emitters, pos'[d] = pos[d], d \in aborted' <=> d \in aborted
    PROVE  Current(d)' = Current(d)
BY DEF Current

(* c comes back from emit(): EmitDuplicate, EmitReturns, EmitRaises and    *)
(* EmitCancelled.                                                          *)
Leaves(c) ==
    /\ Busy(c) /\ at'[c] = "idle" /\ on'[c] = << >> /\ obs'[c] = 1 /\ Others(c)
    /\ ahead' = [d \in Emitters |-> IF d = c THEN {} ELSE ahead[d] \ {c}]
    /\ \/ UNCHANGED locks
       \/ /\ locks' = [locks EXCEPT ![Current(c).inv] = << >>]
          /\ Current(c).id \in TerminalIds(Current(c).inv) \cap seen /\ Holds(c)
    /\ \/ UNCHANGED <<cut, jobs>> /\ \A o \in Range(Bound) : ~ToDo(c, o)
       \/ /\ Dispatching(c) /\ cut' = cut \cup {Current(c).id}
          /\ jobs' \in {jobs, jobs \ {Current(c)}}
    /\ \/ UNCHANGED reported
       \/ /\ at[c] = "dispatch" /\ obs[c] \notin DOMAIN Bound
          /\ Current(c).id \in TerminalIds(Current(c).inv) /\ UNCHANGED <<cut, jobs>>
          /\ reported' = [reported EXCEPT ![Current(c).inv] = Scoped(c)]
    /\ UNCHANGED <<seen, sent, failures, handled, disorder, runs, spans, shut, closing>>

LEMMA LeaveSteps ==
    ASSUME TypeOK, Standing, Queue, Claims, NEW c \in Emitters,
           EmitDuplicate(c) \/ EmitReturns(c) \/ EmitRaises(c) \/ EmitCancelled(c)
    PROVE  Leaves(c)
<1> USE DEF TypeOK
<1>1. Busy(c) /\ IsEvent(Current(c))
  <2>1. Busy(c)
    BY DEF EmitDuplicate, EmitReturns, EmitRaises, EmitCancelled, Busy
  <2> QED BY <2>1, CurrentEvent DEF Standing
<1>2. /\ Leave(c) /\ UNCHANGED <<seen, sent, failures, handled, disorder, runs, spans, shut, closing>>
      /\ \A d \in Emitters \ {c} : pos'[d] = pos[d] /\ (d \in aborted' <=> d \in aborted)
  BY DEF EmitDuplicate, EmitReturns, EmitRaises, EmitCancelled, Abort, obsVars, history
<1>3. /\ at'[c] = "idle" /\ on'[c] = << >> /\ obs'[c] = 1 /\ Others(c)
      /\ ahead' = [d \in Emitters |-> IF d = c THEN {} ELSE ahead[d] \ {c}]
  BY <1>2, SameCurrent DEF Leave, Others
<1>4. Terminal(Current(c).kind) <=> Current(c).id \in TerminalIds(Current(c).inv)
  BY <1>1, EventFacts DEF Terminal
<1>5. at[c] = "dispatch" /\ obs[c] \notin DOMAIN Bound => \A o \in Range(Bound) : ~ToDo(c, o)
  <2>1. Bound \in Seq({LangSmith, OpenTelemetry}) /\ obs[c] \in Nat \ {0}
    BY BusAssumption
  <2>2. DOMAIN Bound = 1..Len(Bound) /\ Len(Bound) \in Nat
    BY <2>1
  <2> QED BY <2>1, <2>2, RankFacts DEF ToDo
<1>6. CASE EmitDuplicate(c)
  <2>1. \A o \in Range(Bound) : ~ToDo(c, o)
    BY <1>6 DEF EmitDuplicate, ToDo
  <2>2. Release(c) /\ Holds(c) /\ Current(c).id \in seen /\ UNCHANGED <<cut, jobs, reported>>
    BY <1>6 DEF EmitDuplicate, Duplicate, obsVars, history
  <2> QED BY <1>1, <1>2, <1>3, <1>4, <2>1, <2>2 DEF Leaves, Release
<1>7. CASE EmitReturns(c)
  <2>1. /\ Release(c) /\ at[c] = "dispatch" /\ obs[c] \notin DOMAIN Bound /\ UNCHANGED <<cut, jobs>>
        /\ reported' = IF Current(c).kind # "invocation_completed" THEN reported
                       ELSE [reported EXCEPT ![Current(c).inv] = Scoped(c)]
    BY <1>7 DEF EmitReturns, obsVars
  <2>2. Dispatching(c) /\ Holds(c) /\ Current(c).id \in seen
    BY <2>1 DEF Dispatching, Holds, Queue, Claims
  <2>3. Current(c).kind = "invocation_completed" => Terminal(Current(c).kind)
    BY DEF Terminal, InvocationEnds
  <2> QED BY <1>1, <1>2, <1>3, <1>4, <1>5, <2>1, <2>2, <2>3 DEF Leaves, Release
<1>8. CASE EmitRaises(c)
  <2>1. Release(c) /\ at[c] = "dispatch" /\ obs[c] \notin DOMAIN Bound /\ UNCHANGED <<cut, jobs, reported>>
    BY <1>8 DEF EmitRaises, obsVars, history
  <2>2. Dispatching(c) /\ Holds(c) /\ Current(c).id \in seen
    BY <2>1 DEF Dispatching, Holds, Queue, Claims
  <2> QED BY <1>1, <1>2, <1>3, <1>4, <1>5, <2>1, <2>2 DEF Leaves, Release
<1>9. CASE EmitCancelled(c)
  <2>1. CASE at[c] = "lock"
    <3>1. UNCHANGED <<locks, cut, jobs, reported>>
      BY <1>9, <2>1 DEF EmitCancelled
    <3>2. \A o \in Range(Bound) : ~ToDo(c, o)
      BY <2>1 DEF ToDo
    <3> QED BY <1>1, <1>2, <1>3, <3>1, <3>2 DEF Leaves
  <2>2. CASE at[c] \in {"thread", "answered", "raised"}
    <3>1. Release(c) /\ Forsake(c) /\ cut' = cut \cup {Current(c).id} /\ UNCHANGED reported
      BY <1>9, <2>2 DEF EmitCancelled
    <3>2. Dispatching(c) /\ Holds(c) /\ Current(c).id \in seen
      BY <2>2 DEF Dispatching, Holds, Queue, Claims
    <3> QED BY <1>1, <1>2, <1>3, <1>4, <3>1, <3>2 DEF Leaves, Release, Forsake
  <2> QED BY <1>9, <2>1, <2>2 DEF EmitCancelled
<1> QED BY <1>6, <1>7, <1>8, <1>9

(* Nobody enters or leaves emit(), and nothing is claimed or released.     *)
Quiet ==
    /\ \A d \in Emitters :
          /\ Busy(d)' <=> Busy(d)
          /\ Dispatching(d)' <=> Dispatching(d)
          /\ Busy(d) => Current(d)' = Current(d)
    /\ UNCHANGED <<locks, on, ahead, seen, sent, cut>>

Closes == BusCloses \/ FlushObserver \/ CloseObserver \/ BusClosed \/ BusCloseCancelled

(* What a step of close() leaves alone.                                    *)
LEMMA CloseFrame ==
    ASSUME Closes
    PROVE  UNCHANGED <<locks, on, ahead, seen, emitVars, jobs, runs, history>>
BY DEF Closes, BusCloses, FlushObserver, CloseObserver, BusClosed, BusCloseCancelled, busVars, obsVars

(* The steps at an observer, of one emitter.                               *)
Delivers(c) == ObserverIgnores(c) \/ ToThread(c) \/ Resumes(c) \/ TimesOut(c) \/ Traces(c)

Hears(e) == ThreadHandles(e) \/ ThreadRaises(e)

LEMMA DeliverFrame ==
    ASSUME TypeOK, NEW c \in Emitters, Delivers(c)
    PROVE  /\ Dispatching(c) /\ Dispatching(c)' /\ Others(c) /\ Current(c)' = Current(c)
           /\ UNCHANGED <<locks, on, ahead, seen, sent, cut, pos, aborted, runs, shut, closing, reported>>
<1> USE DEF TypeOK
<1>1. /\ at[c] \notin {"idle", "lock"} /\ at'[c] \notin {"idle", "lock"}
      /\ \A d \in Emitters \ {c} : at'[d] = at[d] /\ obs'[d] = obs[d]
      /\ UNCHANGED <<locks, on, ahead, seen, sent, cut, pos, aborted, runs, shut, closing, reported>>
  <2>1. CASE ObserverIgnores(c)
    BY <2>1 DEF ObserverIgnores, AtObserver, NextObserver, busVars, obsVars, history
  <2>2. CASE ToThread(c)
    BY <2>2 DEF ToThread, AtObserver, busVars, obsVars, history
  <2>3. CASE Resumes(c)
    BY <2>3 DEF Resumes, NextObserver, busVars, obsVars, history
  <2>4. CASE TimesOut(c)
    BY <2>4 DEF TimesOut, NextObserver, busVars, obsVars, history
  <2>5. CASE Traces(c)
    BY <2>5 DEF Traces, AtObserver, NextObserver, busVars, obsVars, history
  <2> QED BY <2>1, <2>2, <2>3, <2>4, <2>5 DEF Delivers
<1> QED BY <1>1, SameCurrent DEF Dispatching, Others

LEMMA HearFrame ==
    ASSUME TypeOK, NEW e \in jobs, Hears(e)
    PROVE  /\ \A d \in Emitters :
                at'[d] = (IF at[d] = "thread" /\ Current(d).id = e.id
                          THEN IF ThreadHandles(e) THEN "answered" ELSE "raised"
                          ELSE at[d])
           /\ \A d \in Emitters : Current(d)' = Current(d)
           /\ jobs' = jobs \ {e}
           /\ UNCHANGED <<locks, on, ahead, seen, sent, cut, pos, aborted, obs, failed, failures,
                          spans, shut, closing, reported>>
<1> USE DEF TypeOK
<1>1. /\ jobs' = jobs \ {e}
      /\ UNCHANGED <<locks, on, ahead, seen, sent, cut, pos, aborted, obs, failed, failures,
                      spans, shut, closing, reported>>
  BY DEF Hears, ThreadHandles, ThreadRaises, busVars, history
<1>2. \A d \in Emitters : Current(d)' = Current(d)
  BY <1>1, SameCurrent
<1>3. CASE ThreadHandles(e)
  <2>1. at' = [d \in Emitters |-> IF d \in Awaiting(e) THEN "answered" ELSE at[d]]
    BY <1>3 DEF ThreadHandles
  <2> QED BY <1>1, <1>2, <1>3, <2>1 DEF Awaiting
<1>4. CASE ~ThreadHandles(e)
  <2>1. at' = [d \in Emitters |-> IF d \in Awaiting(e) THEN "raised" ELSE at[d]]
    BY <1>4 DEF Hears, ThreadRaises
  <2> QED BY <1>1, <1>2, <1>4, <2>1 DEF Awaiting
<1> QED BY <1>3, <1>4

LEMMA SkipFrame ==
    ASSUME TypeOK, NEW c \in Emitters, EmitClosed(c)
    PROVE  /\ Others(c) /\ ~Busy(c)
           /\ UNCHANGED <<at, obs, locks, on, ahead, seen, failures, aborted, obsVars, closing, history>>
<1>1. /\ ~Busy(c) /\ pos' = [pos EXCEPT ![c] = @ + 1]
      /\ UNCHANGED <<at, obs, locks, on, ahead, seen, failures, aborted, obsVars, closing, history>>
  BY DEF EmitClosed, Busy, busVars
<1> QED BY <1>1, SameCurrent DEF Others, TypeOK

(* Stuttering included.                                                    *)
LEMMA QuietSteps ==
    ASSUME TypeOK,
           \/ UNCHANGED vars \/ Closes
           \/ \E c \in Emitters : Delivers(c) \/ EmitClosed(c)
           \/ \E e \in jobs : Hears(e)
    PROVE  Quiet
<1>1. CASE UNCHANGED vars
  <2>1. UNCHANGED <<locks, on, ahead, seen, sent, cut, pos, at, aborted>>
    BY <1>1 DEF vars, busVars, emitVars, history
  <2> QED BY <2>1, SameCurrent DEF Quiet, Busy, Dispatching
<1>2. CASE Closes
  <2>1. UNCHANGED <<locks, on, ahead, seen, sent, cut, pos, at, aborted>>
    BY <1>2, CloseFrame DEF emitVars, history
  <2> QED BY <2>1, SameCurrent DEF Quiet, Busy, Dispatching
<1>3. ASSUME NEW c \in Emitters, Delivers(c) PROVE Quiet
  BY <1>3, DeliverFrame DEF Quiet, Others, Busy, Dispatching
<1>4. ASSUME NEW c \in Emitters, EmitClosed(c) PROVE Quiet
  BY <1>4, SkipFrame DEF Quiet, Others, Busy, Dispatching, history
<1>5. ASSUME NEW e \in jobs, Hears(e) PROVE Quiet
  BY <1>5, HearFrame DEF Quiet, Busy, Dispatching
<1> QED BY <1>1, <1>2, <1>3, <1>4, <1>5

(* The actions that are not quiet.                                         *)
LEMMA Steps ==
    ASSUME TypeOK, Standing, Queue, Claims, [Next]_vars
    PROVE  \/ \E c \in Emitters : Emit(c) \/ EmitClaims(c) \/ Leaves(c)
           \/ UNCHANGED vars \/ Closes
           \/ \E c \in Emitters : Delivers(c) \/ EmitClosed(c)
           \/ \E e \in jobs : Hears(e)
BY LeaveSteps DEF Next, LoopStep, Closes, Delivers, Hears

LEMMA EmitEffect ==
    ASSUME TypeOK, NEW c \in Emitters, Emit(c)
    PROVE  /\ at[c] = "idle" /\ at'[c] = "lock" /\ pos[c] \in DOMAIN Script[c]
           /\ IsEvent(Current(c)) /\ Current(c)' = Current(c) /\ Others(c)
           /\ on'[c] # << >> /\ on'[c] = locks'[Current(c).inv]
           /\ locks[Current(c).inv] # << >> => on'[c] = locks[Current(c).inv]
           /\ locks' = [locks EXCEPT ![Current(c).inv] = on'[c]]
           /\ ahead' = [ahead EXCEPT ![c] = {d \in Emitters : on[d] = on'[c]}]
           /\ on'[c] \in LockNames
           /\ UNCHANGED <<seen, failures, pos, obs, aborted, obsVars, closing, history>>
<1> USE DEF TypeOK
<1> DEFINE i == Current(c).inv
           lock == IF locks[i] = << >> THEN <<c, pos[c]>> ELSE locks[i]
<1>1. /\ at[c] = "idle" /\ pos[c] \in DOMAIN Script[c]
      /\ at' = [at EXCEPT ![c] = "lock"] /\ on' = [on EXCEPT ![c] = lock]
      /\ locks' = [locks EXCEPT ![i] = lock]
      /\ ahead' = [ahead EXCEPT ![c] = {d \in Emitters : on[d] = lock}]
      /\ UNCHANGED <<seen, failures, pos, obs, aborted, obsVars, closing, history>>
  BY DEF Emit
<1>2. IsEvent(Current(c)) /\ i \in Invocations
  BY <1>1, CurrentEvent, EventFacts
<1>3. lock # << >> /\ lock \in LockNames /\ on'[c] = lock /\ locks'[i] = lock
  BY <1>1, <1>2 DEF LockNames
<1>4. Current(c)' = Current(c) /\ Others(c)
  BY <1>1, SameCurrent DEF Others
<1> HIDE DEF lock
<1>5. locks[i] # << >> => lock = locks[i]
  BY DEF lock
<1> QED BY <1>1, <1>2, <1>3, <1>4, <1>5

LEMMA ClaimEffect ==
    ASSUME TypeOK, Standing, NEW c \in Emitters, EmitClaims(c)
    PROVE  /\ at[c] = "lock" /\ at'[c] = "dispatch" /\ obs[c] = 1 /\ ahead[c] = {}
           /\ IsEvent(Current(c)) /\ Current(c)' = Current(c) /\ Others(c)
           /\ Current(c).id \notin seen /\ seen' = seen \cup {Current(c).id}
           /\ sent' = IF Ended(Current(c).inv) THEN sent
                      ELSE [sent EXCEPT ![Current(c).inv] = @ \cup {Current(c).id}]
           /\ UNCHANGED <<locks, on, ahead, failures, pos, obs, aborted, obsVars, closing,
                          handled, disorder, cut, reported>>
<1> USE DEF TypeOK
<1>1. /\ at[c] = "lock" /\ at' = [at EXCEPT ![c] = "dispatch"] /\ obs[c] = 1 /\ ahead[c] = {}
      /\ Current(c).id \notin seen /\ seen' = seen \cup {Current(c).id}
      /\ sent' = IF Ended(Current(c).inv) THEN sent
                 ELSE [sent EXCEPT ![Current(c).inv] = @ \cup {Current(c).id}]
      /\ UNCHANGED <<locks, on, ahead, failures, pos, obs, aborted, obsVars, closing,
                     handled, disorder, cut, reported>>
  BY DEF EmitClaims, Holds, Duplicate, Ended, Standing
<1>2. IsEvent(Current(c))
  BY <1>1, CurrentEvent DEF Standing, Busy
<1> QED BY <1>1, <1>2, SameCurrent DEF Others

-----------------------------------------------------------------------------
(* The invariant is preserved, one conjunct after the other                *)

LEMMA HandledType ==
    ASSUME TypeOK, NEW o \in Range(Bound), NEW e, IsEvent(e), Observes(o, e)
    PROVE  handled' \in [Range(Bound) -> SUBSET EventIds]
BY EventFacts DEF TypeOK, Observes

LEMMA TypeStep ==
    ASSUME TypeOK, Standing, Queue, Claims, Deliveries, Closing, [Next]_vars
    PROVE  TypeOK'
<1> USE DEF TypeOK
<1>1. ASSUME NEW c \in Emitters, Emit(c) PROVE TypeOK'
  <2>1. Current(c).inv \in Invocations
    BY <1>1, EmitEffect, EventFacts
  <2>2. locks' \in [Invocations -> LockNames] /\ ahead' \in [Emitters -> SUBSET Emitters]
    <3>1. locks' = [locks EXCEPT ![Current(c).inv] = on'[c]] /\ on'[c] \in LockNames
      BY <1>1, EmitEffect
    <3>2. \E S \in SUBSET Emitters : ahead' = [ahead EXCEPT ![c] = S]
      BY <1>1, EmitEffect
    <3>3. locks' \in [Invocations -> LockNames]
      BY <2>1, <3>1
    <3>4. ahead' \in [Emitters -> SUBSET Emitters]
      BY <3>2
    <3> QED BY <3>3, <3>4
  <2>3. on' \in [Emitters -> LockNames] /\ at' \in [Emitters -> Stages]
    <3>1. on' = [on EXCEPT ![c] = on'[c]] /\ at' = [at EXCEPT ![c] = "lock"]
      BY <1>1 DEF Emit
    <3> QED BY <1>1, <3>1, EmitEffect DEF Stages
  <2>4. UNCHANGED <<seen, pos, obs, failed, aborted, shut, sent, handled, reported>>
    BY <1>1 DEF Emit, obsVars, history
  <2> QED BY <2>2, <2>3, <2>4
<1>2. ASSUME NEW c \in Emitters, EmitClaims(c) PROVE TypeOK'
  <2>1. Current(c).inv \in Invocations /\ Current(c).id \in EventIds
    BY <1>2, ClaimEffect, EventFacts
  <2>2. sent' \in [Invocations -> SUBSET EventIds] /\ seen' \subseteq EventIds
    BY <1>2, <2>1, ClaimEffect
  <2>3. /\ at' = [at EXCEPT ![c] = "dispatch"]
        /\ UNCHANGED <<locks, on, ahead, pos, obs, failed, aborted, shut, handled, reported>>
    BY <1>2 DEF EmitClaims, obsVars
  <2> QED BY <2>2, <2>3 DEF Stages
<1>3. ASSUME NEW c \in Emitters,
             EmitDuplicate(c) \/ EmitReturns(c) \/ EmitRaises(c) \/ EmitCancelled(c)
      PROVE  TypeOK'
  <2>1. Leaves(c)
    BY <1>3, LeaveSteps
  <2>2. Current(c).inv \in Invocations
    BY <2>1, CurrentEvent, EventFacts DEF Leaves, Standing
  <2>3. locks' \in [Invocations -> LockNames]
    BY <2>1, <2>2 DEF Leaves, LockNames
  <2>4. reported' \in [Invocations -> (SUBSET Range(Bound)) \cup {None}]
    <3>1. Scoped(c) \in (SUBSET Range(Bound)) \cup {None}
      BY DEF Scoped
    <3>2. UNCHANGED reported \/ reported' = [reported EXCEPT ![Current(c).inv] = Scoped(c)]
      BY <2>1 DEF Leaves
    <3> HIDE DEF Scoped
    <3> QED BY <2>2, <3>1, <3>2
  <2>5. Leave(c) /\ pos' \in [Emitters -> Nat \ {0}] /\ aborted' \subseteq Emitters
    <3>1. Script[c] \in Seq(Events)
      BY BusAssumption
    <3>2. Len(Script[c]) \in Nat
      BY <3>1
    <3>3. Leave(c) /\ \/ pos' = [pos EXCEPT ![c] = @ + 1] /\ UNCHANGED aborted
                      \/ Abort(c)
      BY <1>3 DEF EmitDuplicate, EmitReturns, EmitRaises, EmitCancelled
    <3>4. CASE Abort(c)
      <4>1. PICK p \in {Len(Script[c]), Len(Script[c]) + 1} :
                p > pos[c] /\ pos' = [pos EXCEPT ![c] = p]
        BY <3>4 DEF Abort
      <4>2. p \in Nat \ {0}
        BY <3>2, <4>1
      <4> QED BY <3>3, <3>4, <4>1, <4>2 DEF Abort
    <3> QED BY <3>3, <3>4
  <2>6. /\ at' = [at EXCEPT ![c] = "idle"] /\ on' = [on EXCEPT ![c] = << >>]
        /\ obs' = [obs EXCEPT ![c] = 1] /\ failed' = [failed EXCEPT ![c] = FALSE]
        /\ ahead' = [d \in Emitters |-> IF d = c THEN {} ELSE ahead[d] \ {c}]
    BY <2>5 DEF Leave
  <2>7. UNCHANGED <<seen, shut, sent, handled>>
    BY <2>1 DEF Leaves
  <2> QED BY <2>3, <2>4, <2>5, <2>6, <2>7 DEF Stages, LockNames
<1>4. CASE UNCHANGED vars
  BY <1>4 DEF vars, busVars, emitVars, obsVars, history
<1>5. CASE Closes
  <2>1. UNCHANGED <<locks, on, ahead, seen, pos, at, obs, failed, aborted, sent, handled, reported>>
    BY <1>5, CloseFrame DEF emitVars, history
  <2>2. shut' \subseteq Range(Bound)
    <3>1. CASE CloseObserver
      BY <3>1, RankFacts DEF CloseObserver, LifecycleStep, Closing
    <3>2. CASE ~CloseObserver
      BY <1>5, <3>2 DEF Closes, BusCloses, FlushObserver, BusClosed, BusCloseCancelled, obsVars
    <3> QED BY <3>1, <3>2
  <2> QED BY <2>1, <2>2
<1>6. ASSUME NEW c \in Emitters, Delivers(c) PROVE TypeOK'
  <2>1. UNCHANGED <<locks, on, ahead, seen, sent, pos, aborted, shut, reported>>
    BY <1>6, DeliverFrame
  <2>2. IsEvent(Current(c))
    BY <1>6, DeliverFrame, CurrentEvent DEF Standing, Busy, Dispatching
  <2>3. CASE ObserverIgnores(c)
    <3>1. obs' = [obs EXCEPT ![c] = @ + 1] /\ UNCHANGED <<at, failed, handled>>
      BY <2>3 DEF ObserverIgnores, NextObserver, history
    <3> QED BY <2>1, <3>1
  <2>4. CASE ToThread(c)
    <3>1. at' = [at EXCEPT ![c] = "thread"] /\ UNCHANGED <<obs, failed, handled>>
      BY <2>4 DEF ToThread, history
    <3> QED BY <2>1, <3>1 DEF Stages
  <2>5. CASE Resumes(c)
    <3>1. /\ at' = [at EXCEPT ![c] = "dispatch"] /\ obs' = [obs EXCEPT ![c] = @ + 1]
          /\ failed' \in [Emitters -> BOOLEAN] /\ UNCHANGED handled
      BY <2>5 DEF Resumes, NextObserver, DispatchFails, history
    <3> QED BY <2>1, <3>1 DEF Stages
  <2>6. CASE TimesOut(c)
    <3>1. /\ at' = [at EXCEPT ![c] = "dispatch"] /\ obs' = [obs EXCEPT ![c] = @ + 1]
          /\ failed' \in [Emitters -> BOOLEAN] /\ UNCHANGED handled
      BY <2>6 DEF TimesOut, NextObserver, DispatchFails, history
    <3> QED BY <2>1, <3>1 DEF Stages
  <2>7. CASE Traces(c)
    <3>1. /\ obs' = [obs EXCEPT ![c] = @ + 1] /\ UNCHANGED at
          /\ failed' \in [Emitters -> BOOLEAN]
      BY <2>7 DEF Traces, NextObserver, DispatchFails
    <3>2. OpenTelemetry \in Range(Bound)
      BY <2>7, RankFacts DEF Traces, AtObserver, Observer
    <3>3. handled' \in [Range(Bound) -> SUBSET EventIds]
      <4>1. CASE Observes(OpenTelemetry, Current(c))
        BY <2>2, <3>2, <4>1, HandledType
      <4>2. CASE UNCHANGED handled
        BY <4>2
      <4> QED BY <2>7, <4>1, <4>2 DEF Traces
    <3> QED BY <2>1, <3>1, <3>3
  <2> QED BY <1>6, <2>3, <2>4, <2>5, <2>6, <2>7 DEF Delivers
<1>7. ASSUME NEW c \in Emitters, EmitClosed(c) PROVE TypeOK'
  <2>1. /\ pos' = [pos EXCEPT ![c] = @ + 1]
        /\ UNCHANGED <<locks, on, ahead, seen, at, obs, failed, aborted, shut, sent, handled, reported>>
    BY <1>7 DEF EmitClosed, busVars, obsVars, history
  <2> QED BY <2>1
<1>8. ASSUME NEW e \in jobs, Hears(e) PROVE TypeOK'
  <2>1. UNCHANGED <<locks, on, ahead, seen, sent, pos, aborted, obs, failed, shut, reported>>
    BY <1>8, HearFrame
  <2>2. at' \in [Emitters -> Stages]
    BY <1>8 DEF Hears, ThreadHandles, ThreadRaises, Stages
  <2>3. handled' \in [Range(Bound) -> SUBSET EventIds]
    <3>1. CASE Observes(LangSmith, e)
      BY <3>1, HandledType DEF Deliveries
    <3>2. CASE UNCHANGED handled
      BY <3>2
    <3> QED BY <1>8, <3>1, <3>2 DEF Hears, ThreadHandles, ThreadRaises, history
  <2> QED BY <2>1, <2>2, <2>3
<1> QED
  BY <1>1, <1>2, <1>3, <1>4, <1>5, <1>6, <1>7, <1>8 DEF Next, LoopStep, Closes, Delivers, Hears

LEMMA StandingStep ==
    ASSUME TypeOK, TypeOK', Standing, Queue, Claims, [Next]_vars
    PROVE  Standing'
<1> USE DEF TypeOK
<1> USE DEF Standing, Busy, Observer
<1>2. ASSUME NEW c \in Emitters, Emit(c) PROVE Standing'
  BY <1>2, EmitEffect DEF Others
<1>3. ASSUME NEW c \in Emitters, EmitClaims(c) PROVE Standing'
  BY <1>3, ClaimEffect DEF Others
<1>4. ASSUME NEW c \in Emitters, Leaves(c) PROVE Standing'
  BY <1>4 DEF Leaves, Others
<1>5. CASE UNCHANGED vars
  BY <1>5 DEF vars, emitVars
<1>6. CASE Closes
  BY <1>6, CloseFrame DEF emitVars
<1>7. ASSUME NEW c \in Emitters, Delivers(c) PROVE Standing'
  <2>1. at'[c] = "thread" => AtObserver(c, LangSmith) /\ UNCHANGED obs
    BY <1>7 DEF Delivers, ObserverIgnores, ToThread, Resumes, TimesOut, Traces, AtObserver
  <2>2. at'[c] \in {"dispatch", "thread"}
    BY <1>7 DEF Delivers, ObserverIgnores, ToThread, Resumes, TimesOut, Traces, AtObserver
  <2> QED BY <1>7, <2>1, <2>2, DeliverFrame DEF Others, AtObserver, Dispatching
<1>8. ASSUME NEW c \in Emitters, EmitClosed(c) PROVE Standing'
  BY <1>8, SkipFrame DEF Others
<1>9. ASSUME NEW e \in jobs, Hears(e) PROVE Standing'
  BY <1>9, HearFrame
<1> QED BY <1>2, <1>3, <1>4, <1>5, <1>6, <1>7, <1>8, <1>9, Steps

LEMMA QueueStep ==
    ASSUME TypeOK, Standing, Queue, Claims, [Next]_vars
    PROVE  Queue'
<1> USE DEF TypeOK, Queue, Busy, Dispatching
<1>1. ASSUME NEW c \in Emitters, Emit(c) PROVE Queue'
  <2>1. /\ at[c] = "idle" /\ at'[c] = "lock" /\ on'[c] # << >> /\ Others(c)
        /\ ahead' = [ahead EXCEPT ![c] = {d \in Emitters : on[d] = on'[c]}]
    BY <1>1, EmitEffect
  <2>2. ahead'[c] = {d \in Emitters : on[d] = on'[c]} /\ \A d \in Emitters \ {c} : ahead'[d] = ahead[d]
    BY <2>1
  <2> QED BY <2>1, <2>2 DEF Others
<1>2. ASSUME NEW c \in Emitters, EmitClaims(c) PROVE Queue'
  <2>1. /\ at[c] = "lock" /\ at'[c] = "dispatch" /\ ahead[c] = {} /\ UNCHANGED <<on, ahead>>
        /\ \A d \in Emitters \ {c} : at'[d] = at[d]
    BY <1>2, ClaimEffect DEF Others
  <2> QED BY <2>1
<1>3. ASSUME NEW c \in Emitters, Leaves(c) PROVE Queue'
  <2>1. /\ at'[c] = "idle" /\ on'[c] = << >>
        /\ \A d \in Emitters \ {c} : at'[d] = at[d] /\ on'[d] = on[d]
    BY <1>3 DEF Leaves, Others
  <2>2. ahead' = [d \in Emitters |-> IF d = c THEN {} ELSE ahead[d] \ {c}]
    BY <1>3 DEF Leaves
  <2>3. \A d \in Emitters \ {c} : ahead'[d] = ahead[d] \ {c}
    BY <2>2
  <2>4. \A d, f \in Emitters :
           d # f /\ Busy(d)' /\ Busy(f)' /\ on'[d] = on'[f] => d \in ahead'[f] \/ f \in ahead'[d]
    <3> SUFFICES ASSUME NEW d \in Emitters, NEW f \in Emitters,
                        d # f, Busy(d)', Busy(f)', on'[d] = on'[f]
                 PROVE  d \in ahead'[f] \/ f \in ahead'[d]
      OBVIOUS
    <3>1. d # c /\ f # c
      BY <2>1
    <3>2. d \in ahead[f] \/ f \in ahead[d]
      BY <2>1, <3>1
    <3> QED BY <2>3, <3>1, <3>2
  <2>5. \A d \in Emitters : Busy(d)' <=> on'[d] # << >>
    BY <2>1
  <2>6. \A d \in Emitters : Dispatching(d)' => ahead'[d] = {}
    BY <2>1, <2>3
  <2> QED BY <2>4, <2>5, <2>6
<1>4. ASSUME Quiet PROVE Queue'
  BY <1>4 DEF Quiet
<1> QED BY <1>1, <1>2, <1>3, <1>4, Steps, QuietSteps

LEMMA FirstComeStep ==
    ASSUME TypeOK, Standing, Queue, FirstCome, Claims, [Next]_vars
    PROVE  FirstCome'
<1> USE DEF TypeOK
<1> DEFINE busy == {d \in Emitters : Busy(d)}
<1>1. ASSUME NEW c \in Emitters, Emit(c) PROVE FirstCome'
  <2>1. /\ at[c] = "idle" /\ on'[c] # << >> /\ on[c] = << >>
        /\ \A d \in Emitters \ {c} : at'[d] = at[d] /\ on'[d] = on[d]
    BY <1>1, EmitEffect DEF Queue, Busy, Others
  <2>2. ahead' = [ahead EXCEPT ![c] = {d \in Emitters : on[d] = on'[c]}]
    BY <1>1, EmitEffect
  <2>3. ahead'[c] = {d \in Emitters : on[d] = on'[c]} /\ \A d \in Emitters \ {c} : ahead'[d] = ahead[d]
    BY <2>2
  <2>4. \A d \in Emitters : c \notin ahead[d] /\ c \notin ahead'[c]
    BY <2>1, <2>3 DEF FirstCome, Busy
  <2>5. IsFiniteSet(busy)'
    <3>1. IsFiniteSet(busy \cup {c})
      BY FS_AddElement DEF FirstCome
    <3>2. busy' \in SUBSET (busy \cup {c})
      BY <2>1 DEF Busy
    <3> QED BY <3>1, <3>2, FS_Subset
  <2>6. \A d \in Emitters : d \notin ahead'[d]
    BY <2>3, <2>4 DEF FirstCome
  <2>7. ASSUME NEW d \in Emitters, NEW f \in ahead'[d]
        PROVE  Busy(f)' /\ on'[f] = on'[d] /\ ahead'[f] \subseteq ahead'[d]
    <3>1. f \in Emitters /\ f # c /\ ahead'[f] = ahead[f] /\ at'[f] = at[f] /\ on'[f] = on[f]
      BY <2>1, <2>3, <2>4
    <3>2. CASE d = c
      <4>1. on[f] = on'[c] /\ Busy(f)
        BY <2>1, <2>3, <3>1, <3>2 DEF Queue
      <4>2. \A g \in ahead[f] : g \in Emitters /\ on[g] = on'[c]
        BY <3>1, <4>1 DEF FirstCome
      <4> QED BY <2>3, <3>1, <3>2, <4>1, <4>2 DEF Busy
    <3>3. CASE d # c
      BY <2>1, <2>3, <3>1, <3>3 DEF FirstCome, Busy
    <3> QED BY <3>2, <3>3
  <2> QED BY <2>5, <2>6, <2>7 DEF FirstCome
<1>2. ASSUME NEW c \in Emitters, EmitClaims(c) PROVE FirstCome'
  <2>1. UNCHANGED <<on, ahead>> /\ \A d \in Emitters : Busy(d)' <=> Busy(d)
    BY <1>2, ClaimEffect DEF Others, Busy
  <2>2. busy' = busy
    BY <2>1
  <2> QED BY <2>1, <2>2 DEF FirstCome
<1>3. ASSUME NEW c \in Emitters, Leaves(c) PROVE FirstCome'
  <2>1. at'[c] = "idle" /\ \A d \in Emitters \ {c} : at'[d] = at[d] /\ on'[d] = on[d]
    BY <1>3 DEF Leaves, Others
  <2>2. ahead' = [d \in Emitters |-> IF d = c THEN {} ELSE ahead[d] \ {c}]
    BY <1>3 DEF Leaves
  <2>3. ahead'[c] = {} /\ \A d \in Emitters \ {c} : ahead'[d] = ahead[d] \ {c}
    BY <2>2
  <2>4. IsFiniteSet(busy)'
    <3>1. busy' \in SUBSET busy
      BY <2>1 DEF Busy
    <3> QED BY <3>1, FS_Subset DEF FirstCome
  <2>5. \A d \in Emitters : d \notin ahead'[d]
    BY <2>3 DEF FirstCome
  <2>6. ASSUME NEW d \in Emitters, NEW f \in ahead'[d]
        PROVE  Busy(f)' /\ on'[f] = on'[d] /\ ahead'[f] \subseteq ahead'[d]
    <3>1. d # c /\ f # c /\ f \in Emitters /\ f \in ahead[d]
      BY <2>3
    <3> QED BY <2>1, <2>3, <3>1 DEF FirstCome, Busy
  <2> QED BY <2>4, <2>5, <2>6 DEF FirstCome
<1>4. ASSUME Quiet PROVE FirstCome'
  <2>1. UNCHANGED <<on, ahead>> /\ \A d \in Emitters : Busy(d)' <=> Busy(d)
    BY <1>4 DEF Quiet
  <2>2. busy' = busy
    BY <2>1
  <2> QED BY <2>1, <2>2 DEF FirstCome
<1> QED BY <1>1, <1>2, <1>3, <1>4, Steps, QuietSteps

LEMMA ClaimsStep ==
    ASSUME TypeOK, Standing, Queue, Claims, [Next]_vars
    PROVE  Claims'
<1> USE DEF TypeOK, Claims, Dispatching, Ended
<1>1. ASSUME NEW c \in Emitters, Emit(c) PROVE Claims'
  <2>1. /\ at'[c] = "lock" /\ UNCHANGED <<seen, sent, cut>>
        /\ \A d \in Emitters \ {c} : at'[d] = at[d] /\ Current(d)' = Current(d)
    BY <1>1, EmitEffect DEF Others, history
  <2> QED BY <2>1
<1>2. ASSUME NEW c \in Emitters, EmitClaims(c) PROVE Claims'
  <2> DEFINE e == Current(c)
  <2>1. /\ e.inv \in Invocations /\ e.id \in Ids(e.inv)
        /\ \A i \in Invocations : e.id \in TerminalIds(i) => i = e.inv
    BY <1>2, ClaimEffect, EventFacts, TerminalIdsIn, IdsApart
  <2>2. /\ e.id \notin seen /\ seen' = seen \cup {e.id} /\ UNCHANGED cut
        /\ Current(c)' = e /\ Others(c) /\ at'[c] = "dispatch"
        /\ sent' = IF Ended(e.inv) THEN sent ELSE [sent EXCEPT ![e.inv] = @ \cup {e.id}]
    BY <1>2, ClaimEffect
  <2> HIDE DEF e
  <2>3. \A d \in Emitters : Dispatching(d)' => Current(d)'.id \in seen' \ cut'
    BY <2>2 DEF Others
  <2>4. \A d, f \in Emitters :
           Dispatching(d)' /\ Dispatching(f)' /\ Current(d)'.id = Current(f)'.id => d = f
    BY <2>2 DEF Others
  <2>5. \A i \in Invocations : sent'[i] \subseteq seen' \cap Ids(i)
    BY <2>1, <2>2
  <2>6. \A i \in Invocations : TerminalIds(i) \cap seen' # {} => TerminalIds(i) \cap sent'[i] # {}
    <3>1. TAKE i \in Invocations
    <3>2. CASE Ended(i)
      BY <2>1, <2>2, <3>2
    <3>3. CASE ~Ended(i)
      BY <2>1, <2>2, <3>3
    <3> QED BY <3>2, <3>3
  <2> QED BY <2>2, <2>3, <2>4, <2>5, <2>6
<1>3. ASSUME NEW c \in Emitters, Leaves(c) PROVE Claims'
  <2>1. at'[c] = "idle" /\ Others(c) /\ UNCHANGED <<seen, sent>>
    BY <1>3 DEF Leaves
  <2>2. UNCHANGED cut \/ (Dispatching(c) /\ cut' = cut \cup {Current(c).id})
    BY <1>3 DEF Leaves
  <2> QED BY <2>1, <2>2 DEF Others
<1>4. ASSUME Quiet PROVE Claims'
  BY <1>4 DEF Quiet, Busy
<1> QED BY <1>1, <1>2, <1>3, <1>4, Steps, QuietSteps

(* Who dispatches an event of an invocation up to its terminal event is    *)
(* alone in doing so.                                                      *)
LEMMA Alone ==
    ASSUME Queue, OneLock, NEW i \in Invocations, NEW c \in Emitters, InHand(c, i),
           NEW d \in Emitters, Dispatching(d), Current(d).inv = i
    PROVE  c = d
BY DEF Queue, OneLock, InHand, Busy, Dispatching

LEMMA OneLockStep ==
    ASSUME TypeOK, Standing, Queue, Claims, OneLock, [Next]_vars
    PROVE  OneLock'
<1> USE DEF TypeOK, InHand, Busy, Dispatching, Ended
<1>1. ASSUME NEW c \in Emitters, Emit(c) PROVE OneLock'
  <2> DEFINE j == Current(c).inv
  <2>1. /\ j \in Invocations /\ Current(c)' = Current(c) /\ at'[c] = "lock" /\ Others(c)
        /\ UNCHANGED <<seen, sent>>
    BY <1>1, EmitEffect, EventFacts DEF history
  <2>2. /\ on'[c] = locks'[j] /\ locks' = [locks EXCEPT ![j] = on'[c]]
        /\ locks[j] # << >> => on'[c] = locks[j]
    BY <1>1, EmitEffect
  <2>3. \A d \in Emitters \ {c} : Busy(d) => on[d] # << >>
    BY DEF Queue
  <2> SUFFICES ASSUME NEW i \in Invocations
      PROVE  \/ \A d \in Emitters : Busy(d)' /\ Current(d)'.inv = i => on'[d] = locks'[i]
             \/ Ended(i)' /\ \A d \in Emitters : ~InHand(d, i)'
    BY DEF OneLock
  <2>4. CASE Ended(i) /\ \A d \in Emitters : ~InHand(d, i)
    BY <2>1, <2>4 DEF Others
  <2>5. CASE \A d \in Emitters : Busy(d) /\ Current(d).inv = i => on[d] = locks[i]
    <3>1. \A d \in Emitters \ {c} :
             Busy(d)' /\ Current(d)'.inv = i => Busy(d) /\ Current(d).inv = i /\ on'[d] = on[d]
      BY <2>1 DEF Others
    <3>2. CASE i # j
      BY <2>1, <2>2, <2>5, <3>1, <3>2
    <3>3. CASE i = j /\ locks[j] # << >>
      BY <2>1, <2>2, <2>5, <3>1, <3>3
    <3>4. CASE i = j /\ locks[j] = << >>
      <4>1. \A d \in Emitters \ {c} : ~(Busy(d)' /\ Current(d)'.inv = i)
        BY <2>3, <2>5, <3>1, <3>4
      <4> QED BY <2>2, <3>4, <4>1
    <3> QED BY <3>2, <3>3, <3>4
  <2> QED BY <2>4, <2>5 DEF OneLock
<1>2. ASSUME NEW c \in Emitters, EmitClaims(c) PROVE OneLock'
  <2> DEFINE e == Current(c)
  <2>1. /\ e.id \notin seen /\ seen' = seen \cup {e.id} /\ UNCHANGED <<locks, on>>
        /\ Current(c)' = e /\ Others(c) /\ at[c] = "lock" /\ at'[c] = "dispatch"
        /\ sent' = IF Ended(e.inv) THEN sent ELSE [sent EXCEPT ![e.inv] = @ \cup {e.id}]
        /\ e.inv \in Invocations
    BY <1>2, ClaimEffect, EventFacts
  <2> HIDE DEF e
  <2> SUFFICES ASSUME NEW i \in Invocations
      PROVE  \/ \A d \in Emitters : Busy(d)' /\ Current(d)'.inv = i => on'[d] = locks'[i]
             \/ Ended(i)' /\ \A d \in Emitters : ~InHand(d, i)'
    BY DEF OneLock
  <2>2. CASE Ended(i) /\ \A d \in Emitters : ~InHand(d, i)
    <3>1. sent'[i] = sent[i] /\ e.id \notin sent[i]
      BY <2>1, <2>2 DEF Claims
    <3> QED BY <2>1, <2>2, <3>1 DEF Others
  <2>3. CASE \A d \in Emitters : Busy(d) /\ Current(d).inv = i => on[d] = locks[i]
    BY <2>1, <2>3 DEF Others, e
  <2> QED BY <2>2, <2>3 DEF OneLock
<1>3. ASSUME NEW c \in Emitters, Leaves(c) PROVE OneLock'
  <2> DEFINE j == Current(c).inv
  <2>1. at'[c] = "idle" /\ Others(c) /\ UNCHANGED <<seen, sent>>
    BY <1>3 DEF Leaves
  <2> SUFFICES ASSUME NEW i \in Invocations
      PROVE  \/ \A d \in Emitters : Busy(d)' /\ Current(d)'.inv = i => on'[d] = locks'[i]
             \/ Ended(i)' /\ \A d \in Emitters : ~InHand(d, i)'
    BY DEF OneLock
  <2>2. CASE Ended(i) /\ \A d \in Emitters : ~InHand(d, i)
    BY <2>1, <2>2 DEF Others
  <2>3. CASE /\ \A d \in Emitters : Busy(d) /\ Current(d).inv = i => on[d] = locks[i]
             /\ locks'[i] = locks[i]
    BY <2>1, <2>3 DEF Others
  <2>4. CASE /\ \A d \in Emitters : Busy(d) /\ Current(d).inv = i => on[d] = locks[i]
             /\ locks'[i] # locks[i]
    <3>1. j = i /\ Ended(i) /\ ahead[c] = {} /\ Busy(c)
      BY <1>3, <2>4 DEF Leaves, Holds
    <3>2. \A d \in Emitters : Dispatching(d) /\ Current(d).inv = i => d = c
      BY <2>4, <3>1 DEF Queue
    <3> QED BY <2>1, <3>1, <3>2 DEF Others
  <2> QED BY <2>2, <2>3, <2>4 DEF OneLock
<1>4. ASSUME Quiet PROVE OneLock'
  BY <1>4 DEF Quiet, OneLock
<1> QED BY <1>1, <1>2, <1>3, <1>4, Steps, QuietSteps

LEMMA EndLastStep ==
    ASSUME TypeOK, Standing, Queue, Claims, OneLock, EndLast, [Next]_vars
    PROVE  EndLast'
<1> USE DEF TypeOK, InHand, Dispatching, Ended, EndLast
<1>1. ASSUME NEW c \in Emitters, Emit(c) PROVE EndLast'
  <2>1. /\ at'[c] = "lock" /\ UNCHANGED <<seen, sent>>
        /\ \A d \in Emitters \ {c} : at'[d] = at[d] /\ Current(d)' = Current(d)
    BY <1>1, EmitEffect DEF Others, history
  <2> QED BY <2>1
<1>2. ASSUME NEW c \in Emitters, EmitClaims(c) PROVE EndLast'
  <2> DEFINE e == Current(c)
  <2>1. /\ e.id \notin seen /\ seen' = seen \cup {e.id} /\ UNCHANGED <<locks, on>>
        /\ Current(c)' = e /\ Others(c) /\ at[c] = "lock" /\ at'[c] = "dispatch" /\ ahead[c] = {}
        /\ sent' = IF Ended(e.inv) THEN sent ELSE [sent EXCEPT ![e.inv] = @ \cup {e.id}]
        /\ e.inv \in Invocations /\ e.id \in Ids(e.inv)
    BY <1>2, ClaimEffect, EventFacts
  <2>2. \A i \in Invocations : e.id \in TerminalIds(i) => i = e.inv
    BY <2>1, TerminalIdsIn, IdsApart
  <2> SUFFICES ASSUME NEW i \in Invocations, NEW d \in Emitters, Ended(i)', InHand(d, i)'
      PROVE  Current(d)'.id \in TerminalIds(i)
    OBVIOUS
  <2>3. CASE Ended(i)
    <3>1. sent'[i] = sent[i] /\ e.id \notin sent[i]
      BY <2>1, <2>3 DEF Claims
    <3> QED BY <2>1, <2>3, <3>1 DEF Others
  <2>4. CASE ~Ended(i)
    <3>1. e.id \in TerminalIds(i) /\ i = e.inv
      BY <2>1, <2>2, <2>4
    <3>2. d = c
      <4>1. \A f \in Emitters : Busy(f) /\ Current(f).inv = i => on[f] = locks[i]
        BY <2>4 DEF OneLock
      <4>2. ASSUME d # c PROVE FALSE
        <5>1. Dispatching(d) /\ Current(d).inv = i
          BY <2>1, <4>2 DEF Others
        <5>2. ahead[d] = {} /\ on[d] = on[c]
          BY <2>1, <3>1, <4>1, <5>1 DEF Queue, Busy
        <5> QED BY <2>1, <4>2, <5>1, <5>2 DEF Queue, Busy
      <4> QED BY <4>2
    <3> QED BY <2>1, <3>1, <3>2
  <2> QED BY <2>3, <2>4
<1>3. ASSUME NEW c \in Emitters, Leaves(c) PROVE EndLast'
  BY <1>3 DEF Leaves, Others
<1>4. ASSUME Quiet PROVE EndLast'
  BY <1>4 DEF Quiet, Busy
<1> QED BY <1>1, <1>2, <1>3, <1>4, Steps, QuietSteps

-----------------------------------------------------------------------------
(* Deliveries: what an emitter, a job and an observer know of each other   *)

(* c is past the observer o now, and where it was for the others.          *)
Passes(c, o) ==
    /\ ~ToDo(c, o)'
    /\ \A p \in Range(Bound) \ {o} : ToDo(c, p)' <=> ToDo(c, p)

SameToDo(c) == \A o \in Range(Bound) : ToDo(c, o)' <=> ToDo(c, o)

LEMMA OthersToDo ==
    ASSUME NEW c \in Emitters, Others(c)
    PROVE  \A d \in Emitters \ {c} :
              SameToDo(d) /\ (Handed(d)' <=> Handed(d)) /\ (Dispatching(d)' <=> Dispatching(d))
<1> SUFFICES ASSUME NEW d \in Emitters \ {c}
    PROVE  SameToDo(d) /\ (Handed(d)' <=> Handed(d)) /\ (Dispatching(d)' <=> Dispatching(d))
  OBVIOUS
<1>1. at'[d] = at[d] /\ obs'[d] = obs[d]
  BY DEF Others
<1> QED BY <1>1 DEF SameToDo, ToDo, Handed, Dispatching

LEMMA IgnoreEffect ==
    ASSUME TypeOK, NEW c \in Emitters, ObserverIgnores(c)
    PROVE  /\ \E o \in shut : Passes(c, o)
           /\ LangSmith \in Range(Bound) /\ Handed(c) => Handed(c)'
           /\ at'[c] = at[c]
           /\ UNCHANGED <<jobs, handled, failures, disorder, spans>>
<1>1. PICK o \in shut : AtObserver(c, o)
  BY DEF ObserverIgnores
<1>2. /\ at[c] = "dispatch" /\ obs[c] \in DOMAIN Bound /\ Bound[obs[c]] = o
      /\ obs'[c] = obs[c] + 1 /\ UNCHANGED <<at, jobs, handled, failures, disorder, spans>>
  BY <1>1 DEF ObserverIgnores, AtObserver, Observer, NextObserver, TypeOK, busVars, obsVars, history
<1>3. Rank(o) = obs[c] /\ obs[c] \in Nat
  BY <1>2, RankFacts
<1>4. \A p \in Range(Bound) \ {o} : Rank(p) \in Nat /\ Rank(p) # obs[c]
  BY <1>2, RankFacts
<1>5. ~ToDo(c, o)'
  BY <1>2, <1>3 DEF ToDo
<1>6. ASSUME NEW p \in Range(Bound) \ {o} PROVE ToDo(c, p)' <=> ToDo(c, p)
  BY <1>2, <1>3, <1>4 DEF ToDo
<1>7. LangSmith \in Range(Bound) /\ Handed(c) => Handed(c)'
  BY <1>2, <1>3, RankFacts DEF Handed
<1> QED BY <1>2, <1>5, <1>6, <1>7 DEF Passes

LEMMA ThreadEffect ==
    ASSUME TypeOK, NEW c \in Emitters, ToThread(c)
    PROVE  /\ SameToDo(c) /\ ~Handed(c) /\ Handed(c)' /\ at'[c] = "thread"
           /\ LangSmith \in Range(Bound) /\ LangSmith \notin shut /\ jobs' = jobs \cup {Current(c)}
           /\ UNCHANGED <<handled, failures, disorder, spans>>
<1>1. /\ at[c] = "dispatch" /\ obs[c] \in DOMAIN Bound /\ Bound[obs[c]] = LangSmith
      /\ at'[c] = "thread" /\ LangSmith \notin shut /\ jobs' = jobs \cup {Current(c)}
      /\ UNCHANGED <<obs, handled, failures, disorder, spans>>
  BY DEF ToThread, AtObserver, Observer, TypeOK, busVars, history
<1>2. LangSmith \in Range(Bound) /\ Rank(LangSmith) = obs[c] /\ obs[c] \in Nat
  BY <1>1, RankFacts
<1> QED BY <1>1, <1>2 DEF SameToDo, ToDo, Handed

(* Resumes, TimesOut                                                       *)
LEMMA MoveEffect ==
    ASSUME TypeOK, Standing, NEW c \in Emitters, Resumes(c) \/ TimesOut(c)
    PROVE  /\ Passes(c, LangSmith) /\ Handed(c)' /\ at'[c] = "dispatch"
           /\ LangSmith \in Range(Bound)
           /\ \/ at[c] = "answered" /\ ~ToDo(c, LangSmith) /\ UNCHANGED <<failures, jobs>>
              \/ /\ failures' = failures \cup {<<LangSmith, Current(c).inv>>}
                 /\ jobs' \in {jobs, jobs \ {Current(c)}}
           /\ UNCHANGED <<handled, disorder, spans>>
<1>1. /\ at[c] \in {"thread", "answered", "raised"}
      /\ at'[c] = "dispatch" /\ obs'[c] = obs[c] + 1 /\ UNCHANGED <<handled, disorder, spans>>
  BY DEF Resumes, TimesOut, NextObserver, TypeOK, obsVars, history
<1>2. obs[c] \in DOMAIN Bound /\ Bound[obs[c]] = LangSmith
  BY <1>1 DEF Standing, Observer
<1>3. \/ at[c] = "answered" /\ UNCHANGED <<failures, jobs>>
      \/ /\ failures' = failures \cup {<<LangSmith, Current(c).inv>>}
         /\ jobs' \in {jobs, jobs \ {Current(c)}}
  BY <1>2 DEF Resumes, TimesOut, DispatchFails, RecordFailure, Forsake, Observer, obsVars
<1>4. LangSmith \in Range(Bound) /\ Rank(LangSmith) = obs[c] /\ obs[c] \in Nat
  BY <1>2, RankFacts
<1>5. \A p \in Range(Bound) \ {LangSmith} : Rank(p) \in Nat /\ Rank(p) # obs[c]
  BY <1>2, RankFacts
<1>6. ~ToDo(c, LangSmith)' /\ Handed(c)'
  BY <1>1, <1>4 DEF ToDo, Handed
<1>7. ASSUME NEW p \in Range(Bound) \ {LangSmith} PROVE ToDo(c, p)' <=> ToDo(c, p)
  BY <1>1, <1>4, <1>5 DEF ToDo
<1>8. at[c] = "answered" => ~ToDo(c, LangSmith)
  BY <1>4 DEF ToDo
<1> QED BY <1>1, <1>3, <1>4, <1>6, <1>7, <1>8 DEF Passes

LEMMA TraceEffect ==
    ASSUME TypeOK, NEW c \in Emitters, Traces(c)
    PROVE  /\ Passes(c, OpenTelemetry) /\ ToDo(c, OpenTelemetry) /\ at'[c] = at[c]
           /\ LangSmith \in Range(Bound) /\ Handed(c) => Handed(c)'
           /\ OpenTelemetry \in Range(Bound) /\ OpenTelemetry \notin shut
           /\ \/ /\ spans' = OpenTelemetryHandles(spans, Current(c))
                 /\ Observes(OpenTelemetry, Current(c)) /\ UNCHANGED failures
              \/ /\ failures' = failures \cup {<<OpenTelemetry, Current(c).inv>>}
                 /\ spans' \in OpenTelemetryRaises(spans, Current(c)) /\ UNCHANGED <<handled, disorder>>
           /\ UNCHANGED jobs
<1>1. /\ at[c] = "dispatch" /\ obs[c] \in DOMAIN Bound /\ Bound[obs[c]] = OpenTelemetry
      /\ obs'[c] = obs[c] + 1 /\ OpenTelemetry \notin shut /\ UNCHANGED <<at, jobs>>
  BY DEF Traces, AtObserver, Observer, NextObserver, TypeOK
<1>2. \/ /\ spans' = OpenTelemetryHandles(spans, Current(c))
         /\ Observes(OpenTelemetry, Current(c)) /\ UNCHANGED failures
      \/ /\ failures' = failures \cup {<<OpenTelemetry, Current(c).inv>>}
         /\ spans' \in OpenTelemetryRaises(spans, Current(c)) /\ UNCHANGED <<handled, disorder>>
  BY <1>1 DEF Traces, DispatchFails, RecordFailure, Observer
<1>3. OpenTelemetry \in Range(Bound) /\ Rank(OpenTelemetry) = obs[c] /\ obs[c] \in Nat
  BY <1>1, RankFacts
<1>4. \A p \in Range(Bound) \ {OpenTelemetry} : Rank(p) \in Nat /\ Rank(p) # obs[c]
  BY <1>1, RankFacts
<1>5. ~ToDo(c, OpenTelemetry)' /\ ToDo(c, OpenTelemetry)
  BY <1>1, <1>3 DEF ToDo
<1>6. ASSUME NEW p \in Range(Bound) \ {OpenTelemetry} PROVE ToDo(c, p)' <=> ToDo(c, p)
  BY <1>1, <1>3, <1>4 DEF ToDo
<1>7. LangSmith \in Range(Bound) /\ Handed(c) => Handed(c)'
  BY <1>1, <1>3, RankFacts DEF Handed
<1> QED BY <1>1, <1>2, <1>3, <1>5, <1>6, <1>7 DEF Passes

(* Only the emitters that await the job notice.                            *)
LEMMA HearEffect ==
    ASSUME TypeOK, Standing, NEW e \in jobs, Hears(e), NEW d \in Emitters
    PROVE  /\ Dispatching(d)' <=> Dispatching(d)
           /\ Current(d).id # e.id => SameToDo(d) /\ (Handed(d)' <=> Handed(d)) /\ at'[d] = at[d]
           /\ at[d] # "thread" => SameToDo(d)
           /\ at[d] = "thread" /\ Current(d).id = e.id /\ ThreadHandles(e) =>
                  Passes(d, LangSmith) /\ ToDo(d, LangSmith)
           /\ ~ThreadHandles(e) => SameToDo(d)
<1>1. /\ at'[d] = (IF at[d] = "thread" /\ Current(d).id = e.id
                   THEN IF ThreadHandles(e) THEN "answered" ELSE "raised"
                   ELSE at[d])
      /\ obs'[d] = obs[d] /\ obs[d] \in Nat
  BY HearFrame DEF TypeOK
<1>2. CASE at[d] = "thread" /\ Current(d).id = e.id
  <2>1. obs[d] \in DOMAIN Bound /\ Bound[obs[d]] = LangSmith
    BY <1>2 DEF Standing, Observer
  <2>2. Rank(LangSmith) = obs[d]
    BY <2>1, RankFacts
  <2>3. \A p \in Range(Bound) \ {LangSmith} : Rank(p) \in Nat /\ Rank(p) # obs[d]
    BY <2>1, RankFacts
  <2>4. CASE ThreadHandles(e)
    <3>1. ~ToDo(d, LangSmith)' /\ ToDo(d, LangSmith)
      BY <1>1, <1>2, <2>2, <2>4 DEF ToDo
    <3>2. ASSUME NEW p \in Range(Bound) \ {LangSmith} PROVE ToDo(d, p)' <=> ToDo(d, p)
      BY <1>1, <1>2, <2>3, <2>4 DEF ToDo
    <3> QED BY <1>1, <1>2, <2>4, <3>1, <3>2 DEF Passes, Dispatching
  <2>5. CASE ~ThreadHandles(e)
    BY <1>1, <1>2, <2>5 DEF SameToDo, ToDo, Dispatching
  <2> QED BY <2>4, <2>5
<1>3. CASE ~(at[d] = "thread" /\ Current(d).id = e.id)
  BY <1>1, <1>3 DEF SameToDo, ToDo, Handed, Dispatching
<1> QED BY <1>2, <1>3

LEMMA ToDoFacts ==
    ASSUME TypeOK, NEW c \in Emitters
    PROVE  /\ \A o : ToDo(c, o) => Dispatching(c)
           /\ LangSmith \in Range(Bound) /\ Handed(c) /\ ToDo(c, LangSmith) => at[c] = "thread"
           /\ \A o : at'[c] \in {"idle", "lock"} => ~ToDo(c, o)'
BY RankFacts DEF ToDo, Handed, Dispatching, TypeOK

LEMMA ObservesEffect ==
    ASSUME TypeOK, NEW o \in Range(Bound), NEW e, Observes(o, e)
    PROVE  /\ handled'[o] = handled[o] \cup {e.id}
           /\ \A p \in Range(Bound) \ {o} : handled'[p] = handled[p]
BY DEF Observes, TypeOK

LEMMA DeliveriesStep ==
    ASSUME TypeOK, Standing, Queue, Claims, Deliveries, [Next]_vars
    PROVE  Deliveries'
<1>1. ASSUME NEW c \in Emitters, Emit(c) PROVE Deliveries'
  <2>1. at'[c] = "lock" /\ Others(c) /\ UNCHANGED <<seen, jobs, handled>>
    BY <1>1, EmitEffect DEF obsVars, history
  <2>2. \A o : ~Dispatching(c)' /\ ~ToDo(c, o)'
    BY <2>1, ToDoFacts DEF Dispatching
  <2>3. \A d \in Emitters \ {c} : /\ SameToDo(d) /\ (Handed(d)' <=> Handed(d))
                                /\ (Dispatching(d)' <=> Dispatching(d)) /\ Current(d)' = Current(d)
    BY <2>1, OthersToDo DEF Others
  <2> QED BY <2>1, <2>2, <2>3 DEF Deliveries, SameToDo, IsEvent
<1>2. ASSUME NEW c \in Emitters, EmitClaims(c) PROVE Deliveries'
  <2>1. /\ Current(c).id \notin seen /\ seen' = seen \cup {Current(c).id} /\ Current(c)' = Current(c)
        /\ Others(c) /\ UNCHANGED <<jobs, handled>>
    BY <1>2, ClaimEffect DEF obsVars
  <2>2. \A d \in Emitters \ {c} : /\ SameToDo(d) /\ (Handed(d)' <=> Handed(d))
                                /\ (Dispatching(d)' <=> Dispatching(d)) /\ Current(d)' = Current(d)
    BY <2>1, OthersToDo DEF Others
  <2> QED BY <2>1, <2>2 DEF Deliveries, SameToDo, IsEvent
<1>3. ASSUME NEW c \in Emitters, Leaves(c) PROVE Deliveries'
  <2>1. at'[c] = "idle" /\ Others(c) /\ UNCHANGED <<seen, handled>> /\ jobs' \subseteq jobs
    BY <1>3 DEF Leaves
  <2>2. \A o : ~Dispatching(c)' /\ ~ToDo(c, o)'
    BY <2>1, ToDoFacts DEF Dispatching
  <2>3. \A d \in Emitters \ {c} : /\ SameToDo(d) /\ (Handed(d)' <=> Handed(d))
                                /\ (Dispatching(d)' <=> Dispatching(d)) /\ Current(d)' = Current(d)
    BY <2>1, OthersToDo DEF Others
  <2> QED BY <2>1, <2>2, <2>3 DEF Deliveries, SameToDo, IsEvent
<1>4. ASSUME UNCHANGED <<at, obs, jobs, handled, seen, aborted>>,
             \A d \in Emitters : Busy(d) => pos'[d] = pos[d]
      PROVE  Deliveries'
  <2>1. \A d \in Emitters : /\ SameToDo(d) /\ (Handed(d)' <=> Handed(d))
                          /\ (Dispatching(d)' <=> Dispatching(d))
    BY <1>4 DEF SameToDo, ToDo, Handed, Dispatching
  <2>2. \A d \in Emitters : Dispatching(d) => Current(d)' = Current(d)
    BY <1>4, SameCurrent DEF Dispatching, Busy
  <2> QED BY <1>4, <2>1, <2>2, ToDoFacts DEF Deliveries, SameToDo, IsEvent
<1>5. ASSUME UNCHANGED vars \/ Closes PROVE Deliveries'
  BY <1>4, <1>5, CloseFrame DEF vars, busVars, emitVars, obsVars, history
<1>6. ASSUME NEW c \in Emitters, EmitClosed(c) PROVE Deliveries'
  BY <1>4, <1>6, SkipFrame DEF Others, obsVars, history
<1>7. ASSUME NEW c \in Emitters, Delivers(c) PROVE Deliveries'
  <2>1. /\ Dispatching(c) /\ Dispatching(c)' /\ Others(c) /\ Current(c)' = Current(c)
        /\ UNCHANGED seen
    BY <1>7, DeliverFrame
  <2>2. \A d \in Emitters \ {c} : /\ SameToDo(d) /\ (Handed(d)' <=> Handed(d))
                                /\ (Dispatching(d)' <=> Dispatching(d)) /\ Current(d)' = Current(d)
    BY <2>1, OthersToDo DEF Others
  <2>3. IsEvent(Current(c)) /\ Current(c).id \in seen
    BY <2>1, CurrentEvent DEF Claims, Standing, Busy, Dispatching
  <2>4. \A d \in Emitters : Dispatching(d)' /\ Current(d)'.id = Current(c).id => d = c
    BY <2>1, <2>2 DEF Claims
  <2>5. ASSUME jobs' \subseteq jobs, UNCHANGED handled,
               LangSmith \in Range(Bound) /\ Handed(c) => Handed(c)',
               \A o \in Range(Bound) : ToDo(c, o)' => ToDo(c, o)
        PROVE  Deliveries'
    BY <2>1, <2>2, <2>5 DEF Deliveries, SameToDo, IsEvent
  <2>6. CASE ObserverIgnores(c)
    BY <2>5, <2>6, IgnoreEffect DEF Passes
  <2>7. CASE ToThread(c)
    <3>1. /\ SameToDo(c) /\ ~Handed(c) /\ Handed(c)' /\ UNCHANGED handled
          /\ LangSmith \in Range(Bound) /\ jobs' = jobs \cup {Current(c)}
      BY <2>7, ThreadEffect
    <3>2. \A f \in jobs : f.id # Current(c).id
      BY <2>1, <3>1 DEF Deliveries
    <3>3. \A f \in jobs' : IsEvent(f) /\ f.id \in seen'
      BY <2>1, <2>3, <3>1 DEF Deliveries
    <3>4. \A f, g \in jobs' : f.id = g.id => f = g
      BY <3>1, <3>2 DEF Deliveries
    <3>5. \A f \in jobs', d \in Emitters : Dispatching(d)' /\ Current(d)'.id = f.id => Handed(d)'
      <4>1. TAKE f \in jobs', d \in Emitters
      <4>2. CASE d = c
        BY <3>1, <4>2
      <4>3. CASE d # c
        BY <2>1, <2>2, <2>4, <3>1, <4>3 DEF Deliveries
      <4> QED BY <4>2, <4>3
    <3>6. \A d \in Emitters, o \in Range(Bound) : ToDo(d, o)' => Current(d)'.id \notin handled'[o]
      BY <2>1, <2>2, <3>1 DEF Deliveries, SameToDo
    <3>7. \A o \in Range(Bound) : handled'[o] \subseteq seen'
      BY <2>1, <3>1 DEF Deliveries
    <3> QED BY <3>1, <3>3, <3>4, <3>5, <3>6, <3>7 DEF Deliveries, IsEvent
  <2>8. CASE Resumes(c) \/ TimesOut(c)
    <3>1. Passes(c, LangSmith) /\ Handed(c)' /\ jobs' \subseteq jobs /\ UNCHANGED handled
      BY <2>8, MoveEffect
    <3> QED BY <2>5, <3>1 DEF Passes
  <2>9. CASE Traces(c)
    <3>1. /\ Passes(c, OpenTelemetry) /\ UNCHANGED jobs /\ OpenTelemetry \in Range(Bound)
          /\ LangSmith \in Range(Bound) /\ Handed(c) => Handed(c)'
          /\ Observes(OpenTelemetry, Current(c)) \/ UNCHANGED handled
      BY <2>9, TraceEffect
    <3>2. CASE UNCHANGED handled
      BY <2>5, <3>1, <3>2 DEF Passes
    <3>3. CASE Observes(OpenTelemetry, Current(c))
      <4>1. /\ handled'[OpenTelemetry] = handled[OpenTelemetry] \cup {Current(c).id}
            /\ \A p \in Range(Bound) \ {OpenTelemetry} : handled'[p] = handled[p]
        BY <3>1, <3>3, ObservesEffect
      <4>2. \A o \in Range(Bound) : handled'[o] \subseteq seen'
        BY <2>1, <2>3, <4>1 DEF Deliveries
      <4>3. \A d \in Emitters, o \in Range(Bound) : ToDo(d, o)' => Current(d)'.id \notin handled'[o]
        <5>1. TAKE d \in Emitters, o \in Range(Bound)
        <5>2. HAVE ToDo(d, o)'
        <5>3. ToDo(d, o) /\ Dispatching(d)' /\ Current(d)' = Current(d)
          BY <2>1, <2>2, <3>1, <5>2, ToDoFacts DEF Passes, SameToDo
        <5>4. d = c => o # OpenTelemetry
          BY <3>1, <5>2 DEF Passes
        <5> QED BY <2>4, <4>1, <5>3, <5>4 DEF Deliveries
      <4>4. \A f \in jobs', d \in Emitters : Dispatching(d)' /\ Current(d)'.id = f.id => Handed(d)'
        BY <2>1, <2>2, <3>1 DEF Deliveries
      <4> QED BY <2>1, <3>1, <4>2, <4>3, <4>4 DEF Deliveries, IsEvent
    <3> QED BY <3>1, <3>2, <3>3
  <2> QED BY <1>7, <2>6, <2>7, <2>8, <2>9 DEF Delivers
<1>8. ASSUME NEW e \in jobs, Hears(e) PROVE Deliveries'
  <2>1. /\ \A d \in Emitters : Current(d)' = Current(d)
        /\ jobs' = jobs \ {e} /\ UNCHANGED seen /\ LangSmith \in Range(Bound)
    BY <1>8, HearFrame DEF Deliveries
  <2>2. \A d \in Emitters :
           /\ Dispatching(d)' <=> Dispatching(d)
           /\ Current(d).id # e.id => SameToDo(d) /\ (Handed(d)' <=> Handed(d)) /\ at'[d] = at[d]
           /\ at[d] # "thread" => SameToDo(d)
           /\ at[d] = "thread" /\ Current(d).id = e.id /\ ThreadHandles(e) =>
                  Passes(d, LangSmith) /\ ToDo(d, LangSmith)
           /\ ~ThreadHandles(e) => SameToDo(d)
    BY <1>8, HearEffect
  <2>3. \A f \in jobs', d \in Emitters : Dispatching(d)' /\ Current(d)'.id = f.id => Handed(d)'
    BY <2>1, <2>2 DEF Deliveries
  <2>4. /\ \A o \in Range(Bound) : handled'[o] \subseteq seen'
        /\ \A d \in Emitters, o \in Range(Bound) : ToDo(d, o)' => Current(d)'.id \notin handled'[o]
    <3>1. CASE ~ThreadHandles(e)
      <4>1. UNCHANGED handled
        BY <1>8, <3>1 DEF Hears, ThreadRaises, history
      <4> QED BY <2>1, <2>2, <3>1, <4>1 DEF Deliveries, SameToDo
    <3>2. CASE ThreadHandles(e)
      <4>1. /\ handled'[LangSmith] = handled[LangSmith] \cup {e.id}
            /\ \A p \in Range(Bound) \ {LangSmith} : handled'[p] = handled[p]
        BY <2>1, <3>2, ObservesEffect DEF ThreadHandles
      <4>2. \A o \in Range(Bound) : handled'[o] \subseteq seen'
        BY <2>1, <4>1 DEF Deliveries
      <4>3. ASSUME NEW d \in Emitters, NEW o \in Range(Bound), ToDo(d, o)'
            PROVE  Current(d)'.id \notin handled'[o]
        <5>1. ToDo(d, o) /\ Dispatching(d)
          BY <2>2, <3>2, <4>3, ToDoFacts DEF SameToDo, Passes
        <5>2. Current(d).id \notin handled[o]
          BY <5>1 DEF Deliveries
        <5>3. ASSUME o = LangSmith, Current(d).id = e.id PROVE FALSE
          <6>1. at[d] = "thread"
            BY <2>1, <5>1, <5>3, ToDoFacts DEF Deliveries
          <6> QED BY <2>2, <3>2, <4>3, <5>3, <6>1 DEF Passes
        <5> QED BY <2>1, <4>1, <5>2, <5>3
      <4> QED BY <4>2, <4>3
    <3> QED BY <3>1, <3>2
  <2> QED BY <2>1, <2>3, <2>4 DEF Deliveries, IsEvent
<1> QED BY <1>1, <1>2, <1>3, <1>5, <1>6, <1>7, <1>8, Steps

-----------------------------------------------------------------------------
(* Tracked: nothing is lost on the way to an observer that is fine         *)

(* A failure is not forgotten, a closed observer is not opened again.      *)
LEMMA FineStep ==
    ASSUME TypeOK, Standing, Queue, Claims, [Next]_vars
    PROVE  /\ failures \subseteq failures' /\ shut \subseteq shut'
           /\ \A o, i : Fine(o, i)' => Fine(o, i)
<1>1. failures \subseteq failures' /\ shut \subseteq shut'
  <2>1. ASSUME NEW c \in Emitters, Emit(c) PROVE UNCHANGED <<failures, shut>>
    BY <2>1 DEF Emit, obsVars
  <2>2. ASSUME NEW c \in Emitters, EmitClaims(c) PROVE UNCHANGED <<failures, shut>>
    BY <2>2 DEF EmitClaims, obsVars
  <2>3. ASSUME NEW c \in Emitters, Leaves(c) PROVE UNCHANGED <<failures, shut>>
    BY <2>3 DEF Leaves
  <2>4. CASE UNCHANGED vars
    BY <2>4 DEF vars, busVars, obsVars
  <2>5. ASSUME Closes PROVE failures \subseteq failures' /\ shut \subseteq shut'
    BY <2>5 DEF Closes, BusCloses, FlushObserver, CloseObserver, BusClosed, BusCloseCancelled,
                LifecycleFails, RecordFailure, busVars, obsVars
  <2>6. ASSUME NEW c \in Emitters, Delivers(c) PROVE failures \subseteq failures' /\ UNCHANGED shut
    <3>1. UNCHANGED shut
      BY <2>6, DeliverFrame
    <3> QED BY <2>6, <3>1, IgnoreEffect, ThreadEffect, MoveEffect, TraceEffect DEF Delivers
  <2>7. ASSUME NEW c \in Emitters, EmitClosed(c) PROVE UNCHANGED <<failures, shut>>
    BY <2>7 DEF EmitClosed, busVars, obsVars
  <2>8. ASSUME NEW e \in jobs, Hears(e) PROVE UNCHANGED <<failures, shut>>
    BY <2>8, HearFrame
  <2> QED BY <2>1, <2>2, <2>3, <2>4, <2>5, <2>6, <2>7, <2>8, Steps
<1> QED BY <1>1 DEF Fine

(* What o has yet to handle of i.                                          *)
Pending(o, i) == sent[i] \ (cut \cup handled[o])

TrackedFor(o, i) ==
    /\ \A x \in Pending(o, i) : \E c \in Emitters : InHand(c, i) /\ Current(c).id = x /\ ToDo(c, o)
    /\ <<o, i>> \notin disorder
    /\ o = LangSmith => \A e \in jobs : e.id \in sent[i] \ cut =>
          \E c \in Emitters : at[c] = "thread" /\ Current(c).id = e.id

LEMMA TrackedIs == Tracked <=> \A o \in Range(Bound), i \in Invocations : Fine(o, i) => TrackedFor(o, i)
BY DEF Tracked, TrackedFor, Pending

(* The emitter that has an id of an invocation in hand.                    *)
LEMMA HasInHand ==
    ASSUME Standing, Claims, NEW c \in Emitters, Dispatching(c),
           NEW i \in Invocations, Current(c).id \in sent[i]
    PROVE  InHand(c, i)
<1>1. IsEvent(Current(c)) /\ Current(c).id \in Ids(i)
  BY CurrentEvent DEF Standing, Claims, Busy, Dispatching
<1> QED BY <1>1, EventFacts, IdsApart DEF InHand

(* It is all there is to handle for an observer that it has not passed.    *)
LEMMA PendingOne ==
    ASSUME Queue, Claims, OneLock, Deliveries, Tracked, NEW o \in Range(Bound), NEW i \in Invocations,
           Fine(o, i), NEW c \in Emitters, InHand(c, i), ToDo(c, o)
    PROVE  Pending(o, i) = {Current(c).id}
<1>1. Current(c).id \in Pending(o, i)
  BY DEF InHand, Claims, Deliveries, Pending
<1>2. ASSUME NEW x \in Pending(o, i) PROVE x = Current(c).id
  <2>1. PICK d \in Emitters : InHand(d, i) /\ Current(d).id = x
    BY TrackedIs DEF TrackedFor
  <2>2. c = d
    BY <2>1, Alone DEF InHand
  <2> QED BY <2>1, <2>2
<1> QED BY <1>1, <1>2

(* Handled in its turn, an event puts nothing out of order.                *)
LEMMA ObservesInOrder ==
    ASSUME TypeOK, Queue, Claims, OneLock, Deliveries, Tracked, NEW o \in Range(Bound),
           NEW e, IsEvent(e), Observes(o, e), NEW i \in Invocations, Fine(o, i),
           e.id \in sent[i] \ cut => \E c \in Emitters : InHand(c, i) /\ ToDo(c, o) /\ Current(c).id = e.id
    PROVE  <<o, i>> \notin disorder'
<1>1. <<o, i>> \notin disorder
  BY TrackedIs DEF TrackedFor
<1>2. disorder' = IF e.id \in sent[e.inv] \ cut /\ sent[e.inv] \ (handled[o] \cup cut) # {e.id}
                  THEN disorder \cup {<<o, e.inv>>} ELSE disorder
  BY DEF Observes
<1>3. ASSUME e.inv = i, e.id \in sent[i] \ cut PROVE sent[i] \ (handled[o] \cup cut) = {e.id}
  <2>1. PICK c \in Emitters : InHand(c, i) /\ ToDo(c, o) /\ Current(c).id = e.id
    BY <1>3
  <2> QED BY <2>1, PendingOne DEF Pending
<1> QED BY <1>1, <1>2, <1>3

(* Nothing that an observer tracks changes.                                *)
LEMMA TrackedFrame ==
    ASSUME NEW o \in Range(Bound), NEW i \in Invocations, TrackedFor(o, i),
           UNCHANGED <<sent, cut, handled, disorder, jobs>>,
           \A d \in Emitters : Dispatching(d) =>
               at'[d] = at[d] /\ obs'[d] = obs[d] /\ Current(d)' = Current(d)
    PROVE  TrackedFor(o, i)'
<1>1. \A d \in Emitters : Dispatching(d) => Dispatching(d)' /\ (ToDo(d, o)' <=> ToDo(d, o))
  BY DEF Dispatching, ToDo
<1>2. \A d \in Emitters : InHand(d, i) => InHand(d, i)' /\ Current(d)' = Current(d)
  BY <1>1 DEF InHand
<1>3. \A d \in Emitters : at[d] = "thread" => at'[d] = "thread" /\ Current(d)' = Current(d)
  BY DEF Dispatching
<1>4. Pending(o, i)' = Pending(o, i)
  BY DEF Pending
<1>5. \A x \in Pending(o, i)' :
         \E d \in Emitters : InHand(d, i)' /\ Current(d)'.id = x /\ ToDo(d, o)'
  <2>1. TAKE x \in Pending(o, i)'
  <2>2. PICK d \in Emitters : InHand(d, i) /\ Current(d).id = x /\ ToDo(d, o)
    BY <1>4 DEF TrackedFor
  <2> QED BY <1>1, <1>2, <2>2 DEF InHand
<1> QED BY <1>3, <1>5 DEF TrackedFor

(* The delivery steps, for an observer o that is fine after the step.      *)
LEMMA TrackedDelivers ==
    ASSUME TypeOK, Standing, Queue, Claims, OneLock, Deliveries, Tracked,
           NEW c \in Emitters, Delivers(c), NEW o \in Range(Bound), NEW i \in Invocations,
           Fine(o, i), Fine(o, i)', TrackedFor(o, i)
    PROVE  TrackedFor(o, i)'
<1>1. /\ Dispatching(c) /\ Dispatching(c)' /\ Others(c) /\ Current(c)' = Current(c)
      /\ UNCHANGED <<sent, cut, shut>>
  BY DeliverFrame
<1>2. \A d \in Emitters \ {c} :
         /\ at'[d] = at[d] /\ (ToDo(d, o)' <=> ToDo(d, o)) /\ (Dispatching(d)' <=> Dispatching(d))
         /\ Current(d)' = Current(d)
  BY <1>1, OthersToDo DEF Others, SameToDo
<1>3. \A d \in Emitters : (InHand(d, i)' <=> InHand(d, i)) /\ Current(d)' = Current(d)
  BY <1>1, <1>2 DEF InHand
<1>4. IsEvent(Current(c)) /\ Current(c).inv \in Invocations /\ Current(c).id \in Ids(Current(c).inv)
  BY <1>1, CurrentEvent, EventFacts DEF Standing, Busy, Dispatching
<1>5. Current(c).id \in sent[i] => InHand(c, i)
  BY <1>1, HasInHand
(* Nothing is handled, and c is where it was for o, or has nothing of i.   *)
<1>6. ASSUME UNCHANGED <<handled, disorder>>, jobs' \subseteq jobs,
             InHand(c, i) => (ToDo(c, o) => ToDo(c, o)') /\ (o = LangSmith => at'[c] = at[c])
      PROVE  TrackedFor(o, i)'
  <2>1. Pending(o, i)' = Pending(o, i)
    BY <1>1, <1>6 DEF Pending
  <2>2. \A x \in Pending(o, i)' :
           \E d \in Emitters : InHand(d, i)' /\ Current(d)'.id = x /\ ToDo(d, o)'
    <3>1. TAKE x \in Pending(o, i)'
    <3>2. PICK d \in Emitters : InHand(d, i) /\ Current(d).id = x /\ ToDo(d, o)
      BY <2>1 DEF TrackedFor
    <3> QED BY <1>2, <1>3, <1>6, <3>2
  <2>3. o = LangSmith => \A f \in jobs' : f.id \in sent'[i] \ cut' =>
            \E d \in Emitters : at'[d] = "thread" /\ Current(d)'.id = f.id
    <3>1. HAVE o = LangSmith
    <3>2. TAKE f \in jobs'
    <3>3. HAVE f.id \in sent'[i] \ cut'
    <3>4. PICK d \in Emitters : at[d] = "thread" /\ Current(d).id = f.id
      BY <1>1, <1>6, <3>1, <3>3 DEF TrackedFor
    <3>5. d = c => InHand(c, i)
      BY <1>1, <1>5, <3>3, <3>4
    <3> QED BY <1>2, <1>3, <1>6, <3>1, <3>4, <3>5
  <2> QED BY <1>6, <2>2, <2>3 DEF TrackedFor
<1>7. CASE ObserverIgnores(c)
  <2>1. PICK p \in shut : Passes(c, p)
    BY <1>7, IgnoreEffect
  <2>2. o # p
    BY <1>1, <2>1 DEF Fine
  <2> QED BY <1>6, <1>7, <2>1, <2>2, IgnoreEffect DEF Passes
<1>8. CASE ToThread(c)
  <2>1. /\ SameToDo(c) /\ at'[c] = "thread" /\ jobs' = jobs \cup {Current(c)}
        /\ UNCHANGED <<handled, disorder>>
    BY <1>8, ThreadEffect
  <2>2. Pending(o, i)' = Pending(o, i)
    BY <1>1, <2>1 DEF Pending
  <2>3. \A x \in Pending(o, i)' :
           \E d \in Emitters : InHand(d, i)' /\ Current(d)'.id = x /\ ToDo(d, o)'
    BY <1>2, <1>3, <2>1, <2>2 DEF TrackedFor, SameToDo
  <2>4. ASSUME o = LangSmith, NEW f \in jobs', f.id \in sent'[i] \ cut'
        PROVE  \E d \in Emitters : at'[d] = "thread" /\ Current(d)'.id = f.id
    <3>1. CASE f = Current(c)
      BY <1>3, <2>1, <3>1
    <3>2. CASE f \in jobs
      <4>1. PICK d \in Emitters : at[d] = "thread" /\ Current(d).id = f.id
        BY <1>1, <2>4, <3>2 DEF TrackedFor
      <4> QED BY <1>2, <1>3, <2>1, <4>1
    <3> QED BY <2>1, <3>1, <3>2
  <2> QED BY <2>1, <2>3, <2>4 DEF TrackedFor
<1>9. CASE Resumes(c) \/ TimesOut(c)
  <2>1. /\ Passes(c, LangSmith) /\ jobs' \subseteq jobs /\ UNCHANGED <<handled, disorder>>
        /\ \/ at[c] = "answered" /\ ~ToDo(c, LangSmith) /\ UNCHANGED <<failures, jobs>>
           \/ <<LangSmith, Current(c).inv>> \in failures'
    BY <1>9, MoveEffect
  <2>2. CASE o # LangSmith \/ ~InHand(c, i)
    BY <1>6, <2>1, <2>2 DEF Passes
  <2>3. CASE o = LangSmith /\ InHand(c, i)
    <3>1. at[c] = "answered" /\ ~ToDo(c, LangSmith) /\ UNCHANGED jobs
      BY <2>1, <2>3 DEF Fine, InHand
    <3>2. Pending(o, i)' = Pending(o, i)
      BY <1>1, <2>1 DEF Pending
    <3>3. \A x \in Pending(o, i)' :
             \E d \in Emitters : InHand(d, i)' /\ Current(d)'.id = x /\ ToDo(d, o)'
      BY <1>2, <1>3, <2>3, <3>1, <3>2 DEF TrackedFor
    <3>4. ASSUME NEW f \in jobs', f.id \in sent'[i] \ cut'
          PROVE  \E d \in Emitters : at'[d] = "thread" /\ Current(d)'.id = f.id
      <4>1. PICK d \in Emitters : at[d] = "thread" /\ Current(d).id = f.id
        BY <1>1, <2>3, <3>1, <3>4 DEF TrackedFor
      <4> QED BY <1>2, <1>3, <3>1, <4>1
    <3> QED BY <2>1, <3>3, <3>4 DEF TrackedFor
  <2> QED BY <2>2, <2>3
<1>10. CASE Traces(c)
  <2>1. /\ Passes(c, OpenTelemetry) /\ ToDo(c, OpenTelemetry) /\ at'[c] = at[c] /\ UNCHANGED jobs
        /\ OpenTelemetry \in Range(Bound)
        /\ \/ Observes(OpenTelemetry, Current(c))
           \/ <<OpenTelemetry, Current(c).inv>> \in failures' /\ UNCHANGED <<handled, disorder>>
    BY <1>10, TraceEffect
  <2>2. CASE UNCHANGED <<handled, disorder>> /\ (o # OpenTelemetry \/ ~InHand(c, i))
    BY <1>6, <2>1, <2>2 DEF Passes
  <2>3. CASE Observes(OpenTelemetry, Current(c))
    <3>1. /\ handled'[OpenTelemetry] = handled[OpenTelemetry] \cup {Current(c).id}
          /\ \A p \in Range(Bound) \ {OpenTelemetry} : handled'[p] = handled[p]
      BY <2>1, <2>3, ObservesEffect
    <3>2. \A x \in Pending(o, i)' :
             \E d \in Emitters : InHand(d, i)' /\ Current(d)'.id = x /\ ToDo(d, o)'
      <4>1. TAKE x \in Pending(o, i)'
      <4>2. x \in Pending(o, i) /\ (o = OpenTelemetry => x # Current(c).id)
        BY <1>1, <3>1 DEF Pending
      <4>3. PICK d \in Emitters : InHand(d, i) /\ Current(d).id = x /\ ToDo(d, o)
        BY <4>2 DEF TrackedFor
      <4> QED BY <1>2, <1>3, <2>1, <4>2, <4>3 DEF Passes
    <3>3. <<o, i>> \notin disorder'
      <4>1. CASE o = OpenTelemetry
        BY <1>4, <1>5, <2>1, <2>3, <4>1, ObservesInOrder
      <4>2. CASE o # OpenTelemetry
        BY <2>3, <4>2 DEF Observes, TrackedFor
      <4> QED BY <4>1, <4>2
    <3>4. o = LangSmith => \A f \in jobs' : f.id \in sent'[i] \ cut' =>
              \E d \in Emitters : at'[d] = "thread" /\ Current(d)'.id = f.id
      BY <1>1, <1>2, <1>3, <2>1 DEF TrackedFor
    <3> QED BY <3>2, <3>3, <3>4 DEF TrackedFor
  <2> QED BY <2>1, <2>2, <2>3 DEF Fine, InHand
<1> QED BY <1>7, <1>8, <1>9, <1>10 DEF Delivers

LEMMA TrackedClaims ==
    ASSUME TypeOK, Standing, Deliveries, NEW c \in Emitters, EmitClaims(c),
           NEW o \in Range(Bound), NEW i \in Invocations, TrackedFor(o, i)
    PROVE  TrackedFor(o, i)'
<1> DEFINE e == Current(c)
<1>1. /\ at[c] = "lock" /\ at'[c] = "dispatch" /\ obs[c] = 1 /\ obs'[c] = 1
      /\ IsEvent(e) /\ Current(c)' = e /\ Others(c) /\ e.id \notin seen
      /\ sent' = (IF Ended(e.inv) THEN sent ELSE [sent EXCEPT ![e.inv] = @ \cup {e.id}])
      /\ UNCHANGED <<jobs, handled, disorder, cut>>
  BY ClaimEffect DEF obsVars
<1>2. e.inv \in Invocations
  BY <1>1, EventFacts
<1> HIDE DEF e
<1>3. \A d \in Emitters \ {c} :
         /\ at'[d] = at[d] /\ (ToDo(d, o)' <=> ToDo(d, o)) /\ (Dispatching(d)' <=> Dispatching(d))
         /\ Current(d)' = Current(d)
  BY <1>1, OthersToDo DEF Others, SameToDo
<1>4. \/ sent'[i] = sent[i]
      \/ e.inv = i /\ sent'[i] = sent[i] \cup {e.id}
  BY <1>1, <1>2 DEF TypeOK
<1>5. sent[i] \subseteq sent'[i]
  BY <1>4
<1>6. ToDo(c, o)' /\ Dispatching(c)'
  <2>1. Bound \in Seq({LangSmith, OpenTelemetry}) /\ Rank(o) \in DOMAIN Bound
    BY BusAssumption, RankFacts
  <2>2. 1 <= Rank(o)
    BY <2>1
  <2> QED BY <1>1, <2>2 DEF ToDo, Dispatching
<1>7. ~Dispatching(c)
  BY <1>1 DEF Dispatching
<1>8. \A x \in Pending(o, i)' :
         \E d \in Emitters : InHand(d, i)' /\ Current(d)'.id = x /\ ToDo(d, o)'
  <2>1. TAKE x \in Pending(o, i)'
  <2>2. CASE x \in sent[i]
    <3>1. PICK d \in Emitters : InHand(d, i) /\ Current(d).id = x /\ ToDo(d, o)
      BY <1>1, <2>2 DEF TrackedFor, Pending
    <3> QED BY <1>3, <1>5, <1>7, <3>1 DEF InHand
  <2>3. CASE x \notin sent[i]
    <3>1. e.inv = i /\ x = e.id /\ x \in sent'[i]
      BY <1>4, <2>3 DEF Pending
    <3> QED BY <1>1, <1>6, <3>1 DEF InHand
  <2> QED BY <2>2, <2>3
<1>9. o = LangSmith => \A f \in jobs' : f.id \in sent'[i] \ cut' =>
          \E d \in Emitters : at'[d] = "thread" /\ Current(d)'.id = f.id
  <2>1. HAVE o = LangSmith
  <2>2. TAKE f \in jobs'
  <2>3. HAVE f.id \in sent'[i] \ cut'
  <2>4. f.id \in sent[i] \ cut /\ f \in jobs
    BY <1>1, <1>4, <2>3 DEF Deliveries
  <2>5. PICK d \in Emitters : at[d] = "thread" /\ Current(d).id = f.id
    BY <2>1, <2>4 DEF TrackedFor
  <2> QED BY <1>1, <1>3, <2>5
<1> QED BY <1>1, <1>8, <1>9 DEF TrackedFor

(* Who awaits a thread has it to do for LangSmith.                         *)
LEMMA ThreadToDo ==
    ASSUME TypeOK, Standing, NEW c \in Emitters, at[c] = "thread"
    PROVE  LangSmith \in Range(Bound) /\ ToDo(c, LangSmith)
<1>1. obs[c] \in DOMAIN Bound /\ Bound[obs[c]] = LangSmith
  BY DEF Standing, Observer
<1> QED BY <1>1, RankFacts DEF ToDo

(* An emitter comes back with its event handled, or has it in cut.         *)
LEMMA TrackedLeaves ==
    ASSUME TypeOK, Standing, NEW c \in Emitters, Leaves(c),
           NEW o \in Range(Bound), NEW i \in Invocations, TrackedFor(o, i)
    PROVE  TrackedFor(o, i)'
<1>1. Others(c) /\ UNCHANGED <<sent, handled, disorder>> /\ jobs' \subseteq jobs
  BY DEF Leaves
<1>2. \A d \in Emitters \ {c} :
         /\ at'[d] = at[d] /\ (ToDo(d, o)' <=> ToDo(d, o)) /\ (Dispatching(d)' <=> Dispatching(d))
         /\ Current(d)' = Current(d)
  BY <1>1, OthersToDo DEF Others, SameToDo
<1>3. cut \subseteq cut' /\ (ToDo(c, o) => Current(c).id \in cut')
      /\ (at[c] = "thread" => Current(c).id \in cut')
  BY ThreadToDo DEF Leaves
<1>4. \A x \in Pending(o, i)' :
         \E d \in Emitters : InHand(d, i)' /\ Current(d)'.id = x /\ ToDo(d, o)'
  <2>1. TAKE x \in Pending(o, i)'
  <2>2. PICK d \in Emitters : InHand(d, i) /\ Current(d).id = x /\ ToDo(d, o)
    BY <1>1, <1>3 DEF TrackedFor, Pending
  <2>3. d # c
    BY <1>3, <2>2 DEF Pending
  <2> QED BY <1>1, <1>2, <2>2, <2>3 DEF InHand
<1>5. o = LangSmith => \A f \in jobs' : f.id \in sent'[i] \ cut' =>
          \E d \in Emitters : at'[d] = "thread" /\ Current(d)'.id = f.id
  <2>1. HAVE o = LangSmith
  <2>2. TAKE f \in jobs'
  <2>3. HAVE f.id \in sent'[i] \ cut'
  <2>4. PICK d \in Emitters : at[d] = "thread" /\ Current(d).id = f.id
    BY <1>1, <1>3, <2>1, <2>3 DEF TrackedFor
  <2> QED BY <1>2, <1>3, <2>3, <2>4
<1> QED BY <1>1, <1>4, <1>5 DEF TrackedFor

(* A thread handles its event, awaited or not, or its client raises.       *)
LEMMA TrackedHears ==
    ASSUME TypeOK, Standing, Queue, Claims, OneLock, Deliveries, Tracked, NEW e \in jobs, Hears(e),
           NEW o \in Range(Bound), NEW i \in Invocations, Fine(o, i), TrackedFor(o, i)
    PROVE  TrackedFor(o, i)'
<1>1. /\ \A d \in Emitters : Current(d)' = Current(d)
      /\ jobs' = jobs \ {e} /\ UNCHANGED <<sent, cut>>
      /\ LangSmith \in Range(Bound) /\ IsEvent(e)
  BY HearFrame DEF Deliveries
<1>2. \A d \in Emitters :
         /\ Dispatching(d)' <=> Dispatching(d)
         /\ Current(d).id # e.id => SameToDo(d) /\ (Handed(d)' <=> Handed(d)) /\ at'[d] = at[d]
         /\ at[d] # "thread" => SameToDo(d)
         /\ at[d] = "thread" /\ Current(d).id = e.id /\ ThreadHandles(e) =>
                Passes(d, LangSmith) /\ ToDo(d, LangSmith)
         /\ ~ThreadHandles(e) => SameToDo(d)
  BY HearEffect
<1>3. \A d \in Emitters : InHand(d, i)' <=> InHand(d, i)
  BY <1>1, <1>2 DEF InHand
<1>4. o = LangSmith => \A f \in jobs' : f.id \in sent'[i] \ cut' =>
          \E d \in Emitters : at'[d] = "thread" /\ Current(d)'.id = f.id
  <2>1. HAVE o = LangSmith
  <2>2. TAKE f \in jobs'
  <2>3. HAVE f.id \in sent'[i] \ cut'
  <2>4. PICK d \in Emitters : at[d] = "thread" /\ Current(d).id = f.id
    BY <1>1, <2>1, <2>3 DEF TrackedFor
  <2>5. f.id # e.id
    BY <1>1 DEF Deliveries
  <2> QED BY <1>1, <1>2, <2>4, <2>5
<1>5. CASE ~ThreadHandles(e)
  <2>1. UNCHANGED <<handled, disorder>>
    BY <1>5 DEF Hears, ThreadRaises, history
  <2>2. Pending(o, i)' = Pending(o, i)
    BY <1>1, <2>1 DEF Pending
  <2>3. \A x \in Pending(o, i)' :
           \E d \in Emitters : InHand(d, i)' /\ Current(d)'.id = x /\ ToDo(d, o)'
    BY <1>1, <1>2, <1>3, <1>5, <2>2 DEF TrackedFor, SameToDo
  <2> QED BY <1>4, <2>1, <2>3 DEF TrackedFor
<1>6. CASE ThreadHandles(e)
  <2>1. /\ Observes(LangSmith, e) /\ handled'[LangSmith] = handled[LangSmith] \cup {e.id}
        /\ \A p \in Range(Bound) \ {LangSmith} : handled'[p] = handled[p]
    BY <1>1, <1>6, ObservesEffect DEF ThreadHandles
  <2>2. \A x \in Pending(o, i)' :
           \E d \in Emitters : InHand(d, i)' /\ Current(d)'.id = x /\ ToDo(d, o)'
    <3>1. TAKE x \in Pending(o, i)'
    <3>2. x \in Pending(o, i) /\ (o = LangSmith => x # e.id)
      BY <1>1, <2>1 DEF Pending
    <3>3. PICK d \in Emitters : InHand(d, i) /\ Current(d).id = x /\ ToDo(d, o)
      BY <3>2 DEF TrackedFor
    <3>4. ToDo(d, o)'
      BY <1>2, <1>6, <3>2, <3>3 DEF SameToDo, Passes
    <3> QED BY <1>1, <1>3, <3>3, <3>4
  <2>3. <<o, i>> \notin disorder'
    <3>1. CASE o = LangSmith
      <4>1. e.id \in sent[i] \ cut =>
               \E d \in Emitters : InHand(d, i) /\ ToDo(d, o) /\ Current(d).id = e.id
        <5>1. HAVE e.id \in sent[i] \ cut
        <5>2. PICK d \in Emitters : at[d] = "thread" /\ Current(d).id = e.id
          BY <3>1, <5>1 DEF TrackedFor
        <5>3. Dispatching(d) /\ ToDo(d, o)
          BY <3>1, <5>2, ThreadToDo DEF Dispatching
        <5> QED BY <5>1, <5>2, <5>3, HasInHand
      <4> QED BY <1>1, <2>1, <3>1, <4>1, ObservesInOrder
    <3>2. CASE o # LangSmith
      BY <2>1, <3>2 DEF Observes, TrackedFor
    <3> QED BY <3>1, <3>2
  <2> QED BY <1>4, <2>2, <2>3 DEF TrackedFor
<1> QED BY <1>5, <1>6

LEMMA TrackedStep ==
    ASSUME TypeOK, Standing, Queue, Claims, OneLock, Deliveries, Tracked, [Next]_vars
    PROVE  Tracked'
<1> SUFFICES ASSUME NEW o \in Range(Bound), NEW i \in Invocations, Fine(o, i)'
    PROVE  TrackedFor(o, i)'
  BY DEF Tracked, TrackedFor, Pending
<1>1. Fine(o, i) /\ TrackedFor(o, i)
  BY FineStep, TrackedIs
<1>2. ASSUME NEW c \in Emitters, Emit(c) PROVE TrackedFor(o, i)'
  <2>1. at[c] = "idle" /\ Others(c) /\ UNCHANGED <<sent, cut, handled, disorder, jobs>>
    BY <1>2, EmitEffect DEF obsVars, history
  <2> QED BY <1>1, <2>1, TrackedFrame DEF Others, Dispatching
<1>3. ASSUME NEW c \in Emitters, EmitClaims(c) PROVE TrackedFor(o, i)'
  BY <1>1, <1>3, TrackedClaims
<1>4. ASSUME NEW c \in Emitters, Leaves(c) PROVE TrackedFor(o, i)'
  BY <1>1, <1>4, TrackedLeaves
<1>5. CASE UNCHANGED vars
  <2>1. UNCHANGED <<sent, cut, handled, disorder, jobs, at, obs, pos, aborted>>
    BY <1>5 DEF vars, emitVars, obsVars, history
  <2> QED BY <1>1, <2>1, TrackedFrame, SameCurrent
<1>6. CASE Closes
  <2>1. UNCHANGED <<sent, cut, handled, disorder, jobs, at, obs, pos, aborted>>
    BY <1>6, CloseFrame DEF emitVars, history
  <2> QED BY <1>1, <2>1, TrackedFrame, SameCurrent
<1>7. ASSUME NEW c \in Emitters, Delivers(c) PROVE TrackedFor(o, i)'
  BY <1>1, <1>7, TrackedDelivers
<1>8. ASSUME NEW c \in Emitters, EmitClosed(c) PROVE TrackedFor(o, i)'
  <2>1. ~Busy(c) /\ Others(c) /\ UNCHANGED <<sent, cut, handled, disorder, jobs>>
    BY <1>8, SkipFrame DEF obsVars, history
  <2> QED BY <1>1, <2>1, TrackedFrame DEF Others, Dispatching, Busy
<1>9. ASSUME NEW e \in jobs, Hears(e) PROVE TrackedFor(o, i)'
  BY <1>1, <1>9, TrackedHears
<1> QED BY <1>2, <1>3, <1>4, <1>5, <1>6, <1>7, <1>8, <1>9, Steps

-----------------------------------------------------------------------------
(* Reported: what a completed result vouches for                           *)

(* Once an invocation has ended, nothing of it is claimed up to its end,   *)
(* and what was in hand is put away.                                       *)
LEMMA EndedStep ==
    ASSUME TypeOK, Standing, Queue, Claims, [Next]_vars, NEW i \in Invocations, Ended(i)
    PROVE  /\ Ended(i)' /\ sent'[i] = sent[i] /\ cut \subseteq cut' /\ seen \subseteq seen'
           /\ \A d \in Emitters : InHand(d, i)' => InHand(d, i) /\ Current(d)' = Current(d)
<1> USE DEF InHand, Dispatching
<1>1. ASSUME NEW c \in Emitters, Emit(c)
      PROVE  /\ UNCHANGED <<seen, sent, cut>>
             /\ \A d \in Emitters : InHand(d, i)' => InHand(d, i) /\ Current(d)' = Current(d)
  BY <1>1, EmitEffect DEF Others, history
<1>2. ASSUME NEW c \in Emitters, EmitClaims(c)
      PROVE  /\ Ended(i)' /\ sent'[i] = sent[i] /\ UNCHANGED cut /\ seen \subseteq seen'
             /\ \A d \in Emitters : InHand(d, i)' => InHand(d, i) /\ Current(d)' = Current(d)
  <2> DEFINE e == Current(c)
  <2>1. /\ e.id \notin seen /\ seen' = seen \cup {e.id} /\ UNCHANGED cut
        /\ Current(c)' = e /\ Others(c)
        /\ sent' = (IF Ended(e.inv) THEN sent ELSE [sent EXCEPT ![e.inv] = @ \cup {e.id}])
    BY <1>2, ClaimEffect
  <2> HIDE DEF e
  <2>2. sent'[i] = sent[i] /\ e.id \notin sent[i]
    BY <2>1 DEF TypeOK, Claims
  <2>3. Ended(i)'
    BY <2>1 DEF Ended
  <2> QED BY <2>1, <2>2, <2>3 DEF Others
<1>3. ASSUME NEW c \in Emitters, Leaves(c)
      PROVE  /\ UNCHANGED <<seen, sent>> /\ cut \subseteq cut'
             /\ \A d \in Emitters : InHand(d, i)' => InHand(d, i) /\ Current(d)' = Current(d)
  <2>1. UNCHANGED <<seen, sent>> /\ at'[c] = "idle" /\ Others(c) /\ cut \subseteq cut'
    BY <1>3 DEF Leaves
  <2> QED BY <2>1 DEF Others
<1>4. ASSUME Quiet
      PROVE  /\ UNCHANGED <<seen, sent, cut>>
             /\ \A d \in Emitters : InHand(d, i)' => InHand(d, i) /\ Current(d)' = Current(d)
  BY <1>4 DEF Quiet, Busy
<1> QED BY <1>1, <1>2, <1>3, <1>4, Steps, QuietSteps DEF Ended

(* What an observer handled stays handled; a job, or a disorder, comes     *)
(* from an emitter that has the event, or from a job.                      *)
LEMMA HandledStep ==
    ASSUME TypeOK, Standing, Queue, Claims, Deliveries, [Next]_vars
    PROVE  /\ \A o \in Range(Bound) : handled[o] \subseteq handled'[o]
           /\ \A e \in jobs' \ jobs : \E c \in Emitters : Dispatching(c) /\ e = Current(c)
           /\ \A o, i : <<o, i>> \in disorder' \ disorder =>
                 \/ \E c \in Emitters : Dispatching(c) /\ Current(c).id \in sent[i] \ cut
                 \/ o = LangSmith /\ \E e \in jobs : e.id \in sent[i] \ cut
<1>1. ASSUME NEW c \in Emitters, Emit(c) PROVE UNCHANGED <<handled, jobs, disorder>>
  BY <1>1 DEF Emit, obsVars, history
<1>2. ASSUME NEW c \in Emitters, EmitClaims(c) PROVE UNCHANGED <<handled, jobs, disorder>>
  BY <1>2 DEF EmitClaims, obsVars
<1>3. ASSUME NEW c \in Emitters, Leaves(c) PROVE UNCHANGED <<handled, disorder>> /\ jobs' \subseteq jobs
  BY <1>3 DEF Leaves
<1>4. ASSUME UNCHANGED vars \/ Closes PROVE UNCHANGED <<handled, jobs, disorder>>
  BY <1>4, CloseFrame DEF vars, obsVars, history
<1>5. ASSUME NEW c \in Emitters, EmitClosed(c) PROVE UNCHANGED <<handled, jobs, disorder>>
  BY <1>5 DEF EmitClosed, obsVars, history
<1>6. ASSUME NEW o \in Range(Bound), NEW e, Observes(o, e)
      PROVE  /\ \A p \in Range(Bound) : handled[p] \subseteq handled'[p]
             /\ disorder' \in {disorder, disorder \cup {<<o, e.inv>>}}
             /\ disorder' # disorder => e.id \in sent[e.inv] \ cut
  <2>1. disorder' = IF e.id \in sent[e.inv] \ cut /\ sent[e.inv] \ (handled[o] \cup cut) # {e.id}
                    THEN disorder \cup {<<o, e.inv>>} ELSE disorder
    BY <1>6 DEF Observes
  <2> QED BY <1>6, <2>1, ObservesEffect
<1>7. ASSUME NEW c \in Emitters, Delivers(c)
      PROVE  /\ \A o \in Range(Bound) : handled[o] \subseteq handled'[o]
             /\ \A e \in jobs' \ jobs : e = Current(c)
             /\ \A o, i : <<o, i>> \in disorder' \ disorder => Current(c).id \in sent[i] \ cut
  <2>1. CASE ObserverIgnores(c)
    BY <2>1, IgnoreEffect
  <2>2. CASE ToThread(c)
    BY <2>2, ThreadEffect
  <2>3. CASE Resumes(c) \/ TimesOut(c)
    BY <2>3, MoveEffect
  <2>4. CASE Traces(c)
    <3>1. /\ OpenTelemetry \in Range(Bound) /\ UNCHANGED jobs
          /\ Observes(OpenTelemetry, Current(c)) \/ UNCHANGED <<handled, disorder>>
      BY <2>4, TraceEffect
    <3>2. CASE UNCHANGED <<handled, disorder>>
      BY <3>1, <3>2
    <3>3. CASE Observes(OpenTelemetry, Current(c))
      BY <1>6, <3>1, <3>3
    <3> QED BY <3>1, <3>2, <3>3
  <2> QED BY <1>7, <2>1, <2>2, <2>3, <2>4 DEF Delivers
<1>8. ASSUME NEW e \in jobs, Hears(e)
      PROVE  /\ \A o \in Range(Bound) : handled[o] \subseteq handled'[o]
             /\ jobs' \subseteq jobs
             /\ \A o, i : <<o, i>> \in disorder' \ disorder => o = LangSmith /\ e.id \in sent[i] \ cut
  <2>1. jobs' = jobs \ {e} /\ LangSmith \in Range(Bound)
    BY <1>8, HearFrame DEF Deliveries
  <2>2. Observes(LangSmith, e) \/ UNCHANGED <<handled, disorder>>
    BY <1>8 DEF Hears, ThreadHandles, ThreadRaises, history
  <2> QED BY <1>6, <2>1, <2>2
<1>9. \A c \in Emitters : Delivers(c) => Dispatching(c)
  BY DeliverFrame
<1> QED BY <1>1, <1>2, <1>3, <1>4, <1>5, <1>7, <1>8, <1>9, Steps

(* close() does not come back to where it has not begun.                   *)
LEMMA ClosingOn ==
    ASSUME TypeOK, Standing, Queue, Claims, Closing, [Next]_vars, closing' = <<"idle", 1>>
    PROVE  closing = <<"idle", 1>>
<1>1. ASSUME NEW c \in Emitters, Emit(c) \/ EmitClaims(c) \/ EmitClosed(c) PROVE UNCHANGED closing
  BY <1>1 DEF Emit, EmitClaims, EmitClosed
<1>2. ASSUME NEW c \in Emitters, Leaves(c) PROVE UNCHANGED closing
  BY <1>2 DEF Leaves
<1>3. CASE UNCHANGED vars
  BY <1>3 DEF vars
<1>4. ASSUME Closes PROVE FALSE
  BY <1>4 DEF Closes, BusCloses, FlushObserver, CloseObserver, BusClosed, BusCloseCancelled, LifecycleStep
<1>5. ASSUME NEW c \in Emitters, Delivers(c) PROVE UNCHANGED closing
  BY <1>5, DeliverFrame
<1>6. ASSUME NEW e \in jobs, Hears(e) PROVE UNCHANGED closing
  BY <1>6, HearFrame
<1> QED BY <1>1, <1>2, <1>3, <1>4, <1>5, <1>6, Steps

(* The first result of an invocation, or a further one, is reported by the *)
(* emitter that leaves.                                                    *)
LEMMA ReportedBy ==
    ASSUME TypeOK, Standing, Queue, Claims, [Next]_vars, NEW i \in Invocations
    PROVE  \/ reported'[i] = reported[i]
           \/ \E c \in Emitters :
                 /\ Leaves(c) /\ at[c] = "dispatch" /\ Current(c).inv = i
                 /\ Current(c).id \in TerminalIds(i) /\ UNCHANGED <<cut, jobs>>
                 /\ reported'[i] = Scoped(c)
<1>1. ASSUME NEW c \in Emitters, Emit(c) \/ EmitClaims(c) \/ EmitClosed(c) PROVE UNCHANGED reported
  BY <1>1 DEF Emit, EmitClaims, EmitClosed, history
<1>2. ASSUME NEW c \in Emitters, Leaves(c)
      PROVE  \/ reported'[i] = reported[i]
             \/ /\ at[c] = "dispatch" /\ Current(c).inv = i
                /\ Current(c).id \in TerminalIds(i) /\ UNCHANGED <<cut, jobs>>
                /\ reported'[i] = Scoped(c)
  <2>1. \/ UNCHANGED reported
        \/ /\ at[c] = "dispatch" /\ Current(c).id \in TerminalIds(Current(c).inv)
           /\ UNCHANGED <<cut, jobs>>
           /\ reported' = [reported EXCEPT ![Current(c).inv] = Scoped(c)]
    BY <1>2 DEF Leaves
  <2> HIDE DEF Scoped
  <2> QED BY <2>1 DEF TypeOK
<1>3. ASSUME UNCHANGED vars \/ Closes PROVE UNCHANGED reported
  BY <1>3, CloseFrame DEF vars, history
<1>4. ASSUME NEW c \in Emitters, Delivers(c) PROVE UNCHANGED reported
  BY <1>4, DeliverFrame
<1>5. ASSUME NEW e \in jobs, Hears(e) PROVE UNCHANGED reported
  BY <1>5, HearFrame
<1> QED BY <1>1, <1>2, <1>3, <1>4, <1>5, Steps

LEMMA ReportedStep ==
    ASSUME TypeOK, Standing, Queue, Claims, OneLock, Deliveries, Tracked, Reported, Closing, [Next]_vars
    PROVE  Reported'
<1> DEFINE Done(i) == /\ Ended(i) /\ \A c \in Emitters : ~InHand(c, i)
                      /\ closing = <<"idle", 1>> => \A o \in Range(Bound) \ reported[i] :
                            /\ sent[i] \ cut \subseteq handled[o] /\ <<o, i>> \notin disorder
                            /\ o = LangSmith => \A e \in jobs : e.id \notin sent[i] \ cut
<1> SUFFICES ASSUME NEW i \in Invocations, reported'[i] # None PROVE Done(i)'
  BY DEF Reported
<1>1. /\ \A o \in Range(Bound) : handled[o] \subseteq handled'[o]
      /\ \A e \in jobs' \ jobs : \E c \in Emitters : Dispatching(c) /\ e = Current(c)
      /\ \A o : <<o, i>> \in disorder' \ disorder =>
            \/ \E c \in Emitters : Dispatching(c) /\ Current(c).id \in sent[i] \ cut
            \/ o = LangSmith /\ \E e \in jobs : e.id \in sent[i] \ cut
  BY HandledStep
<1>2. CASE reported'[i] = reported[i]
  <2>1. Done(i)
    BY <1>2 DEF Reported
  <2>2. /\ Ended(i)' /\ sent'[i] = sent[i] /\ cut \subseteq cut'
        /\ \A d \in Emitters : ~InHand(d, i)'
    BY <2>1, EndedStep
  <2>3. \A c \in Emitters : ~(Dispatching(c) /\ Current(c).id \in sent[i])
    BY <2>1, HasInHand
  <2>4. ASSUME closing' = <<"idle", 1>>, NEW o \in Range(Bound) \ reported'[i]
        PROVE  /\ sent'[i] \ cut' \subseteq handled'[o] /\ <<o, i>> \notin disorder'
               /\ o = LangSmith => \A e \in jobs' : e.id \notin sent'[i] \ cut'
    <3>1. closing = <<"idle", 1>> /\ o \in Range(Bound) \ reported[i]
      BY <1>2, <2>4, ClosingOn
    <3>2. /\ sent[i] \ cut \subseteq handled[o] /\ <<o, i>> \notin disorder
          /\ o = LangSmith => \A e \in jobs : e.id \notin sent[i] \ cut
      BY <2>1, <3>1
    <3> QED BY <1>1, <2>2, <2>3, <3>2
  <2> QED BY <2>2, <2>4
<1>3. CASE reported'[i] # reported[i]
  <2>1. PICK c \in Emitters :
           /\ Leaves(c) /\ at[c] = "dispatch" /\ Current(c).inv = i
           /\ Current(c).id \in TerminalIds(i) /\ UNCHANGED <<cut, jobs>>
           /\ reported'[i] = Scoped(c)
    BY <1>3, ReportedBy
  <2>2. Dispatching(c) /\ Current(c).id \in seen \ cut /\ Ended(i)
    BY <2>1 DEF Dispatching, Claims, Ended
  <2>3. /\ Ended(i)' /\ \A d \in Emitters : InHand(d, i)' => InHand(d, i)
    BY <2>2, EndedStep
  <2>4. \A d \in Emitters : InHand(d, i) => d = c
    BY <2>1, <2>2, Alone
  <2>5. at'[c] = "idle" /\ UNCHANGED <<sent, failures, handled, disorder, closing>>
    BY <2>1 DEF Leaves
  <2>6. \A d \in Emitters : ~InHand(d, i)'
    BY <2>3, <2>4, <2>5 DEF InHand, Dispatching
  <2>7. \A o \in Range(Bound) : ~ToDo(c, o)
    BY <2>1, <2>2 DEF Leaves
  <2>8. ASSUME closing' = <<"idle", 1>>, NEW o \in Range(Bound) \ reported'[i]
        PROVE  /\ sent'[i] \ cut' \subseteq handled'[o] /\ <<o, i>> \notin disorder'
               /\ o = LangSmith => \A e \in jobs' : e.id \notin sent'[i] \ cut'
    <3>1. <<o, i>> \notin failures
      BY <2>1, <2>8 DEF Scoped
    <3>2. Fine(o, i)
      BY <2>5, <2>8, <3>1 DEF Fine, Closing
    <3>3. TrackedFor(o, i)
      BY <3>2, TrackedIs
    <3>4. Pending(o, i) = {}
      BY <2>4, <2>7, <3>3 DEF TrackedFor
    <3>5. ASSUME o = LangSmith, NEW e \in jobs, e.id \in sent[i] \ cut PROVE FALSE
      <4>1. PICK d \in Emitters : at[d] = "thread" /\ Current(d).id = e.id
        BY <3>3, <3>5 DEF TrackedFor
      <4>2. InHand(d, i)
        BY <3>5, <4>1, HasInHand DEF Dispatching
      <4> QED BY <2>1, <2>4, <4>1, <4>2
    <3> QED BY <2>1, <2>5, <3>3, <3>4, <3>5 DEF Pending, TrackedFor
  <2> QED BY <2>3, <2>6, <2>8
<1> QED BY <1>2, <1>3

-----------------------------------------------------------------------------
(* TracesEnded: what the observers keep of an invocation that has ended    *)

(* Handling an event opens its own run at most, and the last event of an   *)
(* invocation closes them all.                                             *)
LEMMA RunsAfter ==
    ASSUME NEW R, NEW e
    PROVE  /\ DOMAIN LangSmithHandles(R, e) \subseteq DOMAIN R \cup OpenedRuns(e)
           /\ \A r \in OpenedRuns(e) : r[1] = e.inv
           /\ e.kind \in InvocationEnds =>
                 \A r \in DOMAIN LangSmithHandles(R, e) : r \in DOMAIN R /\ r[1] # e.inv
<1> USE DEF TurnEnds, InvocationEnds, ToolEnds, ToolOpens
<1>1. ASSUME NEW keys PROVE DOMAIN FinishRuns(R, keys) = DOMAIN R \ keys
  BY DEF FinishRuns
<1>2. ASSUME NEW key PROVE DOMAIN CreateRun(R, key) \subseteq DOMAIN R \cup {key}
  BY DEF CreateRun
<1>9. \A r \in OpenedRuns(e) : r[1] = e.inv
  BY DEF OpenedRuns
<1>3. CASE e.kind = "invocation_started"
  <2>1. LangSmithHandles(R, e) = CreateRun(R, <<e.inv, "runtime">>) /\ OpenedRuns(e) = {<<e.inv, "runtime">>}
    BY <1>3 DEF LangSmithHandles, OpenedRuns
  <2> QED BY <1>2, <1>9, <1>3, <2>1
<1>4. CASE e.kind = "turn_started"
  <2>1. LangSmithHandles(R, e) = CreateRun(R, <<e.inv, "turn">>) /\ OpenedRuns(e) = {<<e.inv, "turn">>}
    BY <1>4 DEF LangSmithHandles, OpenedRuns
  <2> QED BY <1>2, <1>9, <1>4, <2>1
<1>5. CASE e.kind \in ToolOpens \cup {"tool_approval_resolved"}
  <2>1. LangSmithHandles(R, e) = CreateRun(R, <<e.inv, e.call>>) /\ OpenedRuns(e) = {<<e.inv, e.call>>}
    BY <1>5 DEF LangSmithHandles, OpenedRuns
  <2> QED BY <1>2, <1>9, <1>5, <2>1
<1>6. CASE e.kind \in ToolEnds
  <2>1. LangSmithHandles(R, e) = FinishRuns(R, {ToolRun(R, e)})
    BY <1>6 DEF LangSmithHandles
  <2> QED BY <1>1, <1>6, <1>9, <2>1
<1>7. CASE e.kind \in TurnEnds \cup InvocationEnds
  <2> DEFINE keys == {r \in DOMAIN R : r[1] = e.inv /\ (e.kind \in TurnEnds => r[2] # "runtime")}
  <2>1. LangSmithHandles(R, e) = FinishMatching(R, e)
    BY <1>7 DEF LangSmithHandles
  <2>2. DOMAIN LangSmithHandles(R, e) = DOMAIN R \ keys
    BY <1>1, <2>1 DEF FinishMatching
  <2> QED BY <1>9, <2>2
<1>8. CASE /\ e.kind \notin {"invocation_started", "turn_started", "tool_approval_resolved"}
           /\ e.kind \notin ToolOpens \cup ToolEnds \cup TurnEnds \cup InvocationEnds
  <2>1. LangSmithHandles(R, e) = R
    BY <1>8 DEF LangSmithHandles
  <2> QED BY <1>8, <1>9, <2>1
<1> QED BY <1>3, <1>4, <1>5, <1>6, <1>7, <1>8

LEMMA SpansAfter ==
    ASSUME NEW S, NEW e
    PROVE  /\ \A x \in OpenTelemetryHandles(S, e) : x \in S \/ x \in OpenedSpans(e)
           /\ \A T \in OpenTelemetryRaises(S, e) : \A x \in T : x \in S \/ x \in OpenedSpans(e)
           /\ \A i, key : <<i, key>> \in OpenedSpans(e) => i = e.inv
           /\ e.kind \in InvocationEnds =>
                 {<<e.inv, "turn">>, <<e.inv, "invocation">>} \cap OpenTelemetryHandles(S, e) = {}
<1>1. e.kind \in InvocationEnds => EndedSpans(e) = {<<e.inv, "turn">>, <<e.inv, "invocation">>}
  BY DEF EndedSpans, InvocationEnds, TurnEnds, ToolEnds
<1>2. \A i, key : <<i, key>> \in OpenedSpans(e) => i = e.inv
  BY DEF OpenedSpans
<1>3. \A T \in OpenTelemetryRaises(S, e) : \A x \in T : x \in S \/ x \in OpenedSpans(e)
  BY DEF OpenTelemetryRaises
<1> QED BY <1>1, <1>2, <1>3 DEF OpenTelemetryHandles

(* The steps that change what LangSmith, or OpenTelemetry, holds.          *)
LEMMA LangSmithFrame ==
    ASSUME TypeOK, Standing, Queue, Claims, [Next]_vars
    PROVE  \/ \E e \in jobs : Hears(e)
           \/ runs' = runs /\ (LangSmith \in Range(Bound) => handled'[LangSmith] = handled[LangSmith])
<1>1. ASSUME NEW c \in Emitters, Emit(c) \/ EmitClaims(c) \/ EmitClosed(c) PROVE UNCHANGED <<runs, handled>>
  BY <1>1 DEF Emit, EmitClaims, EmitClosed, obsVars, history
<1>2. ASSUME NEW c \in Emitters, Leaves(c) PROVE UNCHANGED <<runs, handled>>
  BY <1>2 DEF Leaves
<1>3. ASSUME UNCHANGED vars \/ Closes PROVE UNCHANGED <<runs, handled>>
  BY <1>3, CloseFrame DEF vars, obsVars, history
<1>4. ASSUME NEW c \in Emitters, Delivers(c)
      PROVE  runs' = runs /\ (LangSmith \in Range(Bound) => handled'[LangSmith] = handled[LangSmith])
  <2>1. runs' = runs
    BY <1>4, DeliverFrame
  <2>2. UNCHANGED handled \/ (OpenTelemetry \in Range(Bound) /\ Observes(OpenTelemetry, Current(c)))
    BY <1>4, IgnoreEffect, ThreadEffect, MoveEffect, TraceEffect DEF Delivers
  <2>3. LangSmith # OpenTelemetry
    BY BusAssumption
  <2> QED BY <2>1, <2>2, <2>3, ObservesEffect
<1> QED BY <1>1, <1>2, <1>3, <1>4, Steps

LEMMA OpenTelemetryFrame ==
    ASSUME TypeOK, Standing, Queue, Claims, Deliveries, [Next]_vars
    PROVE  \/ \E c \in Emitters : Traces(c)
           \/ /\ spans' \in {spans, {}}
              /\ OpenTelemetry \in Range(Bound) => handled'[OpenTelemetry] = handled[OpenTelemetry]
<1>1. ASSUME NEW c \in Emitters, Emit(c) \/ EmitClaims(c) \/ EmitClosed(c) PROVE UNCHANGED <<spans, handled>>
  BY <1>1 DEF Emit, EmitClaims, EmitClosed, obsVars, history
<1>2. ASSUME NEW c \in Emitters, Leaves(c) PROVE UNCHANGED <<spans, handled>>
  BY <1>2 DEF Leaves
<1>3. CASE UNCHANGED vars
  BY <1>3 DEF vars, obsVars, history
<1>4. ASSUME Closes PROVE spans' \in {spans, {}} /\ UNCHANGED handled
  <2>1. UNCHANGED handled
    BY <1>4, CloseFrame DEF history
  <2> QED BY <1>4, <2>1 DEF Closes, BusCloses, FlushObserver, CloseObserver, SpansAfterClose, BusClosed,
                            BusCloseCancelled, obsVars
<1>5. ASSUME NEW c \in Emitters, Delivers(c) PROVE UNCHANGED <<spans, handled>> \/ Traces(c)
  BY <1>5, IgnoreEffect, ThreadEffect, MoveEffect DEF Delivers
<1>6. ASSUME NEW e \in jobs, Hears(e)
      PROVE  /\ spans' = spans
             /\ OpenTelemetry \in Range(Bound) => handled'[OpenTelemetry] = handled[OpenTelemetry]
  <2>1. spans' = spans /\ LangSmith \in Range(Bound)
    BY <1>6, HearFrame DEF Deliveries
  <2>2. UNCHANGED handled \/ Observes(LangSmith, e)
    BY <1>6 DEF Hears, ThreadHandles, ThreadRaises, history
  <2>3. LangSmith # OpenTelemetry
    BY BusAssumption
  <2> QED BY <2>1, <2>2, <2>3, ObservesEffect
<1> QED BY <1>1, <1>2, <1>3, <1>4, <1>5, <1>6, Steps

(* What may still open a run, or a span, of an ended invocation may do so  *)
(* ever after.                                                             *)
LEMMA StraysStep ==
    ASSUME TypeOK, Standing, Queue, Claims, Deliveries, [Next]_vars, NEW i \in Invocations,
           NEW o \in Range(Bound), TerminalIds(i) \cap handled[o] # {}
    PROVE  StrayRuns(i) \subseteq StrayRuns(i)' /\ LateSpans(i) \subseteq LateSpans(i)'
<1>1. Ended(i)
  BY DEF Deliveries, Ended
<1>2. sent'[i] = sent[i] /\ cut \subseteq cut' /\ seen \subseteq seen'
  BY <1>1, EndedStep
<1>3. Behind(i) \subseteq Behind(i)' /\ Strays(i) \subseteq Strays(i)'
  BY <1>2 DEF Behind, Strays
<1> QED BY <1>3 DEF StrayRuns, LateSpans

(* An event that did not come up to the terminal event is a stray one.     *)
LEMMA IsStray ==
    ASSUME NEW e, IsEvent(e), e.kind \notin InvocationEnds, e.id \in seen, e.id \notin sent[e.inv] \ cut
    PROVE  /\ OpenedRuns(e) \subseteq StrayRuns(e.inv)
           /\ e.id \notin sent[e.inv] => OpenedSpans(e) \subseteq LateSpans(e.inv)
<1>1. PICK f \in Events : f.id = e.id /\ f.inv = e.inv /\ f.call = e.call /\ f.kind = e.kind
  BY DEF IsEvent
<1>2. OpenedRuns(f) = OpenedRuns(e) /\ OpenedSpans(f) = OpenedSpans(e)
  BY <1>1 DEF OpenedRuns, OpenedSpans, SpanKey
<1>3. f \in Strays(e.inv) /\ (e.id \notin sent[e.inv] => f \in Behind(e.inv))
  BY <1>1 DEF Strays, Behind
<1> QED BY <1>2, <1>3 DEF StrayRuns, LateSpans

LEMMA TracesEndedStep ==
    ASSUME TypeOK, Standing, Queue, Claims, OneLock, EndLast, Deliveries, Tracked, TracesEnded, [Next]_vars
    PROVE  TracesEnded'
<1>1. LangSmith \notin Range(Bound) => DOMAIN runs' = {}
  BY LangSmithFrame DEF TracesEnded, Deliveries
<1>2. OpenTelemetry \notin Range(Bound) => spans' = {}
  BY OpenTelemetryFrame, TraceEffect DEF TracesEnded
<1>3. ASSUME NEW i \in Invocations, Through(LangSmith, i)' PROVE OpenRuns(i)' \subseteq StrayRuns(i)'
  <2>1. /\ LangSmith \in Range(Bound) /\ Fine(LangSmith, i)' /\ Fine(LangSmith, i)
        /\ TerminalIds(i) \cap handled'[LangSmith] # {}
    BY <1>3, FineStep DEF Through
  <2>2. TerminalIds(i) \cap handled[LangSmith] # {} => OpenRuns(i) \subseteq StrayRuns(i)'
    BY <2>1, StraysStep DEF TracesEnded, Through
  <2>3. CASE runs' = runs /\ handled'[LangSmith] = handled[LangSmith]
    BY <2>1, <2>2, <2>3 DEF OpenRuns
  <2>4. ASSUME NEW e \in jobs, ThreadRaises(e) PROVE OpenRuns(i)' \subseteq StrayRuns(i)'
    <3>1. UNCHANGED handled
      BY <2>4 DEF ThreadRaises, history
    <3>2. runs' = runs \/ \E keys : runs' = FinishRuns(runs, keys)
      BY <2>4 DEF ThreadRaises
    <3>3. DOMAIN runs' \subseteq DOMAIN runs
      BY <3>2 DEF FinishRuns
    <3> QED BY <2>1, <2>2, <3>1, <3>3 DEF OpenRuns
  <2>5. ASSUME NEW e \in jobs, ThreadHandles(e) PROVE OpenRuns(i)' \subseteq StrayRuns(i)'
    <3>1. /\ runs' = LangSmithHandles(runs, e) /\ IsEvent(e) /\ e.id \in seen
          /\ handled'[LangSmith] = handled[LangSmith] \cup {e.id}
      BY <2>1, <2>5, ObservesEffect DEF ThreadHandles, Deliveries
    <3>2. UNCHANGED <<seen, sent, cut>>
      BY <2>5, HearFrame DEF Hears
    <3>3. e.id \in Ids(e.inv) /\ (e.kind \in InvocationEnds <=> e.id \in TerminalIds(e.inv))
      BY <3>1, EventFacts
    <3>4. CASE e.inv # i
      <4>1. e.id \notin TerminalIds(i)
        BY <3>3, <3>4, TerminalIdsIn, IdsApart
      <4>2. OpenRuns(i)' \subseteq OpenRuns(i)
        BY <3>1, <3>4, RunsAfter DEF OpenRuns
      <4> QED BY <2>1, <2>2, <3>1, <4>1, <4>2
    <3>5. CASE e.inv = i /\ e.kind \in InvocationEnds
      BY <3>1, <3>5, RunsAfter DEF OpenRuns
    <3>6. CASE e.inv = i /\ e.kind \notin InvocationEnds
      <4>1. TerminalIds(i) \cap handled[LangSmith] # {}
        BY <2>1, <3>1, <3>3, <3>6
      <4>2. Ended(i)
        BY <2>1, <4>1 DEF Deliveries, Ended
      <4>3. ASSUME e.id \in sent[i] \ cut PROVE FALSE
        <5>1. TrackedFor(LangSmith, i)
          BY <2>1, TrackedIs
        <5>2. PICK d \in Emitters : at[d] = "thread" /\ Current(d).id = e.id
          BY <4>3, <5>1 DEF TrackedFor
        <5>3. InHand(d, i)
          BY <4>3, <5>2, HasInHand DEF Dispatching
        <5> QED BY <3>3, <3>6, <4>2, <5>2, <5>3 DEF EndLast
      <4>4. OpenedRuns(e) \subseteq StrayRuns(i)
        BY <3>1, <3>6, <4>3, IsStray
      <4>5. OpenRuns(i)' \subseteq OpenRuns(i) \cup OpenedRuns(e)
        BY <3>1, RunsAfter DEF OpenRuns
      <4> QED BY <2>1, <2>2, <4>1, <4>4, <4>5, StraysStep
    <3> QED BY <3>4, <3>5, <3>6
  <2> QED BY <2>1, <2>3, <2>4, <2>5, LangSmithFrame DEF Hears
<1>4. ASSUME NEW i \in Invocations, Through(OpenTelemetry, i)' PROVE OpenSpans(i)' \subseteq LateSpans(i)'
  <2>1. /\ OpenTelemetry \in Range(Bound) /\ Fine(OpenTelemetry, i)'
        /\ TerminalIds(i) \cap handled'[OpenTelemetry] # {}
    BY <1>4 DEF Through
  <2>2. TerminalIds(i) \cap handled[OpenTelemetry] # {} => OpenSpans(i) \subseteq LateSpans(i)'
    BY <2>1, FineStep, StraysStep DEF TracesEnded, Through
  <2>3. CASE spans' \in {spans, {}} /\ handled'[OpenTelemetry] = handled[OpenTelemetry]
    BY <2>1, <2>2, <2>3 DEF OpenSpans
  <2>4. ASSUME NEW c \in Emitters, Traces(c) PROVE OpenSpans(i)' \subseteq LateSpans(i)'
    <3> DEFINE e == Current(c)
    <3>1. \/ spans' = OpenTelemetryHandles(spans, e) /\ Observes(OpenTelemetry, e)
          \/ /\ spans' \in OpenTelemetryRaises(spans, e) /\ <<OpenTelemetry, e.inv>> \in failures'
             /\ UNCHANGED handled
      BY <2>4, TraceEffect
    <3>2. Dispatching(c) /\ UNCHANGED <<seen, sent, cut>>
      BY <2>4, DeliverFrame DEF Delivers
    <3>3. IsEvent(e) /\ e.id \in seen
      BY <3>2, CurrentEvent DEF Standing, Claims, Busy, Dispatching
    <3>4. e.id \in Ids(e.inv) /\ (e.kind \in InvocationEnds <=> e.id \in TerminalIds(e.inv))
      BY <3>3, EventFacts
    <3>5. e.inv = i /\ Ended(i) /\ e.id \in sent[i] => e.kind \in InvocationEnds
      BY <3>2, <3>4 DEF EndLast, InHand
    <3> HIDE DEF e
    <3>6. CASE e.inv # i
      <4>1. OpenSpans(i)' \subseteq OpenSpans(i)
        BY <3>1, <3>6, SpansAfter DEF OpenSpans
      <4>2. e.id \notin TerminalIds(i)
        BY <3>4, <3>6, TerminalIdsIn, IdsApart
      <4>3. handled'[OpenTelemetry] \subseteq handled[OpenTelemetry] \cup {e.id}
        BY <2>1, <3>1, ObservesEffect
      <4> QED BY <2>1, <2>2, <4>1, <4>2, <4>3
    <3>7. CASE e.inv = i
      <4>1. spans' = OpenTelemetryHandles(spans, e) /\ Observes(OpenTelemetry, e)
        BY <2>1, <3>1, <3>7 DEF Fine
      <4>2. handled'[OpenTelemetry] = handled[OpenTelemetry] \cup {e.id}
        BY <2>1, <4>1, ObservesEffect
      <4>3. CASE e.kind \in InvocationEnds
        BY <3>7, <4>1, <4>3, SpansAfter DEF OpenSpans
      <4>4. CASE e.kind \notin InvocationEnds
        <5>1. TerminalIds(i) \cap handled[OpenTelemetry] # {}
          BY <2>1, <3>4, <3>7, <4>2, <4>4
        <5>2. Ended(i)
          BY <2>1, <5>1 DEF Deliveries, Ended
        <5>3. OpenedSpans(e) \subseteq LateSpans(i)
          BY <3>3, <3>5, <3>7, <4>4, <5>2, IsStray
        <5>4. OpenSpans(i)' \subseteq OpenSpans(i) \cup OpenedSpans(e)
          BY <4>1, SpansAfter DEF OpenSpans
        <5> QED BY <2>1, <2>2, <5>1, <5>3, <5>4, StraysStep
      <4> QED BY <4>3, <4>4
    <3> QED BY <3>6, <3>7
  <2> QED BY <2>1, <2>3, <2>4, OpenTelemetryFrame
<1> QED BY <1>1, <1>2, <1>3, <1>4 DEF TracesEnded

-----------------------------------------------------------------------------
(* Closing: close() and what the observers hold behind it                  *)

LEMMA ClosingStep ==
    ASSUME TypeOK, Standing, Queue, Claims, Closing, [Next]_vars
    PROVE  Closing'
<1>0. failures \subseteq failures'
  BY FineStep
<1>1. ASSUME UNCHANGED <<closing, shut, spans>> PROVE Closing'
  BY <1>0, <1>1 DEF Closing
<1>2. ASSUME NEW c \in Emitters, Emit(c) \/ EmitClaims(c) \/ EmitClosed(c) PROVE Closing'
  BY <1>1, <1>2 DEF Emit, EmitClaims, EmitClosed, obsVars
<1>3. ASSUME NEW c \in Emitters, Leaves(c) PROVE Closing'
  BY <1>1, <1>3 DEF Leaves
<1>4. CASE UNCHANGED vars
  BY <1>1, <1>4 DEF vars, obsVars
<1>5. ASSUME NEW c \in Emitters, Delivers(c) PROVE Closing'
  <2>1. UNCHANGED <<closing, shut>>
    BY <1>5, DeliverFrame
  <2>2. UNCHANGED spans \/ OpenTelemetry \notin shut
    BY <1>5, IgnoreEffect, ThreadEffect, MoveEffect, TraceEffect DEF Delivers
  <2> QED BY <1>0, <2>1, <2>2 DEF Closing
<1>6. ASSUME NEW e \in jobs, Hears(e) PROVE Closing'
  BY <1>1, <1>6, HearFrame
<1>7. CASE Closes
  <2>1. Bound \in Seq({LangSmith, OpenTelemetry}) /\ DOMAIN Bound = 1..Len(Bound) /\ Len(Bound) \in Nat
    BY BusAssumption
  <2>2. Range(Bound) = {Bound[n] : n \in DOMAIN Bound}
    BY DEF Range
  <2>3. closing \in {"idle", "flush", "close", "end", "done", "cancelled"} \X Nat
    BY DEF Closing
  <2>4. CASE BusCloses
    <3>1. /\ UNCHANGED <<shut, spans>>
          /\ closing' = IF Bound = << >> THEN <<"end", 1>> ELSE <<"flush", 1>>
      BY <2>4 DEF BusCloses, obsVars
    <3>2. CASE Bound = << >>
      BY <1>0, <2>1, <2>2, <3>1, <3>2 DEF Closing
    <3>3. CASE Bound # << >>
      BY <1>0, <2>1, <3>1, <3>3 DEF Closing
    <3> QED BY <3>2, <3>3
  <2>5. CASE FlushObserver
    <3>1. /\ UNCHANGED <<shut, spans>> /\ closing[1] = "flush" /\ closing[2] \in DOMAIN Bound
          /\ closing' = IF closing[2] = Len(Bound) THEN <<"close", 1>> ELSE <<"flush", closing[2] + 1>>
      BY <2>5 DEF FlushObserver, LifecycleStep, Closing, obsVars
    <3> QED BY <1>0, <2>1, <2>3, <3>1 DEF Closing
  <2>6. CASE CloseObserver
    <3> DEFINE n == closing[2]
    <3>1. /\ closing[1] = "close" /\ n \in DOMAIN Bound /\ shut' = shut \cup {Bound[n]}
          /\ closing' = IF n = Len(Bound) THEN <<"end", 1>> ELSE <<"close", n + 1>>
          /\ \A m \in 1..(n - 1) : Bound[m] \in shut
      BY <2>6 DEF CloseObserver, LifecycleStep, Closing
    <3>2. OpenTelemetry \in shut' /\ <<OpenTelemetry, "close">> \notin failures' => spans' = {}
      BY <1>0, <2>6, <3>1 DEF CloseObserver, SpansAfterClose, LifecycleFails, RecordFailure, Closing
    <3> HIDE DEF n
    <3>3. \A m \in 1..n : Bound[m] \in shut'
      BY <2>1, <3>1
    <3>4. CASE n = Len(Bound)
      <4>1. Range(Bound) \subseteq shut'
        BY <2>1, <2>2, <3>3, <3>4
      <4> QED BY <3>1, <3>2, <3>4, <4>1 DEF Closing
    <3>5. CASE n # Len(Bound)
      <4>1. closing' = <<"close", n + 1>> /\ n + 1 \in DOMAIN Bound /\ n \in Nat
        BY <2>1, <3>1, <3>5
      <4>2. \A m \in 1..((n + 1) - 1) : Bound[m] \in shut'
        BY <3>3, <4>1
      <4> QED BY <3>2, <4>1, <4>2 DEF Closing
    <3> QED BY <3>4, <3>5
  <2>7. CASE BusClosed
    BY <1>0, <2>7 DEF BusClosed, Closing, obsVars
  <2>8. CASE BusCloseCancelled
    BY <1>0, <2>8 DEF BusCloseCancelled, Closing, obsVars
  <2> QED BY <1>7, <2>4, <2>5, <2>6, <2>7, <2>8 DEF Closes
<1> QED BY <1>2, <1>3, <1>4, <1>5, <1>6, <1>7, Steps

-----------------------------------------------------------------------------
(* The invariant, and what follows from it                                 *)

LEMMA InitInv == Init => IInv
<1> SUFFICES ASSUME Init PROVE IInv
  OBVIOUS
<1>1. /\ locks = [i \in Invocations |-> << >>] /\ on = [c \in Emitters |-> << >>]
      /\ ahead = [c \in Emitters |-> {}] /\ seen = {} /\ failures = {}
      /\ pos = [c \in Emitters |-> 1] /\ at = [c \in Emitters |-> "idle"]
      /\ obs = [c \in Emitters |-> 1] /\ failed = [c \in Emitters |-> FALSE] /\ aborted = {}
      /\ jobs = {} /\ runs = << >> /\ spans = {} /\ shut = {} /\ closing = <<"idle", 1>>
      /\ sent = [i \in Invocations |-> {}] /\ handled = [o \in Range(Bound) |-> {}]
      /\ disorder = {} /\ cut = {} /\ reported = [i \in Invocations |-> None]
  BY DEF Init
<1>2. \A c \in Emitters : ~Busy(c) /\ ~Dispatching(c) /\ at[c] = "idle"
  BY <1>1 DEF Busy, Dispatching
<1>3. TypeOK
  BY <1>1 DEF TypeOK, Stages, LockNames
<1>4. Standing /\ Queue
  BY <1>1, <1>2 DEF Standing, Queue
<1>5. Claims /\ OneLock /\ EndLast
  BY <1>1, <1>2 DEF Claims, OneLock, EndLast, Ended
<1>6. Deliveries /\ Tracked
  BY <1>1, <1>2 DEF Deliveries, Tracked, ToDo
<1>7. Reported
  BY <1>1 DEF Reported
<1>8. TracesEnded
  BY <1>1 DEF TracesEnded, OpenRuns, OpenSpans
<1>9. Closing
  BY <1>1 DEF Closing
<1> QED BY <1>3, <1>4, <1>5, <1>6, <1>7, <1>8, <1>9 DEF IInv

LEMMA StepInv == IInv /\ [Next]_vars => IInv'
<1> SUFFICES ASSUME IInv, [Next]_vars PROVE IInv'
  OBVIOUS
<1>1. /\ TypeOK /\ Standing /\ Queue /\ Claims /\ OneLock /\ EndLast
      /\ Deliveries /\ Tracked /\ Reported /\ TracesEnded /\ Closing
  BY DEF IInv
<1>2. TypeOK'
  BY <1>1, TypeStep
<1>3. Standing' /\ Queue' /\ Claims'
  BY <1>1, <1>2, StandingStep, QueueStep, ClaimsStep
<1>4. OneLock' /\ EndLast'
  BY <1>1, OneLockStep, EndLastStep
<1>5. Deliveries' /\ Tracked'
  BY <1>1, DeliveriesStep, TrackedStep
<1>6. Reported' /\ TracesEnded' /\ Closing'
  BY <1>1, ReportedStep, TracesEndedStep, ClosingStep
<1> QED BY <1>2, <1>3, <1>4, <1>5, <1>6 DEF IInv

(* The inductive invariant holds in every behaviour of emit() and close(). *)
THEOREM BusInvariance == Spec => []IInv
<1>1. Init => IInv
  BY InitInv
<1>2. IInv /\ [Next]_vars => IInv'
  BY StepInv
<1> QED BY <1>1, <1>2, PTL DEF Spec

(* emit() dispatches one event of an invocation at a time, up to and with  *)
(* its terminal event, whatever emitters await its lock and however they   *)
(* are cancelled: the lock that _release forgets is let go by no emitter   *)
(* of an event before that one.                                            *)
THEOREM SerialTheorem == Spec => []SerialUntilTerminal
<1>1. IInv => SerialUntilTerminal
  <2> SUFFICES ASSUME IInv, NEW c \in Emitters, NEW d \in Emitters, c # d,
                      Dispatching(c), Dispatching(d), Current(c).inv = Current(d).inv
      PROVE  /\ TerminalIds(Current(c).inv) \cap seen # {}
             /\ {Current(c).id, Current(d).id} \cap sent[Current(c).inv] = {}
    BY DEF SerialUntilTerminal
  <2> DEFINE i == Current(c).inv
  <2>1. Standing /\ Queue /\ OneLock /\ Busy(c) /\ Busy(d)
    BY DEF IInv, Busy, Dispatching
  <2>2. i \in Invocations
    BY <2>1, CurrentEvent, EventFacts DEF Standing
  <2>3. ahead[c] = {} /\ ahead[d] = {}
    BY <2>1 DEF Queue
  <2>4. on[c] # on[d]
    BY <2>1, <2>3 DEF Queue
  <2>5. Ended(i) /\ \A f \in Emitters : ~InHand(f, i)
    BY <2>1, <2>2, <2>4 DEF OneLock
  <2> QED BY <2>5 DEF Ended, InHand
<1> QED BY <1>1, BusInvariance, PTL

(* Whoever awaits a lock stands behind its holder, who is still in emit(), *)
(* whatever locks were forgotten and whichever emitters were cancelled:    *)
(* of those ahead, the one with the fewest before it has none.             *)
THEOREM LockTheorem == Spec => []NoEmitWaitsInVain
<1>1. Init => FirstCome
  <2> SUFFICES ASSUME Init PROVE FirstCome
    OBVIOUS
  <2>1. {c \in Emitters : Busy(c)} = {} /\ \A c \in Emitters : ahead[c] = {}
    BY DEF Init, Busy
  <2> QED BY <2>1, FS_EmptySet DEF FirstCome
<1>2. IInv /\ FirstCome /\ [Next]_vars => FirstCome'
  BY FirstComeStep DEF IInv
<1>3. IInv /\ FirstCome => NoEmitWaitsInVain
  <2> SUFFICES ASSUME TypeOK, FirstCome, NEW c \in Emitters, ~Holds(c)
               PROVE  \E d \in ahead[c] : Holds(d) /\ at[d] # "idle" /\ on[d] = on[c]
    BY DEF IInv, NoEmitWaitsInVain
  <2> DEFINE counts == {Cardinality(ahead[d]) : d \in ahead[c]}
  <2>1. ASSUME NEW d \in Emitters PROVE IsFiniteSet(ahead[d]) /\ Cardinality(ahead[d]) \in Nat
    <3>1. ahead[d] \in SUBSET {f \in Emitters : Busy(f)}
      BY DEF TypeOK, FirstCome
    <3> QED BY <3>1, FS_Subset, FS_CardinalityType DEF FirstCome
  <2>2. ahead[c] \subseteq Emitters /\ ahead[c] # {}
    BY DEF TypeOK, Holds
  <2>3. counts \subseteq Nat /\ counts # {}
    BY <2>1, <2>2
  <2>4. PICK n \in counts : \A m \in counts : ~(<<m, n>> \in OpToRel(<, Nat))
    BY <2>3, NatLessThanWellFounded, WFMin, Zenon
  <2>5. \A m \in counts : ~(m < n)
    BY <2>3, <2>4, Zenon DEF OpToRel
  <2>6. PICK d \in ahead[c] : n = Cardinality(ahead[d])
    BY <2>4
  <2>7. ASSUME NEW e \in ahead[d] PROVE FALSE
    <3>1. d \in Emitters /\ e \in Emitters /\ e \in ahead[c]
      BY <2>2, <2>6 DEF FirstCome, TypeOK
    <3>2. ahead[e] \in SUBSET (ahead[d] \ {e})
      BY <3>1 DEF FirstCome
    <3>3. IsFiniteSet(ahead[d] \ {e}) /\ Cardinality(ahead[d] \ {e}) = Cardinality(ahead[d]) - 1
      BY <2>1, <2>7, <3>1, FS_RemoveElement
    <3>4. Cardinality(ahead[e]) <= Cardinality(ahead[d]) - 1
      BY <3>2, <3>3, FS_Subset
    <3>5. Cardinality(ahead[e]) < n
      BY <2>1, <2>6, <3>1, <3>4
    <3> QED BY <2>5, <3>1, <3>5
  <2> QED BY <2>2, <2>6, <2>7 DEF FirstCome, Holds, Busy
<1> QED BY <1>1, <1>2, <1>3, BusInvariance, PTL DEF Spec

(* A completed result that names no failure of an observer is right about  *)
(* it: what emit() handed to it, the observer handled, once and in order,  *)
(* a late thread or a raising client notwithstanding.                      *)
THEOREM HonestTheorem == Spec => []HonestResult
<1>1. IInv => HonestResult
  BY DEF IInv, HonestResult, Reported
<1> QED BY <1>1, BusInvariance, PTL

(* Once the terminal event of an invocation has been dispatched, neither   *)
(* observer holds an open run of it, or a span of its turn or of itself,   *)
(* but those of stray events, unless the observer failed for it or was     *)
(* closed.                                                                 *)
THEOREM TraceTheorem == Spec => []TraceEnds
<1>1. IInv => TraceEnds
  <2> SUFFICES ASSUME IInv, NEW i \in Invocations \ {Runtime}, Sealed(i)
      PROVE  /\ <<LangSmith, i>> \in failures \/ LangSmith \in shut
                \/ OpenRuns(i) \subseteq StrayRuns(i)
             /\ <<OpenTelemetry, i>> \in failures \/ OpenTelemetry \in shut
                \/ OpenSpans(i) \subseteq LateSpans(i)
    BY DEF TraceEnds, OpenRuns, OpenSpans, StrayRuns, LateSpans
  <2>1. PICK t \in TerminalIds(i) \cap (sent[i] \ cut) : \A c \in Emitters : Dispatching(c) => Current(c).id # t
    BY DEF Sealed
  <2>2. ASSUME NEW o \in Range(Bound), Fine(o, i) PROVE Through(o, i)
    <3>1. TrackedFor(o, i)
      BY <2>2, TrackedIs DEF IInv
    <3>2. t \notin Pending(o, i)
      BY <2>1, <3>1 DEF TrackedFor, InHand
    <3> QED BY <2>1, <2>2, <3>2 DEF Pending, Through
  <2>3. TracesEnded
    BY DEF IInv
  <2> QED BY <2>2, <2>3 DEF TracesEnded, Fine, OpenRuns, OpenSpans
<1> QED BY <1>1, BusInvariance, PTL

(* close() leaves no span behind, unless that of OpenTelemetryObserver     *)
(* raised: the events that were on their way when it was closed open none. *)
THEOREM ClosedTheorem == Spec => []ClosedObserverHoldsNothing
<1>1. IInv => ClosedObserverHoldsNothing
  BY DEF IInv, ClosedObserverHoldsNothing, Closing
<1> QED BY <1>1, BusInvariance, PTL
=============================================================================
