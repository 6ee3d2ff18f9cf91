------------------------------ MODULE EventBus ------------------------------
(***************************************************************************)
(* RuntimeEventBus: emit() with its lock per invocation, and the shutdown  *)
(* of the observers in close(), composed with the two observers of the     *)
(* package.  LangSmithObserver hands an event to a worker thread, which    *)
(* outlives the dispatch timeout; OpenTelemetryObserver handles it on the  *)
(* loop.                                                                   *)
(*                                                                         *)
(* An emitter is a coroutine that emits the events of its script in order: *)
(* the stream of an invocation, a tool call, or the runtime itself.        *)
(***************************************************************************)
EXTENDS Naturals, Sequences, FiniteSets, Functions, Observers

CONSTANTS
    Script,      \* [emitters -> Seq(events)], events of Observers with an id and
                 \* after, the id of the event that causes them (None: no cause)
    Runtime,     \* inv of an event that belongs to no invocation
    Bound,       \* the enabled bindings, in order
    LangSmith, OpenTelemetry,
    CloseAfter,  \* bound: close() begins once this event was dispatched
    Workers,     \* threads of the pool: more jobs than that have not begun
    MaxFaults,   \* bound on the raising observers and cancelled coroutines of a behaviour
    None

Emitters == DOMAIN Script
Events == UNION {Range(Script[c]) : c \in Emitters}
Invocations == {e.inv : e \in Events}

(* An observer is bound once (ObservabilityConfig.__post_init__); an       *)
(* event_id is a fresh uuid, so what bears it twice is the same event.     *)
ASSUME BusAssumption ==
    /\ LangSmith # OpenTelemetry
    /\ Bound \in Seq({LangSmith, OpenTelemetry})
    /\ \A i, j \in DOMAIN Bound : i # j => Bound[i] # Bound[j]
    /\ \A c \in Emitters : Script[c] \in Seq(Events)
    /\ \A e \in Events :
          e = [id |-> e.id, inv |-> e.inv, kind |-> e.kind, call |-> e.call, after |-> e.after]
    /\ \A e, f \in Events :
          e.id = f.id => e.inv = f.inv /\ e.kind = f.kind /\ e.call = f.call

VARIABLES
    strict,      \* config.strict
    closed,      \* _closed
    locks,       \* _locks: a lock is named after the emit() that created it (<< >>: none)
    on,          \* the lock each emitter holds or awaits
    ahead,       \* the emitters that asked for that lock before it and have not left
    seen,        \* _seen
    failures,    \* _failure_index: pairs of an observer and a scope
    pos,         \* the script position of each emitter
    at,          \* where each emitter stands in emit()
    obs,         \* the binding it is at
    failed,      \* strict_failure is set
    aborted,     \* emitters whose script was cut short
    jobs,        \* events handed to a worker thread (external) and not handled yet
    runs, spans, \* LangSmithObserver._runs, OpenTelemetryObserver._spans
    shut,        \* observers whose own _closed is set
    closing,     \* where close() stands, and the binding it is at
    faults,      \* how many there were
    sent, handled, disorder, cut, reported  \* histories, below

busVars == <<closed, locks, on, ahead, seen, failures>>
emitVars == <<pos, at, obs, failed, aborted>>
obsVars == <<jobs, runs, spans, shut>>
(* sent[i]: the ids dispatched for i up to its terminal event; handled[o]:  *)
(* the ids o handled; disorder: <<o, i>> when o handled an event of i twice *)
(* or before an earlier one; cut: ids whose dispatch was cancelled;         *)
(* reported[i]: the observers the completed result of i names, None before. *)
history == <<sent, handled, disorder, cut, reported>>
vars == <<strict, busVars, emitVars, obsVars, closing, faults, history>>

Init ==
    /\ strict \in BOOLEAN
    /\ closed = FALSE /\ locks = [i \in Invocations |-> << >>]
    /\ on = [c \in Emitters |-> << >>] /\ ahead = [c \in Emitters |-> {}]
    /\ seen = {} /\ failures = {}
    /\ pos = [c \in Emitters |-> 1] /\ at = [c \in Emitters |-> "idle"]
    /\ obs = [c \in Emitters |-> 1] /\ failed = [c \in Emitters |-> FALSE]
    /\ aborted = {}
    /\ jobs = {} /\ runs = << >> /\ spans = {} /\ shut = {}
    /\ closing = <<"idle", 1>> /\ faults = 0
    /\ sent = [i \in Invocations |-> {}] /\ handled = [o \in Range(Bound) |-> {}] /\ disorder = {}
    /\ cut = {} /\ reported = [i \in Invocations |-> None]

(* The event an emitter is at.  A script that was cut short ends with      *)
(* CANCELLED instead of INVOCATION_COMPLETED.                              *)
Current(c) ==
    LET e == Script[c][pos[c]]
    IN IF c \in aborted /\ e.kind = "invocation_completed" THEN [e EXCEPT !.kind = "cancelled"] ELSE e

Observer(c) == Bound[obs[c]]
Holds(c) == ahead[c] = {}

(* Mutant: the end of a turn releases the invocation too.                  *)
TerminalWithTurn(kind) == kind \in InvocationEnds \cup TurnEnds

(* _TERMINAL_KINDS                                                         *)
Terminal(kind) == kind \in InvocationEnds

TerminalIds(i) == {e.id : e \in {f \in Events : f.inv = i /\ f.kind \in InvocationEnds}}

(* History: o handled e.                                                   *)
Observes(o, e) ==
    /\ handled' = [handled EXCEPT ![o] = @ \cup {e.id}]
    /\ disorder' = IF /\ e.id \in sent[e.inv] \ cut
                       /\ sent[e.inv] \ (handled[o] \cup cut) # {e.id}
                    THEN disorder \cup {<<o, e.inv>>} ELSE disorder

(* _release, from the finally clause of emit()                             *)
Release(c) ==
    locks' = IF Terminal(Current(c).kind) THEN [locks EXCEPT ![Current(c).inv] = << >>] ELSE locks

(* Mutant: those that await the lock are not told that it was let go.      *)
LeaveWakesNobody(c) ==
    /\ on' = [on EXCEPT ![c] = << >>]
    /\ ahead' = [ahead EXCEPT ![c] = {}]
    /\ at' = [at EXCEPT ![c] = "idle"]
    /\ obs' = [obs EXCEPT ![c] = 1] /\ failed' = [failed EXCEPT ![c] = FALSE]

(* emit() comes back: the lock goes to the first of those that await it.   *)
Leave(c) ==
    /\ on' = [on EXCEPT ![c] = << >>]
    /\ ahead' = [d \in Emitters |-> IF d = c THEN {} ELSE ahead[d] \ {c}]
    /\ at' = [at EXCEPT ![c] = "idle"]
    /\ obs' = [obs EXCEPT ![c] = 1] /\ failed' = [failed EXCEPT ![c] = FALSE]

(* emit() raised into the emitter: it goes on with its last event, if at all. *)
Abort(c) ==
    /\ aborted' = aborted \cup {c}
    /\ \E p \in {Len(Script[c]), Len(Script[c]) + 1} : p > pos[c] /\ pos' = [pos EXCEPT ![c] = p]

(* Something external goes wrong.                                          *)
Fault == faults < MaxFaults /\ faults' = faults + 1

(* _record_failure: once for each observer and scope                       *)
RecordFailure(o, scope) == failures' = failures \cup {<<o, scope>>}

DispatchFails(c) ==
    /\ RecordFailure(Observer(c), Current(c).inv)
    /\ failed' = [failed EXCEPT ![c] = TRUE]

-----------------------------------------------------------------------------
(* emit()                                                                  *)

(* A closed bus returns the event as it is.                                *)
EmitClosed(c) ==
    /\ at[c] = "idle" /\ pos[c] \in DOMAIN Script[c] /\ closed
    /\ pos' = [pos EXCEPT ![c] = @ + 1]
    /\ UNCHANGED <<strict, faults, busVars, at, obs, failed, aborted, obsVars, closing, history>>

Emit(c) ==
    /\ at[c] = "idle" /\ pos[c] \in DOMAIN Script[c] /\ ~closed
    /\ Current(c).after \in seen \cup {None}
    /\ LET lock == IF locks[Current(c).inv] = << >> THEN <<c, pos[c]>> ELSE locks[Current(c).inv]
       IN /\ locks' = [locks EXCEPT ![Current(c).inv] = lock]
          /\ on' = [on EXCEPT ![c] = lock]
          /\ ahead' = [ahead EXCEPT ![c] = {d \in Emitters : on[d] = lock}]
    /\ at' = [at EXCEPT ![c] = "lock"]
    /\ UNCHANGED <<strict, faults, closed, seen, failures, pos, obs, failed, aborted, obsVars, closing, history>>

Duplicate(c) == Current(c).id \in seen

EmitDuplicate(c) ==
    /\ at[c] = "lock" /\ Holds(c) /\ Duplicate(c)
    /\ Leave(c) /\ Release(c)
    /\ pos' = [pos EXCEPT ![c] = @ + 1]
    /\ UNCHANGED <<strict, faults, closed, seen, failures, aborted, obsVars, closing, history>>

EmitClaims(c) ==
    /\ at[c] = "lock" /\ Holds(c) /\ ~Duplicate(c)
    /\ seen' = seen \cup {Current(c).id}
    /\ at' = [at EXCEPT ![c] = "dispatch"]
    /\ LET i == Current(c).inv
       IN sent' = IF TerminalIds(i) \cap seen # {} THEN sent
                  ELSE [sent EXCEPT ![i] = @ \cup {Current(c).id}]
    /\ UNCHANGED <<strict, faults, closed, locks, on, ahead, failures, pos, obs, failed, aborted, obsVars,
                   closing, handled, disorder, cut, reported>>

AtObserver(c, o) == at[c] = "dispatch" /\ obs[c] \in DOMAIN Bound /\ Observer(c) = o
NextObserver(c) == obs' = [obs EXCEPT ![c] = @ + 1]

ObserverIgnores(c) ==
    /\ \E o \in shut : AtObserver(c, o)
    /\ NextObserver(c)
    /\ UNCHANGED <<strict, faults, busVars, pos, at, failed, aborted, obsVars, closing, history>>

(* LangSmithObserver.on_event: asyncio.to_thread under wait_for            *)
ToThread(c) ==
    /\ AtObserver(c, LangSmith) /\ LangSmith \notin shut
    /\ jobs' = jobs \cup {Current(c)}
    /\ at' = [at EXCEPT ![c] = "thread"]
    /\ UNCHANGED <<strict, faults, busVars, pos, obs, failed, aborted, runs, spans, shut, closing, history>>

Awaiting(e) == {c \in Emitters : at[c] = "thread" /\ Current(c).id = e.id}

(* The worker thread handles the event, whether or not it is still awaited. *)
ThreadHandles(e) ==
    /\ jobs' = jobs \ {e}
    /\ runs' = LangSmithHandles(runs, e)
    /\ Observes(LangSmith, e)
    /\ at' = [c \in Emitters |-> IF c \in Awaiting(e) THEN "answered" ELSE at[c]]
    /\ UNCHANGED <<strict, faults, busVars, pos, obs, failed, aborted, spans, shut, closing, sent, cut, reported>>

(* The client raises: no run is created, or the first of the ended ones is *)
(* forgotten.                                                              *)
ThreadRaises(e) ==
    /\ Fault
    /\ jobs' = jobs \ {e}
    /\ LET ended == DOMAIN runs \ DOMAIN LangSmithHandles(runs, e)
       IN runs' = IF ended = {} THEN runs ELSE FinishRuns(runs, {Oldest(runs, ended)})
    /\ at' = [c \in Emitters |-> IF c \in Awaiting(e) THEN "raised" ELSE at[c]]
    /\ UNCHANGED <<strict, busVars, pos, obs, failed, aborted, spans, shut, closing, history>>

(* The loop goes on with what the thread answered.                         *)
Resumes(c) ==
    /\ \/ at[c] = "answered" /\ UNCHANGED <<failures, failed>>
       \/ at[c] = "raised" /\ DispatchFails(c)
    /\ at' = [at EXCEPT ![c] = "dispatch"] /\ NextObserver(c)
    /\ UNCHANGED <<strict, faults, closed, locks, on, ahead, seen, pos, aborted, obsVars, closing, history>>

(* A job nobody awaits any more goes on in its thread if it has begun, and *)
(* is dropped if not.                                                      *)
Forsake(c) ==
    \/ jobs' = jobs \ {Current(c)}
    \/ Cardinality(jobs) <= Workers /\ UNCHANGED jobs

(* Mutant: an exporter that does not answer is awaited for ever.           *)
TimesOutNever(c) == FALSE /\ UNCHANGED vars

(* wait_for gives up.                                                      *)
TimesOut(c) ==
    /\ at[c] \in {"thread", "answered", "raised"}
    /\ DispatchFails(c) /\ NextObserver(c)
    /\ at' = [at EXCEPT ![c] = "dispatch"]
    /\ Forsake(c)
    /\ UNCHANGED <<strict, faults, closed, locks, on, ahead, seen, pos, aborted, runs, spans, shut, closing, history>>

(* Mutant: a closed observer goes on recording.                            *)
TracesWhenClosed(c) ==
    /\ AtObserver(c, OpenTelemetry)
    /\ NextObserver(c)
    /\ spans' = OpenTelemetryHandles(spans, Current(c))
    /\ Observes(OpenTelemetry, Current(c))
    /\ UNCHANGED <<strict, faults, busVars, pos, at, failed, aborted, jobs, runs, shut, closing, sent, cut, reported>>

(* OpenTelemetryObserver.on_event; the host's tracer or meter may raise.   *)
Traces(c) ==
    /\ AtObserver(c, OpenTelemetry) /\ OpenTelemetry \notin shut
    /\ NextObserver(c)
    /\ \/ /\ spans' = OpenTelemetryHandles(spans, Current(c))
          /\ Observes(OpenTelemetry, Current(c))
          /\ UNCHANGED <<failures, failed, faults>>
       \/ /\ Fault /\ DispatchFails(c)
          /\ spans' \in OpenTelemetryRaises(spans, Current(c))
          /\ UNCHANGED <<handled, disorder>>
    /\ UNCHANGED <<strict, closed, locks, on, ahead, seen, pos, at, aborted, jobs, runs, shut, closing,
                   sent, cut, reported>>

(* Mutant: a result names the failures of its own last event only.         *)
ScopedLast(c) == {o \in Range(Bound) : failed[c] /\ <<o, Current(c).inv>> \in failures}

(* The diagnostics _enrich_terminal attaches: those of the invocation and  *)
(* those of none.                                                          *)
Scoped(c) ==
    {o \in Range(Bound) : \E s \in {Current(c).inv, Runtime, "flush", "close"} : <<o, s>> \in failures}

EmitReturns(c) ==
    /\ at[c] = "dispatch" /\ obs[c] \notin DOMAIN Bound
    /\ ~(failed[c] /\ strict)
    /\ reported' = IF Current(c).kind # "invocation_completed" THEN reported
                   ELSE [reported EXCEPT ![Current(c).inv] = Scoped(c)]
    /\ Leave(c) /\ Release(c)
    /\ pos' = [pos EXCEPT ![c] = @ + 1]
    /\ UNCHANGED <<strict, faults, closed, seen, failures, aborted, obsVars, closing, sent, handled, disorder, cut>>

EmitRaises(c) ==
    /\ at[c] = "dispatch" /\ obs[c] \notin DOMAIN Bound
    /\ failed[c] /\ strict
    /\ Leave(c) /\ Release(c) /\ Abort(c)
    /\ UNCHANGED <<strict, faults, closed, seen, failures, obsVars, closing, history>>

(* The emitter is cancelled at an await: of the lock, or of an observer.   *)
EmitCancelled(c) ==
    /\ Fault
    /\ \/ at[c] = "lock" /\ UNCHANGED <<locks, cut, jobs>>
       \/ /\ at[c] \in {"thread", "answered", "raised"}
          /\ Release(c) /\ Forsake(c) /\ cut' = cut \cup {Current(c).id}
    /\ Leave(c) /\ Abort(c)
    /\ UNCHANGED <<strict, closed, seen, failures, runs, spans, shut, closing, sent, handled, disorder, reported>>

-----------------------------------------------------------------------------
(* close(): flush every observer, then close every observer, then _closed. *)

BusCloses ==
    /\ closing = <<"idle", 1>> /\ CloseAfter \in seen
    /\ closing' = IF Bound = << >> THEN <<"end", 1>> ELSE <<"flush", 1>>
    /\ UNCHANGED <<strict, faults, busVars, emitVars, obsVars, history>>

LifecycleStep(stage, next) ==
    /\ closing[1] = stage
    /\ closing' = IF closing[2] = Len(Bound) THEN <<next, 1>> ELSE <<stage, closing[2] + 1>>

(* LangSmith's client raises, or a span that OpenTelemetryObserver ends.   *)
LifecycleFails(stage) ==
    /\ Fault
    /\ Bound[closing[2]] = LangSmith \/ (stage = "close" /\ spans # {})
    /\ RecordFailure(Bound[closing[2]], stage)

FlushObserver ==
    /\ LifecycleStep("flush", "close")
    /\ UNCHANGED <<failures, faults>> \/ LifecycleFails("flush")
    /\ UNCHANGED <<strict, closed, locks, on, ahead, seen, emitVars, obsVars, history>>

(* OpenTelemetryObserver.close ends its spans.                             *)
SpansAfterClose(o) == IF o = OpenTelemetry THEN {} ELSE spans

(* The observer refuses events from here on, also when its close() raises: *)
(* the spans are then still held.  The runs that LangSmith holds stay open. *)
CloseObserver ==
    /\ LifecycleStep("close", "end")
    /\ shut' = shut \cup {Bound[closing[2]]}
    /\ \/ spans' = SpansAfterClose(Bound[closing[2]]) /\ UNCHANGED <<failures, faults>>
       \/ LifecycleFails("close") /\ UNCHANGED spans
    /\ UNCHANGED <<strict, closed, locks, on, ahead, seen, emitVars, jobs, runs, history>>

BusClosed ==
    /\ closing[1] = "end"
    /\ closed' = TRUE /\ closing' = <<"done", 1>>
    /\ UNCHANGED <<strict, faults, locks, on, ahead, seen, failures, emitVars, obsVars, history>>

(* Cancelled, close() leaves the bus open when it was flushing, and closed *)
(* with some observers open when it was closing them.                      *)
BusCloseCancelled ==
    /\ Fault
    /\ closing[1] \in {"flush", "close"}
    /\ closed' = (closing[1] = "close")
    /\ closing' = <<"cancelled", 1>>
    /\ UNCHANGED <<strict, locks, on, ahead, seen, failures, emitVars, obsVars, history>>

-----------------------------------------------------------------------------
(* Between two awaits the loop runs one coroutine: a dispatch goes on      *)
(* until it awaits a thread or returns.  What a worker thread does         *)
(* meanwhile commutes with it.                                             *)
Running == {c \in Emitters : at[c] = "dispatch"}

LoopStep(c) ==
    \/ ObserverIgnores(c) \/ ToThread(c) \/ Traces(c) \/ EmitReturns(c) \/ EmitRaises(c)
    \/ Running = {} /\ (EmitClosed(c) \/ EmitDuplicate(c) \/ EmitClaims(c) \/ Resumes(c) \/ TimesOut(c))

Next ==
    \/ \E c \in Emitters : LoopStep(c)
    \/ Running = {} /\
         \/ \E c \in Emitters : Emit(c) \/ EmitCancelled(c)
         \/ \E e \in jobs : ThreadHandles(e) \/ ThreadRaises(e)
         \/ BusCloses \/ FlushObserver \/ CloseObserver \/ BusClosed \/ BusCloseCancelled

Spec == Init /\ [][Next]_vars

(* The loop runs a coroutine that is ready, and a timer fires.  A worker   *)
(* thread need never come back.                                            *)
FairSpec == Spec /\ \A c \in Emitters : WF_vars(LoopStep(c))

-----------------------------------------------------------------------------
(* Properties                                                              *)

Dispatching(c) == at[c] \notin {"idle", "lock"}

(* emit() hands the observers one event of an invocation at a time, its    *)
(* terminal event included (the first one: an interrupted turn emits       *)
(* INTERRUPTED and INVOCATION_FAILED): two dispatches overlap only behind  *)
(* that one.                                                               *)
SerialUntilTerminal ==
    \A c, d \in Emitters :
        c # d /\ Dispatching(c) /\ Dispatching(d) /\ Current(c).inv = Current(d).inv =>
            LET i == Current(c).inv
            IN TerminalIds(i) \cap seen # {} /\ {Current(c).id, Current(d).id} \cap sent[i] = {}

(* An emitter that awaits the lock of an invocation stands behind one that *)
(* holds that very lock and is still in emit(), also when _release has     *)
(* forgotten the lock in the meantime, a newcomer has created another, or  *)
(* emitters were cancelled before and behind it: nobody awaits a lock that *)
(* is not let go.                                                          *)
NoEmitWaitsInVain ==
    \A c \in Emitters : at[c] = "lock" /\ ~Holds(c) =>
        \E d \in ahead[c] : Holds(d) /\ at[d] # "idle" /\ on[d] = on[c]

(* A completed result that does not name an observer vouches for it: the   *)
(* observer handled every event of the invocation once and in the order of *)
(* emit(), but for events whose emitter was cancelled and a bus that had   *)
(* begun to close (dispatch timeouts, raising clients and late threads     *)
(* included).                                                              *)
HonestResult ==
    \A i \in Invocations \ {Runtime}, o \in Range(Bound) :
        reported[i] # None /\ o \notin reported[i] /\ closing = <<"idle", 1>> =>
            sent[i] \ cut \subseteq handled[o] /\ <<o, i>> \notin disorder

(* The terminal event of an invocation has gone to every observer.         *)
Sealed(i) ==
    \E t \in TerminalIds(i) \cap (sent[i] \ cut) :
        \A c \in Emitters : Dispatching(c) => Current(c).id # t

(* The events emitted behind the terminal event, and with them those whose *)
(* dispatch was cancelled: a worker thread may still handle them.          *)
Behind(i) == {e \in Events : e.inv = i /\ e.id \in seen \ sent[i]}
Strays(i) == Behind(i) \cup {e \in Events : e.inv = i /\ e.id \in cut}

(* When the terminal event of an invocation has been dispatched, its trace *)
(* has ended, unless the observer failed for the invocation or was closed: *)
(* LangSmithObserver holds no run of it but one that a stray event opens   *)
(* itself, and OpenTelemetryObserver neither its turn nor its invocation   *)
(* span but one that an event behind the terminal one opens.  So a tool    *)
(* whose last event was cancelled or never came leaves no run behind, and  *)
(* a late tool event can reopen its own run only.                          *)
TraceEnds ==
    \A i \in Invocations \ {Runtime} : Sealed(i) =>
        /\ <<LangSmith, i>> \in failures \/ LangSmith \in shut
           \/ {r \in DOMAIN runs : r[1] = i} \subseteq UNION {OpenedRuns(e) : e \in Strays(i)}
        /\ <<OpenTelemetry, i>> \in failures \/ OpenTelemetry \in shut
           \/ {<<i, "turn">>, <<i, "invocation">>} \cap spans \subseteq
                  UNION {OpenedSpans(e) : e \in Behind(i)}

(* After close() no span is left open, whatever was being emitted          *)
(* meanwhile: an emit() that had passed the test of _closed finds the      *)
(* observer closed.  Only the observer's own close() can leave one: it     *)
(* raised, and the bus recorded that.                                      *)
ClosedObserverHoldsNothing ==
    closing[1] = "done" /\ OpenTelemetry \in Range(Bound) /\ <<OpenTelemetry, "close">> \notin failures =>
        spans = {}

(* emit() always comes back to its caller, whatever a worker thread does:  *)
(* no exporter can stall the run that emits, nor the emitters behind it.   *)
EmitAlwaysReturns ==
    \A c \in Emitters : at[c] # "idle" ~> at[c] = "idle"
=============================================================================
