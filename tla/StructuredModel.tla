-------------------------- MODULE StructuredModel --------------------------
(***************************************************************************)
(* The generators that drive TurnRun.events(): astream() of a model and of *)
(* a session pass its events on; StructuredCodexModel.astream() buffers    *)
(* one attempt after the other, validates and retries, and yields one      *)
(* logical stream.                                                         *)
(*                                                                         *)
(* frame says which generator runs: "start" (_start_run or _start_turn),   *)
(* "run" (events()), "logical" (_events()), "handling" and "cleanup" (an   *)
(* except and a finally clause that await _interrupt_or_invalidate), or    *)
(* "consumer", which has item to take.                                     *)
(***************************************************************************)
EXTENDS TurnStream, Sequences

CONSTANTS
    MaxAttempts, \* StructuredOutputPolicy.max_attempts
    MaxCancels   \* bound on cancellations by the host

ASSUME StructuredAssumption == MaxAttempts \in Nat \ {0}

VARIABLES
    mode,        \* "model", "session" or "structured"
    frame, item,
    lpc,         \* where _events() stands
    attempt, buffer,
    spent,       \* how many usages are collected
    log,         \* kinds of the invocation's events on the bus; an index is a sequence number
    registered,  \* the run is in _active_runs
    held,        \* its workspace exists; for a session: its lock is held
    live,        \* the generator is suspended or running
    abandoned,   \* _events() awaits its finalizer
    deadline,    \* timeout_seconds has not passed
    cancels,
    turns,       \* provider turns begun (external)
    cutCleanup   \* a start was cancelled, or something was raised in a finally clause

bufVars == <<lpc, attempt, buffer, spent>>
resVars == <<registered, held, live>>
envVars == <<deadline, cancels, cutCleanup>>
streamVars == <<runVars, mode, frame, item, bufVars, log, resVars, abandoned, envVars, turns>>

StreamInit ==
    /\ RunInit
    /\ mode \in {"model", "session", "structured"}
    /\ frame = "idle" /\ item = End
    /\ lpc = "announce" /\ attempt = 1 /\ buffer = << >> /\ spent = 0
    /\ log = << >>
    /\ registered = FALSE /\ held = FALSE /\ live = FALSE
    /\ abandoned = FALSE /\ deadline \in BOOLEAN /\ cancels = 0 /\ turns = 0
    /\ cutCleanup = FALSE

Structured == mode = "structured"

(* What an await may raise: the host cancels the task, or the deadline of  *)
(* asyncio.timeout() passes.                                               *)
Interrupted(why) ==
    \/ why = "cancelled" /\ cancels < MaxCancels /\ cancels' = cancels + 1 /\ UNCHANGED deadline
    \/ why = "timeout" /\ deadline /\ deadline' = FALSE /\ UNCHANGED cancels

Deliver(out) == frame' = "consumer" /\ item' = out
OnBus(kind) == log' = Append(log, kind)

(* Mutant: the finally clause forgets the workspace.                       *)
FinishKeepsWorkspace(out) == Deliver(out) /\ registered' = FALSE /\ live' = FALSE /\ held' = held

(* The outer finally clause; the consumer sees what remains.               *)
Finish(out) == Deliver(out) /\ registered' = FALSE /\ live' = FALSE /\ held' = FALSE

(* An error inside the finally clause skips the rest of it.                *)
CutShort(error) ==
    /\ Deliver(Raise(error)) /\ live' = FALSE /\ UNCHANGED held
    /\ cutCleanup' = TRUE

-----------------------------------------------------------------------------
(* _start_run, and _start_turn of a session                                *)

Started ==
    /\ frame = "start"
    /\ NewRun /\ turns' = turns + 1
    /\ registered' = TRUE
    /\ frame' = IF Structured THEN "logical" ELSE "run"
    /\ UNCHANGED <<mode, item, bufVars, log, held, live, abandoned, envVars>>

StartFails ==
    /\ frame = "start"
    /\ Finish(Raise("start"))
    /\ UNCHANGED <<runVars, mode, bufVars, log, abandoned, envVars, turns>>

(* Cancelled, _start_run leaves its workspace: its handler names Exception. *)
StartCancelled(why) ==
    /\ frame = "start"
    /\ Interrupted(why) /\ (why = "timeout" => Structured)
    /\ Deliver(Raise(why)) /\ live' = FALSE /\ held' = (mode # "session")
    /\ cutCleanup' = TRUE
    /\ provider' \in {"none", "running"}
    /\ UNCHANGED <<at, status, notes, repeats, mode, bufVars, log, registered, abandoned, turns>>

-----------------------------------------------------------------------------
(* astream() of a model or a session                                       *)

PlainStep ==
    /\ frame = "run" /\ ~Structured
    /\ \E out \in Outs :
         /\ RunStep(out)
         /\ IF out.type \in {"yield", "lost"} THEN OnBus(out.what) ELSE UNCHANGED log
         /\ \/ out.type = "yield" /\ Deliver(out) /\ UNCHANGED resVars
            \/ out.type \in {"lost", "quiet"} /\ UNCHANGED <<frame, item, resVars>>
            \/ /\ out.type \in {"raise", "end"}
               /\ IF status = None
                  THEN frame' = "cleanup" /\ item' = out /\ UNCHANGED resVars
                  ELSE Finish(out)
    /\ UNCHANGED <<mode, bufVars, abandoned, envVars, turns>>

PlainCancelled(why) ==
    /\ frame = "run" /\ ~Structured
    /\ Interrupted(why) /\ RunCancelled
    /\ IF at = "reporting" THEN UNCHANGED log ELSE OnBus("cancelled")
    /\ frame' = "handling" /\ item' = Raise(why)
    /\ UNCHANGED <<mode, bufVars, resVars, abandoned, cutCleanup, turns>>

(* The except clause has interrupted the turn, was cancelled itself, or    *)
(* raises because runtime.close() did, which has emptied the registry.     *)
Handled ==
    /\ frame = "handling"
    /\ \/ InterruptOrInvalidate /\ UNCHANGED <<item, registered, deadline, cancels>>
       \/ /\ InvalidateRaises /\ item' = Raise("invalidate") /\ registered' = FALSE
          /\ UNCHANGED <<deadline, cancels>>
       \/ /\ Interrupted("cancelled") /\ item' = Raise("cancelled")
          /\ UNCHANGED <<runVars, registered>>
    /\ frame' = IF status = None /\ ~Structured THEN "cleanup" ELSE "finish"
    /\ UNCHANGED <<mode, bufVars, log, held, live, abandoned, cutCleanup, turns>>

HandledFinishes ==
    /\ frame = "finish"
    /\ Finish(item)
    /\ UNCHANGED <<runVars, mode, bufVars, log, abandoned, envVars, turns>>

CleanedUp ==
    /\ frame = "cleanup"
    /\ InterruptOrInvalidate /\ Finish(item)
    /\ UNCHANGED <<mode, bufVars, log, abandoned, envVars, turns>>

(* runtime.close() raises inside the finally clause; the logical stream    *)
(* has a second one around it.                                             *)
CleanupRaises ==
    /\ frame = "cleanup"
    /\ InvalidateRaises
    /\ IF Structured THEN Finish(Raise("invalidate")) /\ UNCHANGED cutCleanup
       ELSE CutShort("invalidate") /\ registered' = FALSE
    /\ UNCHANGED <<mode, bufVars, log, abandoned, deadline, cancels, turns>>

(* The finally clause is cancelled.  In the logical stream the run is      *)
(* still in active[0], and astream() interrupts it once more.              *)
CleanupCancelled(why) ==
    /\ frame = "cleanup"
    /\ Interrupted(why) /\ (why = "timeout" => Structured)
    /\ IF Structured
       THEN /\ frame' = "handling"
            /\ item' = IF item = Raise("cancelled") THEN item ELSE Raise(why)
            /\ registered' = FALSE /\ held' = FALSE /\ UNCHANGED <<live, cutCleanup>>
       ELSE CutShort("cancelled") /\ UNCHANGED registered
    /\ UNCHANGED <<runVars, mode, bufVars, log, abandoned, turns>>

-----------------------------------------------------------------------------
(* StructuredCodexModel._events()                                          *)

(* Mutant: the completion of every attempt is passed on.                   *)
SkippedButCompletion == {"output_text_delta", "invocation_started"}

Skipped == {"output_text_delta", "invocation_completed", "invocation_started"}

(* Mutant: the usage of the last attempt only.                             *)
UsagesLast == 1

Usages == spent + 1

Collect ==
    /\ frame = "run" /\ Structured
    /\ \E out \in Outs :
         /\ RunStep(out)
         /\ \/ out.type = "quiet" /\ UNCHANGED <<frame, item, lpc, buffer, spent, resVars>>
            \/ /\ out.type = "yield"
               /\ buffer' = IF out.what \in Skipped THEN buffer ELSE Append(buffer, out.what)
               /\ UNCHANGED <<frame, item, lpc, spent, resVars>>
            \/ /\ out.type = "raise"
               /\ IF status = None
                  THEN frame' = "cleanup" /\ item' = out /\ UNCHANGED resVars
                  ELSE Finish(out)
               /\ UNCHANGED <<buffer, lpc, spent>>
            \/ /\ out.type = "end"
               /\ registered' = FALSE /\ spent' = Usages
               /\ frame' = "logical" /\ lpc' = "replay"
               /\ UNCHANGED <<item, buffer, held, live>>
    /\ UNCHANGED <<mode, attempt, log, abandoned, envVars, turns>>

CollectCancelled(why) ==
    /\ frame = "run" /\ Structured
    /\ Interrupted(why) /\ RunCancelled
    /\ IF status = None
       THEN frame' = "cleanup" /\ item' = Raise(why) /\ UNCHANGED resVars
       ELSE Finish(Raise(why))
    /\ UNCHANGED <<mode, bufVars, log, abandoned, cutCleanup, turns>>

(* The event is dispatched and yielded; lpc is where _events() goes on.  A *)
(* strict bus may raise, or the dispatch is cancelled, with the event on   *)
(* the bus.                                                                *)
Dispatches(kind, from, to) ==
    /\ frame = "logical" /\ lpc = from /\ lpc' = to
    /\ OnBus(kind)
    /\ \/ Deliver(Yield(kind)) /\ UNCHANGED <<resVars, deadline, cancels>>
       \/ Finish(Raise("observability")) /\ UNCHANGED <<deadline, cancels>>
       \/ \E why \in {"cancelled", "timeout"} : Interrupted(why) /\ Finish(Raise(why))
    /\ UNCHANGED <<runVars, mode, attempt, spent, abandoned, cutCleanup, turns>>

Announce == Dispatches("invocation_started", "announce", "attempt") /\ UNCHANGED buffer

Replay ==
    /\ buffer # << >>
    /\ Dispatches(Head(buffer), "replay", "replay") /\ buffer' = Tail(buffer)

Completes == buffer = << >> /\ Dispatches("invocation_completed", "replay", "completed") /\ UNCHANGED buffer

ValidationFails == buffer = << >> /\ Dispatches("validation_failed", "replay", "invalid") /\ UNCHANGED buffer

Exhausted ==
    /\ attempt >= MaxAttempts
    /\ Dispatches("invocation_failed", "invalid", "exhausted") /\ UNCHANGED buffer

RetryScheduled ==
    /\ attempt < MaxAttempts
    /\ Dispatches("retry_scheduled", "invalid", "retry") /\ UNCHANGED buffer

Retries ==
    /\ frame = "logical" /\ lpc = "retry"
    /\ NewRun /\ turns' = turns + 1
    /\ registered' = TRUE /\ attempt' = attempt + 1 /\ frame' = "run"
    /\ UNCHANGED <<mode, item, lpc, buffer, spent, log, held, live, abandoned, envVars>>

(* The generator returns or raises; thread.turn() may fail.                *)
LogicalEnds ==
    /\ frame = "logical"
    /\ \/ lpc = "completed" /\ Finish(End)
       \/ lpc = "exhausted" /\ Finish(Raise("structured"))
       \/ lpc = "retry" /\ Finish(Raise("provider"))
    /\ UNCHANGED <<runVars, mode, bufVars, log, abandoned, envVars, turns>>

(* Cancelled before it dispatches, or while thread.turn() starts the next   *)
(* turn: nothing is interrupted, for active[0] is None.                    *)
LogicalCancelled(why) ==
    /\ frame = "logical" /\ lpc \notin {"completed", "exhausted"}
    /\ Interrupted(why) /\ Finish(Raise(why))
    /\ provider' \in IF lpc = "retry" THEN {"ended", "running"} ELSE {provider}
    /\ UNCHANGED <<at, status, notes, repeats, mode, bufVars, log, abandoned, cutCleanup, turns>>

-----------------------------------------------------------------------------
(* aclose() on a suspended generator.  astream() of a structured model     *)
(* leaves _events() to the finalizer of asynchronous generators.           *)
CloseStream ==
    /\ live
    /\ IF Structured THEN abandoned' = TRUE /\ live' = FALSE /\ UNCHANGED <<frame, item, registered, held>>
       ELSE /\ UNCHANGED abandoned
            /\ IF status = None THEN frame' = "cleanup" /\ item' = End /\ UNCHANGED resVars
               ELSE Finish(End)
    /\ UNCHANGED <<runVars, mode, bufVars, log, envVars, turns>>

Finalized ==
    /\ abandoned /\ abandoned' = FALSE
    /\ registered' = FALSE /\ held' = FALSE
    /\ UNCHANGED <<runVars, mode, frame, item, bufVars, log, live, envVars, turns>>

(* The consumer asks for the first or the next item.                       *)
Ask ==
    /\ IF frame = "idle" THEN frame' = "start" /\ held' = TRUE /\ live' = TRUE
       ELSE /\ frame' = IF Structured /\ lpc # "attempt" THEN "logical" ELSE "run"
            /\ UNCHANGED <<held, live>>
    /\ UNCHANGED <<runVars, mode, item, attempt, buffer, spent, log, registered, abandoned, envVars, turns>>
    /\ lpc' = IF lpc = "attempt" THEN "replay" ELSE lpc

StreamStep ==
    \/ Started \/ StartFails \/ PlainStep \/ Handled \/ HandledFinishes \/ CleanedUp \/ CleanupRaises
    \/ Collect \/ Announce \/ Replay \/ Completes \/ ValidationFails
    \/ Exhausted \/ RetryScheduled \/ Retries \/ LogicalEnds \/ Finalized
    \/ \E why \in {"cancelled", "timeout"} :
         \/ StartCancelled(why) \/ PlainCancelled(why) \/ CleanupCancelled(why)
         \/ CollectCancelled(why) \/ LogicalCancelled(why)

-----------------------------------------------------------------------------
Ends == {"invocation_completed", "invocation_failed", "cancelled", "interrupted"}

(* Whatever happens in the attempts, the bus sees one well-formed stream   *)
(* of the logical invocation: it opens with INVOCATION_STARTED, announces  *)
(* at most max_attempts - 1 retries, each after a failed validation, and   *)
(* carries at most one terminal event, which is its last.                  *)
LogicalStreamWellFormed ==
    Structured /\ log # << >> =>
        LET At(kind) == {n \in DOMAIN log : log[n] = kind}
        IN /\ At("invocation_started") = {1}
           /\ \A n \in DOMAIN log : log[n] \in Ends => n = Len(log)
           /\ \A n \in At("retry_scheduled") : log[n - 1] = "validation_failed"
           /\ \A n \in At("turn_started") : log[n - 1] \in {"invocation_started", "retry_scheduled"}
           /\ attempt <= MaxAttempts
=============================================================================
