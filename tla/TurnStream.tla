----------------------------- MODULE TurnStream -----------------------------
(***************************************************************************)
(* TurnRun.events(), the generator that normalizes the notifications of    *)
(* one provider turn.  RunStep(out) is one resumption of the generator: it *)
(* yields an event, raises or ends, and whoever drives it consumes out.  A *)
(* strict bus may raise once an event is on it: the event is then lost to  *)
(* the consumer.                                                           *)
(***************************************************************************)
EXTENDS Naturals

CONSTANTS
    MaxNotes,    \* bound on the deltas and usage updates of a turn
    MaxRepeats,  \* bound on repeated notifications of a turn's completion
    None

VARIABLES
    at,          \* where events() stands
    status,      \* terminal_status
    provider,    \* the provider's turn: "none", "running" or "ended" (external)
    notes, repeats

runVars == <<at, status, provider, notes, repeats>>

RunInit ==
    /\ at = "none" /\ status = None /\ provider = "none"
    /\ notes = 0 /\ repeats = 0

(* A TurnRun around the handle of a turn that has begun.                   *)
NewRun ==
    /\ at' = "new" /\ status' = None /\ provider' = "running"
    /\ notes' = 0 /\ repeats' = 0

Yield(kind) == [type |-> "yield", what |-> kind]
Raise(error) == [type |-> "raise", what |-> error]
End == [type |-> "end", what |-> None]
Lost(kind) == [type |-> "lost", what |-> kind]
Internal == [type |-> "quiet", what |-> None]

-----------------------------------------------------------------------------
Goes(from, to) == at = from /\ at' = to

(* yield await self._publish(...): if it raises, a run without a terminal  *)
(* status goes on to report its failure, unless that is what it published. *)
Publishes(kind, to, out) ==
    \/ at' = to /\ out = Yield(kind)
    \/ /\ out = Lost(kind)
       /\ at' = IF status' = None /\ kind # "invocation_failed" THEN "reporting" ELSE "raising"

Announces(out) ==
    /\ UNCHANGED <<status, provider, notes, repeats>>
    /\ \/ at = "new" /\ Publishes("invocation_started", "started", out)
       \/ at = "started" /\ Publishes("turn_started", "streaming", out)

(* The loop goes on reading after turn/completed: a delta or a usage that  *)
(* comes late is published behind INVOCATION_COMPLETED.                    *)
Notified(out) ==
    /\ at \in {"streaming", "done"} /\ notes < MaxNotes
    /\ notes' = notes + 1
    /\ UNCHANGED <<status, provider, repeats>>
    /\ \E kind \in {"output_text_delta", "token_usage_updated"} : Publishes(kind, at, out)

(* turn/completed with its status; another one that follows is normalized  *)
(* again, whatever its status.                                             *)
TurnEnded(out) ==
    /\ \/ at = "streaming" /\ UNCHANGED repeats
       \/ at = "done" /\ repeats < MaxRepeats /\ repeats' = repeats + 1
    /\ provider' = "ended"
    /\ UNCHANGED notes
    /\ \/ status' = "completed" /\ Publishes("turn_completed", "ended", out)
       \/ status' = "interrupted" /\ Publishes("turn_interrupted", "interrupted", out)
       \/ status' = "failed" /\ Publishes("turn_failed", "failed", out)

InvocationEnded(out) ==
    /\ UNCHANGED <<status, provider, notes, repeats>>
    /\ \/ at = "ended" /\ Publishes("invocation_completed", "done", out)
       \/ at = "interrupted" /\ Publishes("interrupted", "failed", out)
       \/ at \in {"failed", "reporting"} /\ Publishes("invocation_failed", "raising", out)
       \/ Goes("done", "over") /\ out = End
       \/ Goes("raising", "over") /\ out = Raise("provider")

(* The notification stream raises, before or after turn/completed, or ends *)
(* without it: the failure is still to be published.                       *)
StreamBreaks(out) ==
    /\ at \in {"streaming", "done"} /\ at' = "reporting"
    /\ out = Internal
    /\ UNCHANGED <<status, provider, notes, repeats>>

RunStep(out) ==
    Announces(out) \/ Notified(out) \/ TurnEnded(out) \/ InvocationEnded(out) \/ StreamBreaks(out)

(* CancelledError at an await: interrupt(), whose failure is suppressed,   *)
(* then a CANCELLED event that is published and not yielded.  The handlers *)
(* that report a failure have no such clause, and no await once it is      *)
(* published.                                                              *)
RunCancelled ==
    /\ at # "raising" /\ at' = "over"
    /\ provider' \in IF provider = "running" THEN {"running", "ended"} ELSE {provider}
    /\ UNCHANGED <<status, notes, repeats>>

(* _interrupt_or_invalidate: the turn is interrupted, or the transport is  *)
(* closed under it.                                                        *)
InterruptOrInvalidate ==
    /\ provider' = "ended"
    /\ UNCHANGED <<at, status, notes, repeats>>

(* The interruption is not confirmed and runtime.close() raises.           *)
InvalidateRaises ==
    /\ provider' \in IF provider = "running" THEN {"running", "ended"} ELSE {provider}
    /\ UNCHANGED <<at, status, notes, repeats>>

Outs == [type : {"yield", "lost"}, what : {"invocation_started", "turn_started", "output_text_delta",
            "token_usage_updated", "turn_completed", "turn_interrupted", "turn_failed",
            "interrupted", "invocation_completed", "invocation_failed"}]
        \cup {Raise("provider"), End, Internal}
=============================================================================
