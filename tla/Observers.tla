----------------------------- MODULE Observers -----------------------------
(***************************************************************************)
(* What the two observers of the package keep open between two events.     *)
(*                                                                         *)
(* An event is a record [inv, kind, call]: the invocation it belongs to,   *)
(* its kind and, for a tool event, its call.  An event without invocation  *)
(* names what it is about (a runtime, a session, a task) in inv.  A run or *)
(* a span is a pair of an invocation and a key.                            *)
(***************************************************************************)
TurnEnds == {"turn_completed", "turn_failed", "turn_interrupted"}
InvocationEnds == {"invocation_completed", "invocation_failed", "cancelled", "interrupted"}
ToolEnds == {"tool_completed", "tool_denied", "tool_failed"}
ToolOpens == {"tool_requested", "tool_started", "tool_approval_requested"}
Retries == {"retry_scheduled", "tool_retry_scheduled"}

-----------------------------------------------------------------------------
(* LangSmithObserver: runs maps each key of _runs to the keys before it, so *)
(* DOMAIN runs is _runs and the sets are its insertion order.              *)

IsToolKey(key) == key \notin {"runtime", "turn"}

(* The last and the first of some of the open runs.                        *)
Newest(runs, keys) == CHOOSE r \in keys : keys \subseteq runs[r] \cup {r}
Oldest(runs, keys) == CHOOSE r \in keys : runs[r] \cap keys = {}

(* _create_run                                                             *)
CreateRun(runs, key) ==
    IF key \in DOMAIN runs THEN runs
    ELSE [r \in DOMAIN runs \cup {key} |-> IF r = key THEN DOMAIN runs ELSE runs[r]]

(* _finish_keys                                                            *)
FinishRuns(runs, keys) == [r \in DOMAIN runs \ keys |-> runs[r] \ keys]

(* The run a tool's last event ends: its own, else the newest open one.    *)
ToolRun(runs, e) ==
    LET open == {r \in DOMAIN runs : r[1] = e.inv /\ IsToolKey(r[2])}
    IN IF <<e.inv, e.call>> \in DOMAIN runs \/ open = {} THEN <<e.inv, e.call>> ELSE Newest(runs, open)

(* Mutant: a turn's end leaves its tools to their own last events.         *)
LangSmithEndsTurnOnly(runs, e) ==
    CASE e.kind \in TurnEnds -> FinishRuns(runs, {<<e.inv, "turn">>})
      [] OTHER -> FinishRuns(runs, {<<e.inv, "turn">>, <<e.inv, "runtime">>})

(* _finish_matching                                                        *)
FinishMatching(runs, e) ==
    FinishRuns(runs, {r \in DOMAIN runs : r[1] = e.inv /\ (e.kind \in TurnEnds => r[2] # "runtime")})

(* The run an event opens: of its invocation, its turn or its tool call.   *)
OpenedRuns(e) ==
    CASE e.kind = "invocation_started" -> {<<e.inv, "runtime">>}
      [] e.kind = "turn_started" -> {<<e.inv, "turn">>}
      [] e.kind \in ToolOpens \cup {"tool_approval_resolved"} -> {<<e.inv, e.call>>}
      [] OTHER -> {}

(* _handle_event.  A retry or a validation is created and finished at once. *)
LangSmithHandles(runs, e) ==
    CASE e.kind = "invocation_started" -> CreateRun(runs, <<e.inv, "runtime">>)
      [] e.kind = "turn_started" -> CreateRun(runs, <<e.inv, "turn">>)
      [] e.kind \in ToolOpens \cup {"tool_approval_resolved"} -> CreateRun(runs, <<e.inv, e.call>>)
      [] e.kind \in ToolEnds -> FinishRuns(runs, {ToolRun(runs, e)})
      [] e.kind \in TurnEnds \cup InvocationEnds -> FinishMatching(runs, e)
      [] OTHER -> runs

-----------------------------------------------------------------------------
(* OpenTelemetryObserver: spans is the set of the keys of _spans.          *)

(* _span_key, _span_kind and _tool_span_key                                *)
SpanKey(e) ==
    CASE e.kind \in ToolOpens \cup ToolEnds \cup {"tool_approval_resolved", "tool_retry_scheduled"} -> e.call
      [] e.kind = "turn_started" -> "turn"
      [] e.kind = "invocation_started" -> "invocation"
      [] e.kind = "retry_scheduled" -> "retry"
      [] e.kind = "validation_failed" -> "validation"
      [] e.kind \in {"runtime_started", "runtime_stopped"} -> "lifecycle"
      [] e.kind \in {"session_created", "session_resumed", "session_closed",
                     "session_archived", "session_deleted"} -> "session"
      [] e.kind \in {"task_started", "task_closed"} -> "task"
      [] OTHER -> "runtime"

Opening == ToolOpens \cup Retries \cup
    {"invocation_started", "turn_started", "validation_failed",
     "runtime_started", "session_created", "session_resumed", "task_started"}

(* The spans that _end_span pops for an event.                             *)
EndedSpans(e) ==
    CASE e.kind \in TurnEnds -> {<<e.inv, "turn">>}
      [] e.kind \in InvocationEnds -> {<<e.inv, "turn">>, <<e.inv, "invocation">>}
      [] e.kind \in ToolEnds \cup
           {"retry_scheduled", "validation_failed", "runtime_stopped", "session_closed",
            "session_archived", "session_deleted", "task_closed"} -> {<<e.inv, SpanKey(e)>>}
      [] OTHER -> {}

OpenedSpans(e) == IF e.kind \in Opening THEN {<<e.inv, SpanKey(e)>>} ELSE {}

(* on_event                                                                *)
OpenTelemetryHandles(spans, e) == (spans \cup OpenedSpans(e)) \ EndedSpans(e)

(* What a raising on_event leaves: a meter or start_span raises before     *)
(* anything is kept, the parent's add_event once a retry or a validation   *)
(* has its span, and an ending span once _end_span has popped it (of an    *)
(* invocation the turn goes first).                                        *)
OpenTelemetryRaises(spans, e) ==
    {spans} \cup
        IF e.kind \in Retries \/ EndedSpans(e) # {}
        THEN {(spans \cup OpenedSpans(e)) \ gone :
                 gone \in {EndedSpans(e) \cap {<<e.inv, "turn">>}, EndedSpans(e)}}
        ELSE {}
=============================================================================
