----------------------------- MODULE MCEventBus -----------------------------
(***************************************************************************)
(* TurnScript: one invocation with a tool call beside its stream, whose    *)
(* first event is emitted twice.  StalledScript: an invocation of a        *)
(* session with a tool call, small enough for liveness.                    *)
(***************************************************************************)
EXTENDS EventBus, TLC

CONSTANTS i1, rt, main, tool, host, ls, ot

Event(id, inv, kind, call, after) ==
    [id |-> id, inv |-> inv, kind |-> kind, call |-> call, after |-> after]

TurnScript ==
    main :> << Event(1, i1, "invocation_started", None, None),
               Event(2, i1, "turn_started", None, None),
               Event(3, i1, "turn_completed", None, None),
               Event(4, i1, "invocation_completed", None, None) >>
 @@ tool :> << Event(11, i1, "tool_started", "call", 2),
               Event(11, i1, "tool_started", "call", None),
               Event(12, i1, "tool_completed", "call", None) >>

StalledScript ==
    host :> << Event(21, rt, "session_created", None, None) >>
 @@ main :> << Event(1, i1, "invocation_started", None, 21),
               Event(4, i1, "invocation_completed", None, None) >>
 @@ tool :> << Event(11, i1, "tool_started", "call", 1) >>

MCBound == <<ls, ot>>
=============================================================================
