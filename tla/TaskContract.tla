---------------------------- MODULE TaskContract ----------------------------
(***************************************************************************)
(* What a RuntimeTask promises its callers, independently of locks, events *)
(* and providers: the three-state lifecycle OPEN -> CLOSING -> CLOSED of   *)
(* core/task.py, at most one turn at a time, turns gained only while OPEN, *)
(* resources released only when no turn is left and all in one step with   *)
(* the transition to CLOSED, and TASK_CLOSED emitted at that step.         *)
(*                                                                         *)
(* TaskLifecycle, the model of the Codex implementation, is shown to       *)
(* implement this specification.                                           *)
(***************************************************************************)
EXTENDS Naturals

VARIABLES
    state,          \* TaskState of the handle
    turn,           \* "none", "starting" (reserved, not yet owned) or "active"
    thread,         \* the provider thread: "live" or "deleted"
    workspace,      \* "present", "removed", or "left" when the removal failed
    registered,     \* is the task in the runtime's registry?
    taskClosed      \* number of TASK_CLOSED events emitted

vars == <<state, turn, thread, workspace, registered, taskClosed>>

TaskState == {"OPEN", "CLOSING", "CLOSED"}

Init ==
    /\ state = "OPEN"
    /\ turn = "none"
    /\ thread = "live"
    /\ workspace = "present"
    /\ registered = TRUE
    /\ taskClosed = 0

(* A turn reserves the task; possible only while the task is open.         *)
Reserve ==
    /\ state = "OPEN"
    /\ turn = "none"
    /\ turn' = "starting"
    /\ UNCHANGED <<state, thread, workspace, registered, taskClosed>>

(* The reserved turn becomes the active one; a close() that came in        *)
(* between makes this impossible.                                          *)
Own ==
    /\ state = "OPEN"
    /\ turn = "starting"
    /\ turn' = "active"
    /\ UNCHANGED <<state, thread, workspace, registered, taskClosed>>

(* The turn ends, for whatever reason, in any state of the task.           *)
Leave ==
    /\ turn # "none"
    /\ turn' = "none"
    /\ UNCHANGED <<state, thread, workspace, registered, taskClosed>>

BeginClose ==
    /\ state = "OPEN"
    /\ state' = "CLOSING"
    /\ UNCHANGED <<turn, thread, workspace, registered, taskClosed>>

(* Deleting the thread and removing the directory may fail; the attempts,  *)
(* the removal from the registry and the event happen regardless.          *)
Release ==
    /\ state = "CLOSING"
    /\ turn = "none"
    /\ state' = "CLOSED"
    /\ thread' \in {"live", "deleted"}
    /\ workspace' \in {"removed", "left"}
    /\ registered' = FALSE
    /\ taskClosed' = taskClosed + 1
    /\ UNCHANGED turn

(* The runtime clears its registry when it closes.                         *)
Forget ==
    /\ registered
    /\ registered' = FALSE
    /\ UNCHANGED <<state, turn, thread, workspace, taskClosed>>

Next == Reserve \/ Own \/ Leave \/ BeginClose \/ Release \/ Forget

Spec == Init /\ [][Next]_vars
=============================================================================
