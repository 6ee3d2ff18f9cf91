--------------------------- MODULE MCToolExecutor ---------------------------
(***************************************************************************)
(* Small instances of ToolExecutor for TLC: three requests, so that an     *)
(* owner, a duplicate and an unrelated or late request meet, and one tool  *)
(* per kind of definition.                                                 *)
(***************************************************************************)
EXTENDS ToolExecutor, TLC

Tool(permission, side_effect, approval, idempotent) ==
    [permission |-> permission, side_effect |-> side_effect, approval |-> approval,
     idempotent |-> idempotent]

(* write needs approval, admin lacks its permission, append may not be     *)
(* retried; ghost is not in the snapshot.                                  *)
SomeTools ==
    [t \in {"read", "write", "admin", "append"} |->
        CASE t = "read" -> Tool("files", "read", "for_side_effects", TRUE)
          [] t = "write" -> Tool("files", "write", "for_side_effects", TRUE)
          [] t = "admin" -> Tool("system", "destructive", "never", TRUE)
          [] t = "append" -> Tool("files", "write", "never", FALSE)]

Symmetry == Permutations(Requests) \cup Permutations(Calls)
=============================================================================
