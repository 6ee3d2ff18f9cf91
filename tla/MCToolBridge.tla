---------------------------- MODULE MCToolBridge ----------------------------
(***************************************************************************)
(* Small instances of ToolBridge: two turns of one provider thread, and    *)
(* requests that may duplicate one another or arrive late.                 *)
(***************************************************************************)
EXTENDS ToolBridge, TLC

OneTool ==
    [t \in {"read"} |-> [permission |-> "files", side_effect |-> "read",
                         approval |-> "for_side_effects", idempotent |-> FALSE]]

OneThread == [i \in Invocations |-> "thread"]

Symmetry == Permutations(Requests)
=============================================================================
