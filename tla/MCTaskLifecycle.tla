-------------------------- MODULE MCTaskLifecycle --------------------------
(***************************************************************************)
(* Small instances of TaskLifecycle for TLC: one ainvoke() caller and one  *)
(* astream() caller, so that a second turn can start under every state of  *)
(* a first, two or three coroutines in close(), and a bounded number of    *)
(* provider turns.  Turns and closers are interchangeable.                 *)
(***************************************************************************)
EXTENDS TaskLifecycle, TLC

Symmetry == Permutations(Turns) \cup Permutations(Closers)
=============================================================================
