------------------------- MODULE MCRuntimeLifecycle -------------------------
(***************************************************************************)
(* A small instance of RuntimeLifecycle: two starts, so that a restart     *)
(* happens, one close and a run that may close the runtime too.            *)
(***************************************************************************)
EXTENDS RuntimeLifecycle

CONSTANTS s1, s2

MCStarts == {s1, s2}

(* The two starts are alike, and a host that keeps them apart has a first  *)
(* one: it is s1.                                                          *)
FirstStart == pc[s2] # "idle" => pc[s1] # "idle"
=============================================================================
