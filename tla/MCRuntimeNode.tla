--------------------------- MODULE MCRuntimeNode ---------------------------
(***************************************************************************)
(* RuntimeNode with three attempts, a repeated completion and at most two  *)
(* cancellations beside the deadline.                                      *)
(***************************************************************************)
EXTENDS RuntimeNode
=============================================================================
