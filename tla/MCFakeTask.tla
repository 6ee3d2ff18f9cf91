----------------------------- MODULE MCFakeTask -----------------------------
(* FakeTask for TLC: three turns and three calls of close().               *)
EXTENDS FakeTask
=============================================================================
