--------------------------- MODULE MCChildProcess ---------------------------
(***************************************************************************)
(* Instances of ChildProcess for TLC; the cfgs give the bounds.            *)
(***************************************************************************)
EXTENDS ChildProcess
=============================================================================
