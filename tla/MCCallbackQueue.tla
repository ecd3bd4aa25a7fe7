-------------------------- MODULE MCCallbackQueue --------------------------
(***************************************************************************)
(* Instances of CallbackQueue for TLC; the cfgs give the bounds.  They check   *)
(* liveness, so no symmetry is declared.                                   *)
(***************************************************************************)
EXTENDS CallbackQueue
=============================================================================
