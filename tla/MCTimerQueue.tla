-------------------------- MODULE MCTimerQueue --------------------------
(***************************************************************************)
(* Instances of TimerQueue for TLC; the cfgs give the bounds.  They check   *)
(* liveness, so no symmetry is declared.                                   *)
(***************************************************************************)
EXTENDS TimerQueue
=============================================================================
