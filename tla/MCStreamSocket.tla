--------------------------- MODULE MCStreamSocket ---------------------------
(***************************************************************************)
(* Instances of StreamSocket for TLC; the bounds are given in the cfgs.    *)
(***************************************************************************)
EXTENDS StreamSocket
=============================================================================
