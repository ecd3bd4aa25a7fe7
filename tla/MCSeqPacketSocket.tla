------------------------- MODULE MCSeqPacketSocket -------------------------
(***************************************************************************)
(* An instance of SeqPacketSocket for TLC; the bounds are in the cfg.      *)
(***************************************************************************)
EXTENDS SeqPacketSocket
=============================================================================
