--------------------------- MODULE MCAsyncRunner ---------------------------
(***************************************************************************)
(* An instance of AsyncRunner for TLC; the cfg gives the bounds.           *)
(***************************************************************************)
EXTENDS AsyncRunner
=============================================================================
