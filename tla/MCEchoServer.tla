---------------------------- MODULE MCEchoServer ----------------------------
(***************************************************************************)
(* The echo server with room for one or two connections, and two clients,  *)
(* one of which types.                                                     *)
(***************************************************************************)
EXTENDS EchoServer

CONSTANTS c1, c2
MCMaxTyped == c1 :> 3 @@ c2 :> 0
=============================================================================
