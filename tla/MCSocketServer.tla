--------------------------- MODULE MCSocketServer ---------------------------
(***************************************************************************)
(* SocketServer with a few clients; the configurations give the constants. *)
(***************************************************************************)
EXTENDS SocketServer
=============================================================================
