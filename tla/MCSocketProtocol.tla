-------------------------- MODULE MCSocketProtocol --------------------------
(***************************************************************************)
(* SocketProtocol for TLC.  The constants are given in the .cfg files.     *)
(***************************************************************************)
EXTENDS SocketProtocol
=============================================================================
