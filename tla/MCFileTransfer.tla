--------------------------- MODULE MCFileTransfer ---------------------------
(***************************************************************************)
(* FileTransfer for TLC: a file of two chunks, and another one of two      *)
(* chunks or small enough to be sent whole.                                *)
(***************************************************************************)
EXTENDS FileTransfer

CONSTANTS a, b

MCSizes == [f \in Files |-> IF f = a THEN {2} ELSE {0, 2}]
=============================================================================
