--------------------------- MODULE MCDamagePackets ---------------------------
(***************************************************************************)
(* DamagePackets for TLC.  The constants are given in the .cfg files.      *)
(***************************************************************************)
EXTENDS DamagePackets
=============================================================================
