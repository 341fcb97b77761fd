----------------------------- MODULE MCMmapRing -----------------------------
(***************************************************************************)
(* MmapRing for TLC: an area of 24 data bytes, enough for a write to start *)
(* again at the front while others are outstanding, and few enough sizes   *)
(* for the pointers to meet in every way.                                  *)
(***************************************************************************)
EXTENDS MmapRing

MCSizes == {1, 3, 5, 8, 11, 16, 24}
=============================================================================
