---------------------------- MODULE MCSuperblock ----------------------------
(***************************************************************************)
(* Superblock for TLC: four slots instead of eight and numbers that wrap   *)
(* around after twelve updates instead of 65536, so that every behaviour   *)
(* at the wrap is reached from every combination of damaged slots.         *)
(***************************************************************************)
EXTENDS Superblock
=============================================================================
