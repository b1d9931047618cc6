---------------------------- MODULE MCSpacePool ----------------------------
(***************************************************************************)
(* SpacePool for TLC.  Seven blocks and requests of up to three are the    *)
(* least with which a released run lies around the hint, so that an extent *)
(* is split in three, and a request is cut short by the end of an extent.  *)
(***************************************************************************)
EXTENDS SpacePool
=============================================================================
