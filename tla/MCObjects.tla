----------------------------- MODULE MCObjects -----------------------------
(***************************************************************************)
(* Objects for TLC.  Workers are alike, but CallsReturn is a liveness      *)
(* property: no symmetry.                                                  *)
(***************************************************************************)
EXTENDS Objects
=============================================================================
