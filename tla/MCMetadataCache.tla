-------------------------- MODULE MCMetadataCache --------------------------
(***************************************************************************)
(* MetadataCache for TLC.                                                  *)
(***************************************************************************)
EXTENDS MetadataCache
=============================================================================
