---------------------------- MODULE MCLatestSync ----------------------------
(* Small instances of LatestSync. *)
EXTENDS LatestSync
=============================================================================
