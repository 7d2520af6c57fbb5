---------------------------- MODULE MCBulkPools -----------------------------
(***************************************************************************)
(* An instance of BulkPools for TLC.  The routes are interchangeable, but  *)
(* no symmetry is declared: the run also checks liveness.                  *)
(***************************************************************************)
EXTENDS BulkPools
=============================================================================
