-------------------------- MODULE MCDebugRecorder ---------------------------
(***************************************************************************)
(* Instances of DebugRecorder for TLC.                                     *)
(***************************************************************************)
EXTENDS DebugRecorder
=============================================================================
