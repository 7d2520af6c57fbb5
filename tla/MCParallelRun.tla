--------------------------- MODULE MCParallelRun ----------------------------
(***************************************************************************)
(* parallelx.Run with three tasks: one failing, one cancelled by it and    *)
(* one more, so that two errors may race for the channel after a third.    *)
(***************************************************************************)
EXTENDS ParallelRun
=============================================================================
