------------------------------- MODULE MCReads -------------------------------
(* Model checking the reads, over one call that writes at a time. *)
EXTENDS Reads
=============================================================================
