------------------------------- MODULE Chunk --------------------------------
(***************************************************************************)
(* The chunk size that reader and writer are given (src/src/worker.c,      *)
(* consumer_thread_init and producer_thread_init): what a block of the     *)
(* queue holds, and the writer's overflow buffer.  Options shows that it   *)
(* is a whole number of kilobytes.                                         *)
(***************************************************************************)
EXTENDS Naturals

CONSTANT ChunkSize

ASSUME ChunkSizeAssumption == ChunkSize \in Nat \ {0}

=============================================================================
