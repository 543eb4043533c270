-------------------------- MODULE MCQueuePersistence --------------------------
(***************************************************************************)
(* QueuePersistence for TLC.                                               *)
(***************************************************************************)
EXTENDS QueuePersistence, TLC

Symmetry == Permutations(Flushers)
==============================================================================
