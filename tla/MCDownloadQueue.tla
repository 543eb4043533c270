--------------------------- MODULE MCDownloadQueue ---------------------------
(***************************************************************************)
(* DownloadQueue for TLC. QueueAssumption says how many Sessions a cfg has *)
(* to give: one for every item and one for every command.                  *)
(***************************************************************************)
EXTENDS DownloadQueue, TLC

Symmetry == Permutations(Items)
==============================================================================
