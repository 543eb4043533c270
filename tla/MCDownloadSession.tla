-------------------------- MODULE MCDownloadSession --------------------------
(***************************************************************************)
(* DownloadSession for TLC.                                                *)
(***************************************************************************)
EXTENDS DownloadSession, TLC

Symmetry == Permutations(Starters) \cup Permutations(Cancellers)
==============================================================================
