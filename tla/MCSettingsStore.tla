--------------------------- MODULE MCSettingsStore ---------------------------
(* SettingsStore for TLC: fields with a plain value, another one, one that   *)
(* the migration rewrites, and one that the validation refuses (a path to a  *)
(* program that is missing).                                                 *)
EXTENDS SettingsStore, TLC

MCValues == {"plain", "other", "raw", "missing"}
MCNormal == [v \in MCValues |-> IF v = "raw" THEN "other" ELSE v]
MCOriginal == [k \in Keys |-> "plain"]
MCImported == [k \in Keys |-> "other"]
MCDefaults == [k \in Keys |-> "other"]

Symmetry == Permutations(Calls) \cup Permutations(Keys)
==============================================================================
