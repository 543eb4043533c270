---------------------------- MODULE MCLegacyImport ----------------------------
(* LegacyImport for TLC: the usual folder and the folder of the Store build, *)
(* which lacks the statistics and has a damaged activity log.                *)
EXTENDS LegacyImport

CONSTANTS roaming, store, queue, stats, activity

MCCandidates == <<roaming, store>>
MCDataFiles == <<queue, stats, activity>>
MCExisting == [s \in {roaming, store} |->
                 IF s = roaming THEN {queue, stats} ELSE {queue, activity}]
MCValid == [s \in {roaming, store} |-> IF s = roaming THEN {queue, stats} ELSE {queue}]
==============================================================================
