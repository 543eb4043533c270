----------------------------- MODULE SessionSlot -----------------------------
(***************************************************************************)
(* What the session slot of downloader.rs promises its clients (the manual *)
(* download command and the queue runner), without the locks, threads and  *)
(* helper processes that DownloadSession models:                           *)
(*                                                                         *)
(*   - one session is active at a time, and it leaves the slot only by     *)
(*     completing;                                                         *)
(*   - an outcome is chosen once, when the session leaves the slot, and    *)
(*     only a session somebody asked to cancel is reported as cancelled;   *)
(*   - the completion callback runs exactly once, after the slot is free.  *)
(***************************************************************************)
EXTENDS Naturals

CONSTANT Sessions      \* the ids COUNTER hands out

Owners == {"Manual", "Queue"}
Outcomes == {"Success", "Failed", "Cancelled"}

VARIABLES phase,       \* how far each session has come
          owner,       \* who started it
          cancelled,   \* whether a cancel reached it while it was active
          outcome      \* what its completion says

slotVars == <<phase, owner, cancelled, outcome>>

Phases == {"unused", "active", "finalizing", "calling", "done"}

SlotTypeOK ==
  /\ phase \in [Sessions -> Phases]
  /\ owner \in [Sessions -> Owners \cup {"none"}]
  /\ cancelled \in [Sessions -> BOOLEAN]
  /\ outcome \in [Sessions -> Outcomes \cup {"none"}]

Active == {s \in Sessions : phase[s] = "active"}

\* The sessions a cancel that finds an empty slot has to wait for.
Finalizing == {s \in Sessions : phase[s] \in {"finalizing", "calling"}}

\* can_start: the slot is free or already belongs to this owner.
CanStart(o) == \A s \in Active : owner[s] = o

SlotInit ==
  /\ phase = [s \in Sessions |-> "unused"]
  /\ owner = [s \in Sessions |-> "none"]
  /\ cancelled = [s \in Sessions |-> FALSE]
  /\ outcome = [s \in Sessions |-> "none"]

\* start_download puts a new session in an empty slot.
Install(s, o) ==
  /\ Active = {}
  /\ phase[s] = "unused"
  /\ phase' = [phase EXCEPT ![s] = "active"]
  /\ owner' = [owner EXCEPT ![s] = o]
  /\ UNCHANGED <<cancelled, outcome>>

\* cancel_session reaches the active session; its completion comes later.
RequestCancel(s) ==
  /\ phase[s] = "active"
  /\ cancelled' = [cancelled EXCEPT ![s] = TRUE]
  /\ UNCHANGED <<phase, owner, outcome>>

\* complete_session takes the session out of the slot. A cancel that came
\* too late for the work in progress still lets it succeed or fail.
Complete(s, oc) ==
  /\ phase[s] = "active"
  /\ oc = "Cancelled" => cancelled[s]
  /\ phase' = [phase EXCEPT ![s] = "finalizing"]
  /\ outcome' = [outcome EXCEPT ![s] = oc]
  /\ UNCHANGED <<owner, cancelled>>

\* The completion callback starts ...
Deliver(s) ==
  /\ phase[s] = "finalizing"
  /\ phase' = [phase EXCEPT ![s] = "calling"]
  /\ UNCHANGED <<owner, cancelled, outcome>>

\* ... and has returned; nothing refers to the session any more.
Finish(s) ==
  /\ phase[s] = "calling"
  /\ phase' = [phase EXCEPT ![s] = "done"]
  /\ owner' = [owner EXCEPT ![s] = "none"]
  /\ cancelled' = [cancelled EXCEPT ![s] = FALSE]
  /\ outcome' = [outcome EXCEPT ![s] = "none"]

SlotNext ==
  \E s \in Sessions :
    \/ \E o \in Owners : Install(s, o)
    \/ RequestCancel(s)
    \/ \E oc \in Outcomes : Complete(s, oc)
    \/ Deliver(s)
    \/ Finish(s)

\* A cancelled session completes, and what has left the slot is delivered.
\* Nothing bounds how long an undisturbed download runs.
SlotFairness ==
  \A s \in Sessions :
    /\ WF_slotVars(cancelled[s] /\ \E oc \in Outcomes : Complete(s, oc))
    /\ WF_slotVars(Deliver(s))
    /\ WF_slotVars(Finish(s))

SlotSafety == SlotInit /\ [][SlotNext]_slotVars
SlotSpec == SlotSafety /\ SlotFairness
==============================================================================
