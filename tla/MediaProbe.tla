----------------------------- MODULE MediaProbe -----------------------------
(***************************************************************************)
(* The metadata probes of ROSI: requests for formats or for a preview      *)
(* (src-tauri/src/media_info.rs) that share one TrackedSlot, the child     *)
(* process each of them runs, and how its process tree is ended            *)
(* (src-tauri/src/process_util.rs). The newest request wins: it takes the  *)
(* slot, tells the one before it that it is cancelled and ends its tree.   *)
(*                                                                         *)
(* The threads are the requests and the calls of cancel. One action is     *)
(* what a thread does under one acquisition of the slot's state or of the  *)
(* state of a child, or one system call. Each request has at most one      *)
(* child: a leader (yt-dlp) and a helper the leader may start, in its      *)
(* process group or, on Unix, escaped from it. No specification uses the   *)
(* operators named Bad...: each is the operator after it with a bug.       *)
(***************************************************************************)
EXTENDS Naturals, FiniteSets

CONSTANTS Requests,   \* calls of get_formats or get_video_info
          Cancels,    \* calls of cancel_formats, cancel_video_info or cancel_all
          None        \* no request, no thread

ASSUME ProbeAssumption == None \notin Requests \cup Cancels /\ Requests \cap Cancels = {}

Threads == Requests \cup Cancels

VARIABLES
  windows,     \* cfg!(windows)
  generation,  \* TrackedState.generation
  current,     \* TrackedState.current: its request and whether it has a child
  starting,    \* who holds TrackedSlot.starting
  pc,          \* where each thread is
  after,       \* where it goes on when terminate_tree returns
  taken,       \* the operation it has taken out of the slot, or its own
  request,     \* of each request: its generation, whether it is cancelled,
               \* whether its output timed out, what it answered
  leader,      \* the child each request has spawned
  helper,      \* what the child has started
  holder,      \* who holds ManagedChild.state over more than one step
  status       \* whether ManagedState.status is known

slot  == <<generation, current, starting>>
procs == <<leader, helper, holder, status>>
vars  == <<windows, slot, pc, after, taken, request, procs>>

NoOperation == [request |-> None, child |-> FALSE]

Init ==
  /\ windows \in BOOLEAN
  /\ generation = 0 /\ current = NoOperation /\ starting = None
  /\ pc = [t \in Threads |-> "idle"]
  /\ after = [t \in Threads |-> "idle"]
  /\ taken = [t \in Threads |-> NoOperation]
  /\ request = [r \in Requests |-> [generation |-> 0, cancelled |-> FALSE,
                                    timedOut |-> FALSE, answer |-> "none"]]
  /\ leader = [r \in Requests |-> "none"]
  /\ helper = [r \in Requests |-> "none"]
  /\ holder = [r \in Requests |-> None]
  /\ status = [r \in Requests |-> FALSE]

Goto(t, label) == pc' = [pc EXCEPT ![t] = label]
Set(r, field, value) == request' = [request EXCEPT ![r][field] = value]

\* reservation_is_current, under the lock of the slot's state
IsCurrent(r) ==
  /\ generation = request[r].generation
  /\ current.request = r
  /\ ~request[r].cancelled

-----------------------------------------------------------------------------
(* What the processes do by themselves. A signal the leader may ignore     *)
(* changes nothing here, so SIGTERM only opens the period of grace.        *)

LeaderExits(r) ==
  /\ leader[r] = "live"
  /\ leader' = [leader EXCEPT ![r] = "zombie"]
  /\ UNCHANGED <<windows, slot, pc, after, taken, request, helper, holder, status>>

\* A helper outside the process group keeps the pipes open and cannot be
\* signalled; a job object holds every descendant.
HelperStarts(r) ==
  /\ leader[r] = "live" /\ helper[r] = "none"
  /\ \E h \in {"group"} \cup (IF windows THEN {} ELSE {"escaped"}) :
        helper' = [helper EXCEPT ![r] = h]
  /\ UNCHANGED <<windows, slot, pc, after, taken, request, leader, holder, status>>

HelperExits(r) ==
  /\ helper[r] \in {"group", "escaped"}
  /\ helper' = [helper EXCEPT ![r] = "gone"]
  /\ UNCHANGED <<windows, slot, pc, after, taken, request, leader, holder, status>>

\* What is left of a helper after SIGKILL to the process group or after
\* TerminateJobObject.
Killed(h) == IF h = "group" THEN "gone" ELSE h

-----------------------------------------------------------------------------
(* terminate_tree(taken[t]) by thread t, with the state of the child held  *)
(* from the first signal until the leader is reaped.                       *)

Kill(t, operation, continuation) ==
  /\ taken' = [taken EXCEPT ![t] = operation]
  /\ after' = [after EXCEPT ![t] = continuation]
  /\ Goto(t, "term")

\* terminate_tree returns; reserve then drops the starting gate
Return(t) ==
  /\ Goto(t, after[t])
  /\ starting' = IF starting = t THEN None ELSE starting

Term(t) ==
  LET r == taken[t].request IN
  /\ pc[t] = "term" /\ holder[r] = None
  /\ IF status[r]
     THEN Return(t) /\ UNCHANGED <<generation, current, holder>>
     ELSE holder' = [holder EXCEPT ![r] = t] /\ Goto(t, "grace") /\ UNCHANGED slot
  /\ UNCHANGED <<windows, after, taken, request, leader, helper, status>>

\* The leader has exited or the grace period is over: SIGKILL to the group.
\* On Windows the job is terminated at once.
Grace(t) ==
  LET r == taken[t].request IN
  /\ pc[t] = "grace"
  /\ leader' = [leader EXCEPT ![r] = IF @ = "live" THEN "zombie" ELSE @]
  /\ helper' = [helper EXCEPT ![r] = Killed(@)]
  /\ Goto(t, "reap")
  /\ UNCHANGED <<windows, slot, after, taken, request, holder, status>>

Reap(t) ==
  LET r == taken[t].request IN
  /\ pc[t] = "reap"
  /\ leader' = [leader EXCEPT ![r] = "reaped"]
  /\ status' = [status EXCEPT ![r] = TRUE]
  /\ holder' = [holder EXCEPT ![r] = None]
  /\ Return(t)
  /\ UNCHANGED <<windows, generation, current, after, taken, request, helper>>

-----------------------------------------------------------------------------
(* TrackedSlot::reserve, at the IPC boundary                               *)

\* Takes the starting gate and the slot.
Reserve(r) ==
  /\ pc[r] = "idle" /\ starting = None
  /\ generation' = generation + 1
  /\ Set(r, "generation", generation + 1)
  /\ current' = [request |-> r, child |-> FALSE]
  /\ taken' = [taken EXCEPT ![r] = current]
  /\ IF current.request = None
     THEN Goto(r, "reserved") /\ UNCHANGED starting
     ELSE Goto(r, "poison") /\ starting' = r
  /\ UNCHANGED <<windows, after, procs>>

\* Stores the flag of the operation it has taken and ends its child's tree.
\* cancel goes the same way without the gate.
Poison(t) ==
  LET old == taken[t] IN
  /\ pc[t] = "poison"
  /\ Set(old.request, "cancelled", TRUE)
  /\ LET next == IF t \in Requests THEN "reserved" ELSE "done" IN
     IF old.child
     THEN Kill(t, old, next) /\ UNCHANGED starting
     ELSE /\ Goto(t, next) /\ starting' = (IF starting = t THEN None ELSE starting)
          /\ UNCHANGED <<taken, after>>
  /\ UNCHANGED <<windows, generation, current, procs>>

\* TrackedSlot::cancel
Cancel(c) ==
  /\ pc[c] = "idle"
  /\ generation' = generation + 1
  /\ current' = NoOperation
  /\ taken' = [taken EXCEPT ![c] = current]
  /\ Goto(c, IF current.request = None THEN "done" ELSE "poison")
  /\ UNCHANGED <<windows, starting, after, request, procs>>

-----------------------------------------------------------------------------
(* A request from its reservation to the answer                            *)

Answer(r, answer) ==
  /\ Set(r, "answer", answer)
  /\ Goto(r, "release")

\* get_formats and get_video_info refuse a request that is not valid;
\* fetch_formats and fetch_video_info look at the flag between the steps of
\* their preparation (the network guard, the ffmpeg guard), any of which may
\* fail.
Prepare(r) ==
  /\ pc[r] = "reserved"
  /\ \/ Answer(r, "refused")
     \/ request[r].cancelled /\ Answer(r, "cancelled")
     \/ ~request[r].cancelled /\ Answer(r, "failed")
     \/ Goto(r, "gate") /\ UNCHANGED request
  /\ UNCHANGED <<windows, slot, after, taken, procs>>

\* run_reserved_with: takes the starting gate and looks whether it is current
Gate(r) ==
  /\ pc[r] = "gate" /\ starting = None
  /\ IF IsCurrent(r)
     THEN Goto(r, "spawn") /\ starting' = r /\ UNCHANGED request
     ELSE Answer(r, "cancelled") /\ UNCHANGED starting
  /\ UNCHANGED <<windows, generation, current, after, taken, procs>>

\* On Windows a child that cannot be put into its job is ended at once.
Spawn(r) ==
  /\ pc[r] = "spawn"
  /\ \/ Answer(r, "failed") /\ starting' = None /\ UNCHANGED leader
     \/ leader' = [leader EXCEPT ![r] = "live"] /\ Goto(r, "register")
        /\ UNCHANGED <<request, starting>>
  /\ UNCHANGED <<windows, generation, current, after, taken, helper, holder, status>>

\* Publishes the child or, when the slot was cancelled meanwhile, ends it.
BadRegister(r) ==
  /\ pc[r] = "register"
  /\ starting' = None
  /\ IF IsCurrent(r)
     THEN Goto(r, "wait") /\ current' = [current EXCEPT !.child = TRUE] /\ UNCHANGED request
     ELSE Answer(r, "cancelled") /\ UNCHANGED current
  /\ UNCHANGED <<windows, generation, after, taken, procs>>

Register(r) ==
  /\ pc[r] = "register"
  /\ starting' = None
  /\ IF IsCurrent(r)
     THEN /\ Goto(r, "wait") /\ current' = [current EXCEPT !.child = TRUE]
          /\ UNCHANGED <<after, taken, request>>
     ELSE /\ request' = [request EXCEPT ![r] = [@ EXCEPT !.cancelled = TRUE, !.answer = "cancelled"]]
          /\ Kill(r, [request |-> r, child |-> TRUE], "release")
          /\ UNCHANGED current
  /\ UNCHANGED <<windows, generation, procs>>

\* The exit of the leader is seen: what is left of its group is killed while
\* the leader still pins the group's number, and only then is it reaped.
BadCollect(r) ==
  /\ leader[r] = "zombie"
  /\ leader' = [leader EXCEPT ![r] = "reaped"]
  /\ status' = [status EXCEPT ![r] = TRUE]
  /\ UNCHANGED helper

Collect(r) ==
  /\ leader[r] = "zombie"
  /\ helper' = [helper EXCEPT ![r] = Killed(@)]
  /\ leader' = [leader EXCEPT ![r] = "reaped"]
  /\ status' = [status EXCEPT ![r] = TRUE]

\* One poll of wait_timeout that ends it: the status is known, the exit is
\* seen, or the time is up (or waitid failed) and the tree is ended.
BadWait(r) ==
  /\ pc[r] \in {"wait", "collect"}
  /\ \/ status[r] /\ Goto(r, "drain") /\ UNCHANGED <<after, taken, request, leader, helper, status>>
     \/ ~status[r] /\ Collect(r) /\ Goto(r, "drain") /\ UNCHANGED <<after, taken, request>>
     \/ /\ pc[r] = "wait" /\ ~status[r] /\ leader[r] = "live"
        /\ Set(r, "timedOut", TRUE)
        /\ Kill(r, [request |-> r, child |-> TRUE], "collect")
        /\ UNCHANGED <<leader, helper, status>>
  /\ UNCHANGED <<windows, slot, holder>>

Wait(r) ==
  /\ pc[r] \in {"wait", "collect"} /\ holder[r] = None
  /\ \/ status[r] /\ Goto(r, "drain") /\ UNCHANGED <<after, taken, request, leader, helper, status>>
     \/ ~status[r] /\ Collect(r) /\ Goto(r, "drain") /\ UNCHANGED <<after, taken, request>>
     \/ /\ pc[r] = "wait" /\ ~status[r]
        /\ Set(r, "timedOut", TRUE)
        /\ Kill(r, [request |-> r, child |-> TRUE], "collect")
        /\ UNCHANGED <<leader, helper, status>>
  /\ UNCHANGED <<windows, slot, holder>>

\* The readers of the pipes end when nobody holds them open; receive_drain
\* waits for them only until its deadline.
PipesOpen(r) == leader[r] = "live" \/ helper[r] \in {"group", "escaped"}

BadDrain(r) ==
  /\ pc[r] = "drain" /\ ~PipesOpen(r)
  /\ Goto(r, "check")
  /\ UNCHANGED <<windows, slot, after, taken, request, procs>>

Drain(r) ==
  /\ pc[r] = "drain"
  /\ Goto(r, "check")
  /\ \/ ~PipesOpen(r) /\ UNCHANGED request
     \/ Set(r, "timedOut", TRUE)
  /\ UNCHANGED <<windows, slot, after, taken, procs>>

\* Whether the output may be used at all
Check(r) ==
  /\ pc[r] = "check"
  /\ \/ ~IsCurrent(r) /\ Answer(r, "cancelled")
     \/ IsCurrent(r) /\ request[r].timedOut /\ Answer(r, "timed out")
     \/ IsCurrent(r) /\ ~request[r].timedOut /\ Goto(r, "transform") /\ UNCHANGED request
  /\ UNCHANGED <<windows, slot, after, taken, procs>>

\* The output is parsed and the thumbnail fetched, without any lock; then the
\* slot is looked at again.
BadTransform(r) ==
  /\ pc[r] = "transform"
  /\ \/ Answer(r, "ok")
     \/ Answer(r, "failed")
  /\ UNCHANGED <<windows, slot, after, taken, procs>>

Transform(r) ==
  /\ pc[r] = "transform"
  /\ \/ ~IsCurrent(r) /\ Answer(r, "cancelled")
     \/ IsCurrent(r) /\ Answer(r, "ok")
     \/ IsCurrent(r) /\ Answer(r, "failed")
  /\ UNCHANGED <<windows, slot, after, taken, procs>>

\* Drop of the reservation: the slot is freed unless a newer request has it
Release(r) ==
  /\ pc[r] = "release"
  /\ current' = IF generation = request[r].generation /\ current.request = r
                THEN NoOperation ELSE current
  /\ Goto(r, "done")
  /\ UNCHANGED <<windows, generation, starting, after, taken, request, procs>>

-----------------------------------------------------------------------------
Terminate(t) == Term(t) \/ Grace(t) \/ Reap(t)

RequestSteps(r) ==
  \/ Reserve(r) \/ Poison(r) \/ Terminate(r)
  \/ Prepare(r) \/ Gate(r) \/ Spawn(r) \/ Register(r)
  \/ Wait(r) \/ Drain(r) \/ Check(r) \/ Transform(r) \/ Release(r)

CancelSteps(c) == Cancel(c) \/ Poison(c) \/ Terminate(c)

Processes(r) == LeaderExits(r) \/ HelperStarts(r) \/ HelperExits(r)

Next ==
  \/ \E r \in Requests : RequestSteps(r) \/ Processes(r)
  \/ \E c \in Cancels : CancelSteps(c)

\* Threads keep running once they are called; whether a call is made, and
\* what the processes do by themselves, is not promised.
Fairness ==
  /\ \A r \in Requests : WF_vars(pc[r] # "idle" /\ RequestSteps(r))
  /\ \A c \in Cancels : WF_vars(pc[c] # "idle" /\ CancelSteps(c))

Spec == Init /\ [][Next]_vars /\ Fairness

-----------------------------------------------------------------------------
Labels == {"idle", "poison", "term", "grace", "reap", "reserved", "gate", "spawn", "register",
           "wait", "collect", "drain", "check", "transform", "release", "done"}

RequestType ==
  [generation : Nat, cancelled : BOOLEAN, timedOut : BOOLEAN,
   answer : {"none", "ok", "failed", "refused", "cancelled", "timed out"}]

Operation == {NoOperation} \cup [request : Requests, child : BOOLEAN]

\* The type of every variable.
TypeOK ==
  /\ windows \in BOOLEAN
  /\ generation \in Nat
  /\ current \in Operation
  /\ starting \in Threads \cup {None}
  /\ pc \in [Threads -> Labels]
  /\ after \in [Threads -> Labels]
  /\ taken \in [Threads -> Operation]
  /\ request \in [Requests -> RequestType]
  /\ leader \in [Requests -> {"none", "live", "zombie", "reaped"}]
  /\ helper \in [Requests -> {"none", "group", "escaped", "gone"}]
  /\ holder \in [Requests -> Threads \cup {None}]
  /\ status \in [Requests -> BOOLEAN]

\* A process group is only signalled while its leader is not reaped, so that
\* its number cannot belong to another program (the comments on WNOWAIT).
SignalsOwnGroup ==
  \A t \in Threads : pc[t] \in {"grace", "reap"} => leader[taken[t].request] # "reaped"

\* A running yt-dlp is in the slot, or its request is about to register it, or
\* some thread is on its way to end it: no interleaving of replacement, cancel
\* and spawn leaves one that nobody can stop.
OnItsWay(r) ==
  \E t \in Threads : taken[t].request = r /\ taken[t].child
                     /\ pc[t] \in {"poison", "term", "grace", "reap"}

NoUnownedProbe ==
  \A r \in Requests : leader[r] = "live" =>
    \/ current = [request |-> r, child |-> TRUE]
    \/ pc[r] = "register"
    \/ OnItsWay(r)

\* Nothing of the child outlives its request's answer, but for a helper that
\* has left the process group.
NothingOutlivesAnswer ==
  \A r \in Requests : pc[r] \in {"release", "done"} =>
    leader[r] \in {"none", "reaped"} /\ helper[r] # "group"

\* No probe is left behind, neither while its request runs nor after it.
NoProbeIsLeft == NoUnownedProbe /\ NothingOutlivesAnswer

\* Once a newer request or a cancel has taken the slot, an older request no
\* longer succeeds, however far it had come (the rechecks of
\* run_reserved_with around wait_with_output and transform).
SupersededNeverSucceeds ==
  [][\A r \in Requests :
        request[r].answer # "ok" /\ request'[r].answer = "ok"
          => request[r].generation = generation]_vars

\* A request is only told that it was cancelled when a newer request or a
\* cancel has overtaken it: no older one frees the slot under it.
CancelledWasOvertaken ==
  \A r \in Requests :
    request[r].answer = "cancelled" => generation # request[r].generation

\* What a request answers fits what became of the slot: success only for the
\* newest, "cancelled" only for one that was overtaken.
AnswersFitTheSlot == SupersededNeverSucceeds /\ []CancelledWasOvertaken

\* Every request and every cancel returns, although the child may ignore
\* SIGTERM and a helper may hold its pipes open for ever.
CallsReturn == \A t \in Threads : pc[t] # "idle" ~> pc[t] = "done"
=============================================================================
