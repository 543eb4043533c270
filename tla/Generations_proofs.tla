------------------------- MODULE Generations_proofs -------------------------
(***************************************************************************)
(* Two protocols in which a generation number decides what a late step may *)
(* still do: the probes for media information, where a newer request takes *)
(* the slot of an older one, and the close protocol, where a new close     *)
(* request makes the timers, answers and shutdowns of the older ones late. *)
(*                                                                         *)
(* MediaProbe, for any number of requests and cancels: the process group   *)
(* that is signalled is the probe's own, no probe is left behind, and no   *)
(* request is told it was cancelled that nobody overtook.  IInv adds what  *)
(* these rest on: who holds the state of a child and what is true of the   *)
(* child meanwhile (LockInv), that an operation with a child belongs to a  *)
(* spawned leader (ChildInv), and what the generations say about the owner *)
(* of the slot (SlotInv).                                                  *)
(*                                                                         *)
(* CloseProtocol, for any number of close requests, faults and commands:   *)
(* no flag is left set without somebody who clears it, and the late timer, *)
(* answer or shutdown of an old request does no harm.  CloseInv adds what  *)
(* the main thread knows of the window (MainInv) and what the generations  *)
(* say about timers and shutdowns (GenInv).                                *)
(***************************************************************************)
EXTENDS MediaProbe, CloseProtocol, TLAPS

-----------------------------------------------------------------------------
(* MEDIA PROBES                                                            *)

KillLabels == {"term", "grace", "reap"}
LateLabels == {"drain", "check", "transform", "release", "done"}

\* r has not come to its spawn yet.
Early(r) ==
  \/ pc[r] \in {"idle", "poison", "reserved", "gate", "spawn"}
  \/ pc[r] \in KillLabels /\ after[r] = "reserved"

\* Each kind of thread keeps to its own code, and who ends a tree knows whose.
LabelInv ==
  /\ \A c \in Cancels : pc[c] \in {"idle", "poison", "done"} \cup KillLabels
  /\ \A c \in Cancels : pc[c] \in KillLabels => after[c] = "done"
  /\ \A r \in Requests : pc[r] \in KillLabels => after[r] \in {"reserved", "release", "collect"}
  /\ \A t \in Threads : pc[t] = "poison" => taken[t].request \in Requests
  /\ \A t \in Threads : pc[t] \in KillLabels => taken[t].child
  /\ \A r \in Requests : pc[r] \in KillLabels /\ after[r] # "reserved" => taken[r].request = r

\* An operation with a child belongs to a spawned leader; a request that goes
\* on to its answer has none that runs.
ChildInv ==
  /\ current.child => leader[current.request] # "none"
  /\ \A t \in Threads : taken[t].child => leader[taken[t].request] # "none"
  /\ \A r \in Requests : Early(r) => leader[r] = "none"
  /\ \A r \in Requests : pc[r] \in {"register", "wait", "collect"} => leader[r] # "none"
  /\ \A r \in Requests : pc[r] \in LateLabels => leader[r] \in {"none", "reaped"}
  /\ \A r \in Requests : leader[r] \in {"none", "reaped"} => helper[r] # "group"

\* The state of a child is held from the first signal until the leader is
\* reaped, and a known status means that it is reaped.
LockInv ==
  /\ \A r \in Requests : status[r] <=> leader[r] = "reaped"
  /\ \A r \in Requests : holder[r] # None => ~status[r]
  /\ \A t \in Threads : pc[t] \in {"grace", "reap"} => holder[taken[t].request] = t
  /\ \A t \in Threads : pc[t] = "reap" =>
       leader[taken[t].request] # "live" /\ helper[taken[t].request] # "group"

\* The generations: the slot belongs to the newest request until it is
\* overtaken, and who is cancelled was.
SlotInv ==
  /\ \A r \in Requests : request[r].generation <= generation
  /\ current.request # None => pc[current.request] # "idle"
  /\ \A r \in Requests :
       pc[r] \notin {"idle", "done"} /\ request[r].generation = generation => current.request = r
  /\ \A r \in Requests : pc[r] = "idle" => ~request[r].cancelled /\ request[r].answer = "none"
  /\ \A r \in Requests : request[r].cancelled => request[r].generation # generation
  /\ \A t \in Threads : pc[t] = "poison" =>
       /\ pc[taken[t].request] # "idle"
       /\ request[taken[t].request].generation # generation
  /\ CancelledWasOvertaken

IInv == TypeOK /\ LabelInv /\ ChildInv /\ LockInv /\ SlotInv /\ NoUnownedProbe

-----------------------------------------------------------------------------
(* Types                                                                   *)

\* Setting a field of a request keeps the type of the requests.
LEMMA SetTyped ==
  ASSUME request \in [Requests -> RequestType], NEW r \in Requests
  PROVE  /\ \A n \in Nat : Set(r, "generation", n) => request' \in [Requests -> RequestType]
         /\ \A b \in BOOLEAN : Set(r, "cancelled", b) => request' \in [Requests -> RequestType]
         /\ \A b \in BOOLEAN : Set(r, "timedOut", b) => request' \in [Requests -> RequestType]
         /\ \A a \in {"ok", "failed", "refused", "cancelled", "timed out"} :
              Set(r, "answer", a) => request' \in [Requests -> RequestType]
<1>1. ASSUME NEW n \in Nat, Set(r, "generation", n) PROVE request' \in [Requests -> RequestType]
  BY <1>1 DEF Set, RequestType
<1>2. ASSUME NEW b \in BOOLEAN, Set(r, "cancelled", b) PROVE request' \in [Requests -> RequestType]
  BY <1>2 DEF Set, RequestType
<1>3. ASSUME NEW b \in BOOLEAN, Set(r, "timedOut", b) PROVE request' \in [Requests -> RequestType]
  BY <1>3 DEF Set, RequestType
<1>4. ASSUME NEW a \in {"ok", "failed", "refused", "cancelled", "timed out"},
             Set(r, "answer", a)
      PROVE  request' \in [Requests -> RequestType]
  BY <1>4 DEF Set, RequestType
<1>5. QED
  BY <1>1, <1>2, <1>3, <1>4

\* A thread that goes to a label stays typed.
LEMMA GotoTyped ==
  ASSUME pc \in [Threads -> Labels], NEW t \in Threads, NEW l \in Labels, Goto(t, l)
  PROVE  pc' \in [Threads -> Labels]
BY DEF Goto

\* So does one that takes an operation to kill.
LEMMA KillTyped ==
  ASSUME TypeOK, NEW t \in Threads, NEW operation \in Operation, NEW l \in Labels,
         Kill(t, operation, l)
  PROVE  /\ taken' \in [Threads -> Operation] /\ after' \in [Threads -> Labels]
         /\ pc' \in [Threads -> Labels]
<1>1. taken' \in [Threads -> Operation]
  BY DEF TypeOK, Kill
<1>2. after' \in [Threads -> Labels]
  BY DEF TypeOK, Kill
<1>3. pc' \in [Threads -> Labels]
  BY GotoTyped DEF TypeOK, Kill, Labels
<1>4. QED
  BY <1>1, <1>2, <1>3

\* An operation built from a request has the type of the slot.
LEMMA OwnOperation ==
  ASSUME NEW r \in Requests
  PROVE  [request |-> r, child |-> TRUE] \in Operation
BY DEF Operation

\* Every step keeps the types.
LEMMA TypeStep ==
  ASSUME TypeOK, LabelInv, [Next]_vars
  PROVE  TypeOK'
<1> USE DEF TypeOK, Threads, slot, procs
<1>1. ASSUME NEW r \in Requests, LeaderExits(r) PROVE TypeOK'
  BY <1>1, ProbeAssumption DEF LeaderExits
<1>2. ASSUME NEW r \in Requests, HelperStarts(r) PROVE TypeOK'
  BY <1>2, ProbeAssumption DEF HelperStarts
<1>3. ASSUME NEW r \in Requests, HelperExits(r) PROVE TypeOK'
  BY <1>3, ProbeAssumption DEF HelperExits
<1>4. ASSUME NEW r \in Requests, Reserve(r) PROVE TypeOK'
  <2>1. request' \in [Requests -> RequestType]
    <3>1. generation + 1 \in Nat /\ Set(r, "generation", generation + 1)
      BY <1>4 DEF Reserve
    <3>2. QED
      BY <3>1, SetTyped
  <2>2. pc' \in [Threads -> Labels]
    BY <1>4, GotoTyped DEF Reserve, Labels
  <2>3. QED
    BY <1>4, <2>1, <2>2, ProbeAssumption DEF Reserve, Operation, NoOperation
<1>5. ASSUME NEW r \in Requests, Prepare(r) PROVE TypeOK'
  <2>1. request' \in [Requests -> RequestType]
    BY <1>5, SetTyped DEF Prepare, Answer
  <2>2. pc' \in [Threads -> Labels]
    BY <1>5, GotoTyped DEF Prepare, Answer, Labels
  <2>3. QED
    BY <1>5, <2>1, <2>2, ProbeAssumption DEF Prepare, Operation, NoOperation
<1>6. ASSUME NEW r \in Requests, Gate(r) PROVE TypeOK'
  <2>1. request' \in [Requests -> RequestType]
    BY <1>6, SetTyped DEF Gate, Answer
  <2>2. pc' \in [Threads -> Labels]
    BY <1>6, GotoTyped DEF Gate, Answer, Labels
  <2>3. QED
    BY <1>6, <2>1, <2>2, ProbeAssumption DEF Gate, Operation, NoOperation
<1>7. ASSUME NEW r \in Requests, Spawn(r) PROVE TypeOK'
  <2>1. request' \in [Requests -> RequestType]
    BY <1>7, SetTyped DEF Spawn, Answer
  <2>2. pc' \in [Threads -> Labels]
    BY <1>7, GotoTyped DEF Spawn, Answer, Labels
  <2>3. QED
    BY <1>7, <2>1, <2>2, ProbeAssumption DEF Spawn, Operation, NoOperation
<1>8. ASSUME NEW r \in Requests, Register(r) PROVE TypeOK'
  <2>1. request' \in [Requests -> RequestType]
    <3>1. [request[r] EXCEPT !.cancelled = TRUE, !.answer = "cancelled"] \in RequestType
      BY DEF RequestType
    <3>2. QED
      BY <1>8, <3>1 DEF Register
  <2>2. pc' \in [Threads -> Labels]
    BY <1>8, GotoTyped DEF Register, Kill, Labels
  <2>3. taken' \in [Threads -> Operation] /\ after' \in [Threads -> Labels]
    BY <1>8, KillTyped, OwnOperation DEF Register, Labels
  <2>4. QED
    <3>1. current' \in Operation
      <4>1. CASE UNCHANGED current
        BY <4>1
      <4>2. CASE current.request = r /\ current' = [current EXCEPT !.child = TRUE]
        BY <4>2, ProbeAssumption DEF Operation, NoOperation
      <4>3. QED
        BY <1>8, <4>1, <4>2 DEF Register, IsCurrent
    <3>2. QED
      BY <1>8, <2>1, <2>2, <2>3, <3>1 DEF Register
<1>9. ASSUME NEW r \in Requests, Wait(r) PROVE TypeOK'
  <2>1. request' \in [Requests -> RequestType]
    BY <1>9, SetTyped DEF Wait, Kill
  <2>2. pc' \in [Threads -> Labels]
    BY <1>9, GotoTyped DEF Wait, Kill, Labels
  <2>3. taken' \in [Threads -> Operation] /\ after' \in [Threads -> Labels]
    BY <1>9, KillTyped, OwnOperation DEF Wait, Labels
  <2>4. QED
    <3>1. /\ leader' \in [Requests -> {"none", "live", "zombie", "reaped"}]
          /\ helper' \in [Requests -> {"none", "group", "escaped", "gone"}]
          /\ status' \in [Requests -> BOOLEAN]
      BY <1>9 DEF Wait, Collect, Killed
    <3>2. QED
      BY <1>9, <2>1, <2>2, <2>3, <3>1 DEF Wait
<1>10. ASSUME NEW r \in Requests, Drain(r) PROVE TypeOK'
  <2>1. request' \in [Requests -> RequestType]
    BY <1>10, SetTyped DEF Drain
  <2>2. pc' \in [Threads -> Labels]
    BY <1>10, GotoTyped DEF Drain, Labels
  <2>3. QED
    BY <1>10, <2>1, <2>2, ProbeAssumption DEF Drain, Operation, NoOperation
<1>11. ASSUME NEW r \in Requests, Check(r) PROVE TypeOK'
  <2>1. request' \in [Requests -> RequestType]
    BY <1>11, SetTyped DEF Check, Answer
  <2>2. pc' \in [Threads -> Labels]
    BY <1>11, GotoTyped DEF Check, Answer, Labels
  <2>3. QED
    BY <1>11, <2>1, <2>2, ProbeAssumption DEF Check, Operation, NoOperation
<1>12. ASSUME NEW r \in Requests, Transform(r) PROVE TypeOK'
  <2>1. request' \in [Requests -> RequestType]
    BY <1>12, SetTyped DEF Transform, Answer
  <2>2. pc' \in [Threads -> Labels]
    BY <1>12, GotoTyped DEF Transform, Answer, Labels
  <2>3. QED
    BY <1>12, <2>1, <2>2, ProbeAssumption DEF Transform, Operation, NoOperation
<1>13. ASSUME NEW r \in Requests, Release(r) PROVE TypeOK'
  <2>1. pc' \in [Threads -> Labels]
    BY <1>13, GotoTyped DEF Release, Labels
  <2>2. QED
    BY <1>13, <2>1, ProbeAssumption DEF Release, Operation, NoOperation
<1>14. ASSUME NEW t \in Threads, Poison(t) PROVE TypeOK'
  <2>1. request' \in [Requests -> RequestType]
    BY <1>14, SetTyped DEF Poison, LabelInv, Threads
  <2>2. pc' \in [Threads -> Labels]
    BY <1>14, GotoTyped DEF Poison, Kill, Labels
  <2>3. taken' \in [Threads -> Operation] /\ after' \in [Threads -> Labels]
    BY <1>14, KillTyped, OwnOperation DEF Poison, Labels
  <2>4. QED
    BY <1>14, <2>1, <2>2, <2>3, ProbeAssumption DEF Poison, Operation, NoOperation
<1>15. ASSUME NEW t \in Threads, Term(t) PROVE TypeOK'
  <2>1. pc' \in [Threads -> Labels]
    BY <1>15, GotoTyped DEF Term, Return, Labels
  <2>2. QED
    BY <1>15, <2>1, ProbeAssumption DEF Term, Return, slot, Operation, NoOperation
<1>16. ASSUME NEW t \in Threads, Grace(t) PROVE TypeOK'
  <2>1. pc' \in [Threads -> Labels]
    BY <1>16, GotoTyped DEF Grace, Labels
  <2>2. QED
    BY <1>16, <2>1, ProbeAssumption DEF Grace, Killed, Operation, NoOperation
<1>17. ASSUME NEW t \in Threads, Reap(t) PROVE TypeOK'
  <2>1. pc' \in [Threads -> Labels]
    BY <1>17, GotoTyped DEF Reap, Return, Labels
  <2>2. QED
    BY <1>17, <2>1, ProbeAssumption DEF Reap, Return, Operation, NoOperation
<1>18. ASSUME NEW c \in Cancels, Cancel(c) PROVE TypeOK'
  <2>1. pc' \in [Threads -> Labels]
    BY <1>18, GotoTyped DEF Cancel, Labels
  <2>2. QED
    BY <1>18, <2>1, ProbeAssumption DEF Cancel, Operation, NoOperation
<1>19. CASE UNCHANGED vars
  BY <1>19 DEF vars, slot, procs
<1>20. QED
  BY <1>1, <1>2, <1>3, <1>4, <1>5, <1>6, <1>7, <1>8, <1>9, <1>10, <1>11, <1>12,
     <1>13, <1>14, <1>15, <1>16, <1>17, <1>18, <1>19
  DEF Next, RequestSteps, CancelSteps, Terminate, Processes, Threads

-----------------------------------------------------------------------------
(* The code each thread keeps to, and whose trees it ends                  *)

\* Every step keeps LabelInv.
LEMMA LabelStep ==
  ASSUME TypeOK, LabelInv, [Next]_vars
  PROVE  LabelInv'
<1> USE DEF TypeOK, LabelInv, Threads, Labels, slot, procs, Goto, KillLabels,
            Operation, NoOperation
<1>1. ASSUME NEW r \in Requests, LeaderExits(r) PROVE LabelInv'
  BY <1>1, ProbeAssumption DEF LeaderExits
<1>2. ASSUME NEW r \in Requests, HelperStarts(r) PROVE LabelInv'
  BY <1>2, ProbeAssumption DEF HelperStarts
<1>3. ASSUME NEW r \in Requests, HelperExits(r) PROVE LabelInv'
  BY <1>3, ProbeAssumption DEF HelperExits
<1>4. ASSUME NEW r \in Requests, Reserve(r) PROVE LabelInv'
  BY <1>4, ProbeAssumption DEF Reserve
<1>5. ASSUME NEW r \in Requests, Prepare(r) PROVE LabelInv'
  BY <1>5, ProbeAssumption DEF Prepare, Answer
<1>6. ASSUME NEW r \in Requests, Gate(r) PROVE LabelInv'
  BY <1>6, ProbeAssumption DEF Gate, Answer
<1>7. ASSUME NEW r \in Requests, Spawn(r) PROVE LabelInv'
  BY <1>7, ProbeAssumption DEF Spawn, Answer
<1>8. ASSUME NEW r \in Requests, Register(r) PROVE LabelInv'
  BY <1>8, ProbeAssumption DEF Register, Kill
<1>9. ASSUME NEW r \in Requests, Wait(r) PROVE LabelInv'
  BY <1>9, ProbeAssumption DEF Wait, Set, Kill, Collect, Killed
<1>10. ASSUME NEW r \in Requests, Drain(r) PROVE LabelInv'
  BY <1>10, ProbeAssumption DEF Drain
<1>11. ASSUME NEW r \in Requests, Check(r) PROVE LabelInv'
  <2>1. pc[r] = "check" /\ UNCHANGED <<windows, slot, after, taken, procs>>
    BY <1>11 DEF Check
  <2>2. Goto(r, "release") \/ Goto(r, "transform")
    BY <1>11, Zenon DEF Check, Answer
  <2>3. QED
    BY <2>1, <2>2, ProbeAssumption
<1>12. ASSUME NEW r \in Requests, Transform(r) PROVE LabelInv'
  BY <1>12, ProbeAssumption DEF Transform, Answer
<1>13. ASSUME NEW r \in Requests, Release(r) PROVE LabelInv'
  BY <1>13, ProbeAssumption DEF Release
<1>14. ASSUME NEW t \in Threads, Poison(t) PROVE LabelInv'
  BY <1>14, ProbeAssumption DEF Poison, Kill
<1>15. ASSUME NEW t \in Threads, Term(t) PROVE LabelInv'
  BY <1>15, ProbeAssumption DEF Term, Return
<1>16. ASSUME NEW t \in Threads, Grace(t) PROVE LabelInv'
  BY <1>16, ProbeAssumption DEF Grace, Killed
<1>17. ASSUME NEW t \in Threads, Reap(t) PROVE LabelInv'
  BY <1>17, ProbeAssumption DEF Reap, Return
<1>18. ASSUME NEW c \in Cancels, Cancel(c) PROVE LabelInv'
  BY <1>18, ProbeAssumption DEF Cancel
<1>19. CASE UNCHANGED vars
  BY <1>19 DEF vars, slot, procs
<1>20. QED
  BY <1>1, <1>2, <1>3, <1>4, <1>5, <1>6, <1>7, <1>8, <1>9, <1>10, <1>11, <1>12,
     <1>13, <1>14, <1>15, <1>16, <1>17, <1>18, <1>19
  DEF Next, RequestSteps, CancelSteps, Terminate, Processes, Threads

-----------------------------------------------------------------------------
(* Children and their leaders                                              *)

\* Every step keeps ChildInv.
LEMMA ChildStep ==
  ASSUME TypeOK, LabelInv, ChildInv, LockInv, [Next]_vars
  PROVE  ChildInv'
<1> USE DEF TypeOK, LabelInv, ChildInv, LockInv, Threads, slot, procs, Goto,
            KillLabels, LateLabels, Early, Operation, NoOperation
<1>1. ASSUME NEW r \in Requests, LeaderExits(r) PROVE ChildInv'
  BY <1>1, ProbeAssumption DEF LeaderExits
<1>2. ASSUME NEW r \in Requests, HelperStarts(r) PROVE ChildInv'
  BY <1>2, ProbeAssumption DEF HelperStarts
<1>3. ASSUME NEW r \in Requests, HelperExits(r) PROVE ChildInv'
  BY <1>3, ProbeAssumption DEF HelperExits
<1>4. ASSUME NEW r \in Requests, Reserve(r) PROVE ChildInv'
  BY <1>4, ProbeAssumption DEF Reserve
<1>5. ASSUME NEW r \in Requests, Prepare(r) PROVE ChildInv'
  BY <1>5, ProbeAssumption DEF Prepare, Answer
<1>6. ASSUME NEW r \in Requests, Gate(r) PROVE ChildInv'
  BY <1>6, ProbeAssumption DEF Gate, Answer, IsCurrent
<1>7. ASSUME NEW r \in Requests, Spawn(r) PROVE ChildInv'
  BY <1>7, ProbeAssumption DEF Spawn, Answer
<1>8. ASSUME NEW r \in Requests, Register(r) PROVE ChildInv'
  BY <1>8, ProbeAssumption DEF Register, Kill, IsCurrent
<1>9. ASSUME NEW r \in Requests, Wait(r) PROVE ChildInv'
  BY <1>9, ProbeAssumption DEF Wait, Set, Kill, Collect, Killed
<1>10. ASSUME NEW r \in Requests, Drain(r) PROVE ChildInv'
  BY <1>10, ProbeAssumption DEF Drain
<1>11. ASSUME NEW r \in Requests, Check(r) PROVE ChildInv'
  <2>1. pc[r] = "check" /\ UNCHANGED <<windows, slot, after, taken, procs>>
    BY <1>11 DEF Check
  <2>2. Goto(r, "release") \/ Goto(r, "transform")
    BY <1>11, Zenon DEF Check, Answer
  <2>3. QED
    BY <2>1, <2>2, ProbeAssumption
<1>12. ASSUME NEW r \in Requests, Transform(r) PROVE ChildInv'
  BY <1>12, ProbeAssumption DEF Transform, Answer
<1>13. ASSUME NEW r \in Requests, Release(r) PROVE ChildInv'
  BY <1>13, ProbeAssumption DEF Release
<1>14. ASSUME NEW t \in Threads, Poison(t) PROVE ChildInv'
  BY <1>14, ProbeAssumption DEF Poison, Kill
<1>15. ASSUME NEW t \in Threads, Term(t) PROVE ChildInv'
  BY <1>15, ProbeAssumption DEF Term, Return
<1>16. ASSUME NEW t \in Threads, Grace(t) PROVE ChildInv'
  BY <1>16, ProbeAssumption DEF Grace, Killed
<1>17. ASSUME NEW t \in Threads, Reap(t) PROVE ChildInv'
  BY <1>17, ProbeAssumption DEF Reap, Return
<1>18. ASSUME NEW c \in Cancels, Cancel(c) PROVE ChildInv'
  BY <1>18, ProbeAssumption DEF Cancel
<1>19. CASE UNCHANGED vars
  BY <1>19 DEF vars, slot, procs
<1>20. QED
  BY <1>1, <1>2, <1>3, <1>4, <1>5, <1>6, <1>7, <1>8, <1>9, <1>10, <1>11, <1>12,
     <1>13, <1>14, <1>15, <1>16, <1>17, <1>18, <1>19
  DEF Next, RequestSteps, CancelSteps, Terminate, Processes, Threads

-----------------------------------------------------------------------------
(* Who holds the state of a child                                          *)

\* Every step keeps LockInv.
LEMMA LockStep ==
  ASSUME TypeOK, LabelInv, ChildInv, LockInv, [Next]_vars
  PROVE  LockInv'
<1> USE DEF TypeOK, LabelInv, ChildInv, LockInv, Threads, slot, procs, Goto,
            KillLabels, LateLabels, Early, Operation, NoOperation
<1>1. ASSUME NEW r \in Requests, LeaderExits(r) PROVE LockInv'
  BY <1>1, ProbeAssumption DEF LeaderExits
<1>2. ASSUME NEW r \in Requests, HelperStarts(r) PROVE LockInv'
  BY <1>2, ProbeAssumption DEF HelperStarts
<1>3. ASSUME NEW r \in Requests, HelperExits(r) PROVE LockInv'
  BY <1>3, ProbeAssumption DEF HelperExits
<1>4. ASSUME NEW r \in Requests, Reserve(r) PROVE LockInv'
  BY <1>4, ProbeAssumption DEF Reserve
<1>5. ASSUME NEW r \in Requests, Prepare(r) PROVE LockInv'
  BY <1>5, ProbeAssumption DEF Prepare, Answer
<1>6. ASSUME NEW r \in Requests, Gate(r) PROVE LockInv'
  BY <1>6, ProbeAssumption DEF Gate, Answer
<1>7. ASSUME NEW r \in Requests, Spawn(r) PROVE LockInv'
  BY <1>7, ProbeAssumption DEF Spawn, Answer
<1>8. ASSUME NEW r \in Requests, Register(r) PROVE LockInv'
  BY <1>8, ProbeAssumption DEF Register, Kill
<1>9. ASSUME NEW r \in Requests, Wait(r) PROVE LockInv'
  BY <1>9, ProbeAssumption DEF Wait, Set, Kill, Collect, Killed
<1>10. ASSUME NEW r \in Requests, Drain(r) PROVE LockInv'
  BY <1>10, ProbeAssumption DEF Drain
<1>11. ASSUME NEW r \in Requests, Check(r) PROVE LockInv'
  <2>1. pc[r] = "check" /\ UNCHANGED <<windows, slot, after, taken, procs>>
    BY <1>11 DEF Check
  <2>2. Goto(r, "release") \/ Goto(r, "transform")
    BY <1>11, Zenon DEF Check, Answer
  <2>3. QED
    BY <2>1, <2>2, ProbeAssumption
<1>12. ASSUME NEW r \in Requests, Transform(r) PROVE LockInv'
  BY <1>12, ProbeAssumption DEF Transform, Answer
<1>13. ASSUME NEW r \in Requests, Release(r) PROVE LockInv'
  BY <1>13, ProbeAssumption DEF Release
<1>14. ASSUME NEW t \in Threads, Poison(t) PROVE LockInv'
  BY <1>14, ProbeAssumption DEF Poison, Kill
<1>15. ASSUME NEW t \in Threads, Term(t) PROVE LockInv'
  BY <1>15, ProbeAssumption DEF Term, Return
<1>16. ASSUME NEW t \in Threads, Grace(t) PROVE LockInv'
  BY <1>16, ProbeAssumption DEF Grace, Killed
<1>17. ASSUME NEW t \in Threads, Reap(t) PROVE LockInv'
  BY <1>17, ProbeAssumption DEF Reap, Return
<1>18. ASSUME NEW c \in Cancels, Cancel(c) PROVE LockInv'
  BY <1>18, ProbeAssumption DEF Cancel
<1>19. CASE UNCHANGED vars
  BY <1>19 DEF vars, slot, procs
<1>20. QED
  BY <1>1, <1>2, <1>3, <1>4, <1>5, <1>6, <1>7, <1>8, <1>9, <1>10, <1>11, <1>12,
     <1>13, <1>14, <1>15, <1>16, <1>17, <1>18, <1>19
  DEF Next, RequestSteps, CancelSteps, Terminate, Processes, Threads

-----------------------------------------------------------------------------
(* Generations and answers                                                 *)

\* What setting one field of a request leaves of the others.
LEMMA SetEffect ==
  ASSUME request \in [Requests -> RequestType], NEW r \in Requests
  PROVE  /\ \A n \in Nat : Set(r, "generation", n) => \A q \in Requests :
              /\ request'[q].generation = IF q = r THEN n ELSE request[q].generation
              /\ request'[q].cancelled = request[q].cancelled
              /\ request'[q].answer = request[q].answer
         /\ Set(r, "cancelled", TRUE) => \A q \in Requests :
              /\ request'[q].generation = request[q].generation
              /\ request'[q].cancelled = IF q = r THEN TRUE ELSE request[q].cancelled
              /\ request'[q].answer = request[q].answer
         /\ \A b : Set(r, "timedOut", b) => \A q \in Requests :
              /\ request'[q].generation = request[q].generation
              /\ request'[q].cancelled = request[q].cancelled
              /\ request'[q].answer = request[q].answer
<1>1. ASSUME NEW n \in Nat, Set(r, "generation", n) PROVE \A q \in Requests :
              /\ request'[q].generation = IF q = r THEN n ELSE request[q].generation
              /\ request'[q].cancelled = request[q].cancelled
              /\ request'[q].answer = request[q].answer
  BY <1>1 DEF Set, RequestType
<1>2. ASSUME Set(r, "cancelled", TRUE) PROVE \A q \in Requests :
              /\ request'[q].generation = request[q].generation
              /\ request'[q].cancelled = IF q = r THEN TRUE ELSE request[q].cancelled
              /\ request'[q].answer = request[q].answer
  BY <1>2 DEF Set, RequestType
<1>3. ASSUME NEW b, Set(r, "timedOut", b) PROVE \A q \in Requests :
              /\ request'[q].generation = request[q].generation
              /\ request'[q].cancelled = request[q].cancelled
              /\ request'[q].answer = request[q].answer
  BY <1>3 DEF Set, RequestType
<1>4. QED
  BY <1>1, <1>2, <1>3


\* What SlotInv needs to know of the types.
LEMMA SlotTypes ==
  ASSUME TypeOK, LabelInv
  PROVE  /\ \A r \in Requests : request[r].generation \in Nat /\ request[r].cancelled \in BOOLEAN
         /\ current.request # None => current.request \in Requests
         /\ generation \in Nat /\ pc \in [Threads -> Labels] /\ taken \in [Threads -> Operation]
         /\ request \in [Requests -> RequestType]
         /\ \A t \in Threads : pc[t] = "poison" => taken[t].request \in Requests
         /\ \A t \in Threads : pc[t] \in KillLabels => after[t] \notin {"idle", "poison"}
         /\ None \notin Threads
<1>1. \A r \in Requests : request[r].generation \in Nat /\ request[r].cancelled \in BOOLEAN
  BY DEF TypeOK, RequestType
<1>2. current.request # None => current.request \in Requests
  BY DEF TypeOK, Operation, NoOperation
<1>3. /\ \A t \in Threads : pc[t] = "poison" => taken[t].request \in Requests
      /\ \A t \in Threads : pc[t] \in KillLabels => after[t] \notin {"idle", "poison"}
  BY DEF LabelInv, Threads
<1>4. QED
  BY <1>1, <1>2, <1>3, ProbeAssumption DEF TypeOK, Threads

\* A request goes on and takes nothing out of the slot.
LEMMA SlotGoto ==
  ASSUME TypeOK, LabelInv, SlotInv, NEW r \in Requests, NEW l \in Labels \ {"idle", "poison"},
         pc[r] \notin {"idle", "done"}, Goto(r, l),
         request' = request \/ Set(r, "timedOut", TRUE),
         UNCHANGED <<generation, current>>,
         \A t \in Threads \ {r} : taken'[t] = taken[t]
  PROVE  SlotInv'
<1>1. \A q \in Requests : /\ request'[q].generation = request[q].generation
                          /\ request'[q].cancelled = request[q].cancelled
                          /\ request'[q].answer = request[q].answer
  BY SlotTypes, SetEffect
<1>2. \A t \in Threads : /\ t # r => pc'[t] = pc[t]
                         /\ t = r => pc'[t] = l
  BY SlotTypes DEF Goto, Threads
<1>3. QED
  BY <1>1, <1>2, SlotTypes DEF SlotInv, CancelledWasOvertaken, Threads

\* A request answers; "cancelled" only when it was overtaken.
LEMMA SlotAnswer ==
  ASSUME TypeOK, LabelInv, SlotInv, NEW r \in Requests, NEW a,
         pc[r] \notin {"idle", "done"}, Answer(r, a),
         a = "cancelled" => generation # request[r].generation,
         UNCHANGED <<generation, current, taken>>
  PROVE  SlotInv'
<1>1. \A q \in Requests : /\ request'[q].generation = request[q].generation
                          /\ request'[q].cancelled = request[q].cancelled
                          /\ q # r => request'[q].answer = request[q].answer
                          /\ q = r => request'[q].answer = a
  <2>1. Set(r, "answer", a)
    BY DEF Answer
  <2>2. request \in [Requests -> RequestType]
    BY SlotTypes
  <2>3. QED
    BY <2>1, <2>2 DEF Set, RequestType
<1>2. \A t \in Threads : /\ t # r => pc'[t] = pc[t]
                         /\ t = r => pc'[t] = "release"
  BY SlotTypes DEF Answer, Goto, Threads
<1>3. QED
  BY <1>1, <1>2, SlotTypes DEF SlotInv, CancelledWasOvertaken, Threads

\* A request that is not current any more was overtaken.
LEMMA NotCurrent ==
  ASSUME SlotInv, NEW r \in Requests, pc[r] \notin {"idle", "done"},
         ~IsCurrent(r)
  PROVE  generation # request[r].generation
BY DEF SlotInv, IsCurrent

\* Every step keeps SlotInv.
LEMMA SlotStep ==
  ASSUME TypeOK, LabelInv, SlotInv, [Next]_vars
  PROVE  SlotInv'
<1> USE DEF slot, procs
<1>1. ASSUME NEW r \in Requests, LeaderExits(r) \/ HelperStarts(r) \/ HelperExits(r)
      PROVE  SlotInv'
  BY <1>1 DEF LeaderExits, HelperStarts, HelperExits, SlotInv, CancelledWasOvertaken
<1>2. ASSUME NEW r \in Requests, Reserve(r) PROVE SlotInv'
  <2>1. \A q \in Requests :
          /\ request'[q].generation = IF q = r THEN generation + 1 ELSE request[q].generation
          /\ request'[q].cancelled = request[q].cancelled
          /\ request'[q].answer = request[q].answer
    <3>1. generation + 1 \in Nat /\ Set(r, "generation", generation + 1)
      BY <1>2, SlotTypes DEF Reserve
    <3>2. QED
      BY <3>1, SetEffect, SlotTypes
  <2>2. /\ generation' = generation + 1 /\ current'.request = r
        /\ pc[r] = "idle" /\ taken' = [taken EXCEPT ![r] = current]
        /\ current.request = None => pc' = [pc EXCEPT ![r] = "reserved"]
        /\ current.request # None => pc' = [pc EXCEPT ![r] = "poison"]
    BY <1>2 DEF Reserve, Goto
  <2>3. QED
    BY <2>1, <2>2, SlotTypes DEF SlotInv, CancelledWasOvertaken, Threads
<1>3. ASSUME NEW r \in Requests, Prepare(r) PROVE SlotInv'
  <2>1. /\ pc[r] = "reserved" /\ UNCHANGED <<generation, current, taken>>
        /\ \/ Answer(r, "refused") \/ Answer(r, "failed")
           \/ request[r].cancelled /\ Answer(r, "cancelled")
           \/ Goto(r, "gate") /\ request' = request
    BY <1>3 DEF Prepare
  <2>2. request[r].cancelled => generation # request[r].generation
    BY DEF SlotInv
  <2>3. QED
    BY <2>1, <2>2, SlotAnswer, SlotGoto DEF Labels, Threads
<1>4. ASSUME NEW r \in Requests, Gate(r) PROVE SlotInv'
  <2>1. /\ pc[r] = "gate" /\ UNCHANGED <<generation, current, taken>>
        /\ \/ ~IsCurrent(r) /\ Answer(r, "cancelled")
           \/ Goto(r, "spawn") /\ request' = request
    BY <1>4 DEF Gate
  <2>2. QED
    BY <2>1, NotCurrent, SlotAnswer, SlotGoto DEF Labels, Threads
<1>5. ASSUME NEW r \in Requests, Spawn(r) PROVE SlotInv'
  <2>1. /\ pc[r] = "spawn" /\ UNCHANGED <<generation, current, taken>>
        /\ \/ Answer(r, "failed")
           \/ Goto(r, "register") /\ request' = request
    BY <1>5 DEF Spawn
  <2>2. QED
    BY <2>1, SlotAnswer, SlotGoto DEF Labels, Threads
<1>6. ASSUME NEW r \in Requests, Register(r) PROVE SlotInv'
  <2>1. CASE IsCurrent(r)
    <3>1. /\ pc[r] = "register" /\ Goto(r, "wait") /\ UNCHANGED <<generation, taken, request>>
          /\ current' = [current EXCEPT !.child = TRUE]
      BY <1>6, <2>1 DEF Register
    <3>2. current'.request = current.request
      BY <3>1 DEF TypeOK, Operation, NoOperation
    <3>3. \A t \in Threads : /\ t # r => pc'[t] = pc[t]
                             /\ t = r => pc'[t] = "wait"
      BY <3>1, SlotTypes DEF Goto, Threads
    <3>4. QED
      BY <3>1, <3>2, <3>3, SlotTypes DEF SlotInv, CancelledWasOvertaken, Threads
  <2>2. CASE ~IsCurrent(r)
    <3>1. /\ pc[r] = "register" /\ UNCHANGED <<generation, current>>
          /\ request' = [request EXCEPT ![r] = [@ EXCEPT !.cancelled = TRUE, !.answer = "cancelled"]]
          /\ Kill(r, [request |-> r, child |-> TRUE], "release")
      BY <1>6, <2>2 DEF Register
    <3>2. /\ \A q \in Requests \ {r} : request'[q] = request[q]
          /\ request'[r].generation = request[r].generation
      BY <3>1, SlotTypes DEF RequestType
    <3>3. \A t \in Threads : /\ t # r => pc'[t] = pc[t] /\ taken'[t] = taken[t]
                             /\ t = r => pc'[t] = "term"
      BY <3>1, SlotTypes DEF Kill, Goto, Threads
    <3>4. generation # request[r].generation
      BY <2>2, <3>1, NotCurrent
    <3>5. QED
      BY <3>1, <3>2, <3>3, <3>4, SlotTypes DEF SlotInv, CancelledWasOvertaken, Threads
  <2>3. QED
    BY <2>1, <2>2
<1>7. ASSUME NEW r \in Requests, Wait(r) PROVE SlotInv'
  <2>1. pc[r] \in {"wait", "collect"} /\ UNCHANGED <<generation, current>>
    BY <1>7 DEF Wait
  <2>2. \/ Goto(r, "drain") /\ UNCHANGED <<request, taken>>
        \/ Set(r, "timedOut", TRUE) /\ Kill(r, [request |-> r, child |-> TRUE], "collect")
    BY <1>7 DEF Wait
  <2>3. CASE Goto(r, "drain") /\ UNCHANGED <<request, taken>>
    BY <2>1, <2>3, SlotGoto DEF Labels, Threads
  <2>4. CASE Set(r, "timedOut", TRUE) /\ Kill(r, [request |-> r, child |-> TRUE], "collect")
    <3>1. Goto(r, "term") /\ \A t \in Threads \ {r} : taken'[t] = taken[t]
      BY <2>4, SlotTypes DEF Kill, Threads
    <3>2. QED
      BY <2>1, <2>4, <3>1, SlotGoto DEF Labels
  <2>5. QED
    BY <2>2, <2>3, <2>4
<1>8. ASSUME NEW r \in Requests, Drain(r) PROVE SlotInv'
  <2>1. /\ pc[r] = "drain" /\ Goto(r, "check") /\ UNCHANGED <<generation, current, taken>>
        /\ request' = request \/ Set(r, "timedOut", TRUE)
    BY <1>8 DEF Drain
  <2>2. QED
    BY <2>1, SlotGoto DEF Labels, Threads
<1>9. ASSUME NEW r \in Requests, Check(r) PROVE SlotInv'
  <2>1. /\ pc[r] = "check" /\ UNCHANGED <<generation, current, taken>>
        /\ \/ ~IsCurrent(r) /\ Answer(r, "cancelled")
           \/ Answer(r, "timed out")
           \/ Goto(r, "transform") /\ request' = request
    BY <1>9, Zenon DEF Check
  <2>2. QED
    BY <2>1, NotCurrent, SlotAnswer, SlotGoto DEF Labels, Threads
<1>10. ASSUME NEW r \in Requests, Transform(r) PROVE SlotInv'
  <2>1. /\ pc[r] = "transform" /\ UNCHANGED <<generation, current, taken>>
        /\ \/ ~IsCurrent(r) /\ Answer(r, "cancelled")
           \/ Answer(r, "ok") \/ Answer(r, "failed")
    BY <1>10 DEF Transform
  <2>2. QED
    BY <2>1, NotCurrent, SlotAnswer
<1>11. ASSUME NEW r \in Requests, Release(r) PROVE SlotInv'
  BY <1>11, SlotTypes
  DEF Release, Goto, NoOperation, SlotInv, CancelledWasOvertaken, Threads
<1>12. ASSUME NEW t \in Threads, Poison(t) PROVE SlotInv'
  <2> DEFINE old == taken[t].request
  <2>1. /\ pc[t] = "poison" /\ UNCHANGED <<generation, current>>
        /\ old \in Requests /\ Set(old, "cancelled", TRUE)
    BY <1>12, SlotTypes DEF Poison
  <2>2. \A q \in Requests :
          /\ request'[q].generation = request[q].generation
          /\ q # old => request'[q].cancelled = request[q].cancelled
          /\ request'[q].answer = request[q].answer
    <3>1. request \in [Requests -> RequestType]
      BY SlotTypes
    <3>2. QED
      BY <2>1, <3>1, SetEffect
  <2>3. pc' = [pc EXCEPT ![t] = pc'[t]] /\ pc'[t] \in {"term", "reserved", "done"}
    BY <1>12, SlotTypes DEF Poison, Kill, Goto
  <2>4. \A u \in Threads \ {t} : taken'[u] = taken[u]
    BY <1>12, SlotTypes DEF Poison, Kill
  <2>5. pc[old] # "idle" /\ request[old].generation # generation
    BY <2>1 DEF SlotInv
  <2>6. QED
    BY <2>1, <2>2, <2>3, <2>4, <2>5, SlotTypes DEF SlotInv, CancelledWasOvertaken,
       Threads
<1>13. ASSUME NEW t \in Threads, Term(t) \/ Grace(t) \/ Reap(t) PROVE SlotInv'
  <2>1. /\ UNCHANGED <<generation, current, taken, request>>
        /\ pc[t] \in KillLabels
        /\ Goto(t, "grace") \/ Goto(t, "reap") \/ Goto(t, after[t])
    BY <1>13 DEF Term, Grace, Reap, Return, KillLabels
  <2>2. pc' = [pc EXCEPT ![t] = pc'[t]] /\ pc'[t] \notin {"idle", "poison"}
    BY <2>1, SlotTypes DEF Goto
  <2>3. QED
    BY <2>1, <2>2, SlotTypes DEF SlotInv, CancelledWasOvertaken, Threads, KillLabels
<1>14. ASSUME NEW c \in Cancels, Cancel(c) PROVE SlotInv'
  BY <1>14, SlotTypes, ProbeAssumption
  DEF Cancel, Goto, NoOperation, SlotInv, CancelledWasOvertaken, Threads
<1>15. CASE UNCHANGED vars
  BY <1>15 DEF vars, SlotInv, CancelledWasOvertaken
<1>16. QED
  BY <1>1, <1>2, <1>3, <1>4, <1>5, <1>6, <1>7, <1>8, <1>9, <1>10, <1>11, <1>12,
     <1>13, <1>14,
     <1>15
  DEF Next, RequestSteps, CancelSteps, Terminate, Processes, Threads

-----------------------------------------------------------------------------
(* Who ends a probe                                                        *)

\* Every step keeps NoUnownedProbe.
LEMMA OwnStep ==
  ASSUME TypeOK, LabelInv, ChildInv, LockInv, NoUnownedProbe, [Next]_vars
  PROVE  NoUnownedProbe'
<1> USE DEF TypeOK, LabelInv, ChildInv, LockInv, NoUnownedProbe, OnItsWay, Threads,
            slot, procs, Goto, KillLabels, LateLabels, Early, Operation, NoOperation
<1>1. ASSUME NEW r \in Requests, LeaderExits(r) PROVE NoUnownedProbe'
  BY <1>1, ProbeAssumption DEF LeaderExits
<1>2. ASSUME NEW r \in Requests, HelperStarts(r) PROVE NoUnownedProbe'
  BY <1>2, ProbeAssumption DEF HelperStarts
<1>3. ASSUME NEW r \in Requests, HelperExits(r) PROVE NoUnownedProbe'
  BY <1>3, ProbeAssumption DEF HelperExits
<1>4. ASSUME NEW r \in Requests, Reserve(r) PROVE NoUnownedProbe'
  BY <1>4, ProbeAssumption DEF Reserve
<1>5. ASSUME NEW r \in Requests, Prepare(r) PROVE NoUnownedProbe'
  BY <1>5, ProbeAssumption DEF Prepare, Answer
<1>6. ASSUME NEW r \in Requests, Gate(r) PROVE NoUnownedProbe'
  BY <1>6, ProbeAssumption DEF Gate, Answer, IsCurrent
<1>7. ASSUME NEW r \in Requests, Spawn(r) PROVE NoUnownedProbe'
  BY <1>7, ProbeAssumption DEF Spawn, Answer
<1>8. ASSUME NEW r \in Requests, Register(r) PROVE NoUnownedProbe'
  <2> SUFFICES ASSUME NEW q \in Requests, leader'[q] = "live"
               PROVE  \/ current' = [request |-> q, child |-> TRUE]
                      \/ pc'[q] = "register"
                      \/ OnItsWay(q)'
    OBVIOUS
  <2>1. pc[r] = "register" /\ leader' = leader
    BY <1>8 DEF Register
  <2>2. CASE IsCurrent(r)
    <3>1. pc' = [pc EXCEPT ![r] = "wait"] /\ taken' = taken
      BY <1>8, <2>2 DEF Register
    <3>2. current' = [request |-> r, child |-> TRUE]
      BY <1>8, <2>2 DEF Register, IsCurrent
    <3>3. current = [request |-> q, child |-> TRUE] => q = r
      BY <2>2 DEF IsCurrent
    <3>4. OnItsWay(q) => OnItsWay(q)'
      BY <2>1, <3>1
    <3>5. QED
      BY <2>1, <3>1, <3>2, <3>3, <3>4
  <2>3. CASE ~IsCurrent(r)
    <3>1. /\ pc' = [pc EXCEPT ![r] = "term"] /\ current' = current
          /\ taken' = [taken EXCEPT ![r] = [request |-> r, child |-> TRUE]]
      BY <1>8, <2>3 DEF Register, Kill
    <3>2. CASE q = r
      BY <3>1, <3>2
    <3>3. CASE q # r
      <4>1. OnItsWay(q) => OnItsWay(q)'
        BY <2>1, <3>1, <3>3
      <4>2. QED
        BY <2>1, <3>1, <3>3, <4>1
    <3>4. QED
      BY <3>2, <3>3
  <2>4. QED
    BY <2>2, <2>3
<1>9. ASSUME NEW r \in Requests, Wait(r) PROVE NoUnownedProbe'
  BY <1>9, ProbeAssumption DEF Wait, Set, Kill, Collect, Killed
<1>10. ASSUME NEW r \in Requests, Drain(r) PROVE NoUnownedProbe'
  BY <1>10, ProbeAssumption DEF Drain
<1>11. ASSUME NEW r \in Requests, Check(r) PROVE NoUnownedProbe'
  <2>1. pc[r] = "check" /\ UNCHANGED <<windows, slot, after, taken, procs>>
    BY <1>11 DEF Check
  <2>2. Goto(r, "release") \/ Goto(r, "transform")
    BY <1>11, Zenon DEF Check, Answer
  <2>3. QED
    BY <2>1, <2>2, ProbeAssumption
<1>12. ASSUME NEW r \in Requests, Transform(r) PROVE NoUnownedProbe'
  BY <1>12, ProbeAssumption DEF Transform, Answer
<1>13. ASSUME NEW r \in Requests, Release(r) PROVE NoUnownedProbe'
  <2> SUFFICES ASSUME NEW q \in Requests, leader'[q] = "live"
               PROVE  \/ current' = [request |-> q, child |-> TRUE]
                      \/ pc'[q] = "register"
                      \/ OnItsWay(q)'
    OBVIOUS
  <2>1. pc[r] = "release" /\ pc' = [pc EXCEPT ![r] = "done"] /\ UNCHANGED <<taken, leader>>
    BY <1>13 DEF Release
  <2>2. q # r
    BY <2>1
  <2>3. CASE current = [request |-> q, child |-> TRUE]
    BY <1>13, <2>2, <2>3 DEF Release
  <2>4. CASE pc[q] = "register"
    BY <2>1, <2>2, <2>4
  <2>5. CASE OnItsWay(q)
    BY <2>1, <2>5
  <2>6. QED
    BY <2>1, <2>3, <2>4, <2>5
<1>14. ASSUME NEW t \in Threads, Poison(t) PROVE NoUnownedProbe'
  <2> SUFFICES ASSUME NEW q \in Requests, leader'[q] = "live"
               PROVE  \/ current' = [request |-> q, child |-> TRUE]
                      \/ pc'[q] = "register"
                      \/ OnItsWay(q)'
    OBVIOUS
  <2>1. pc[t] = "poison" /\ UNCHANGED <<current, leader>>
    BY <1>14 DEF Poison
  <2>2. /\ pc' = [pc EXCEPT ![t] = pc'[t]] /\ taken' = taken
        /\ taken[t].child => pc'[t] = "term"
    BY <1>14 DEF Poison, Kill
  <2>3. CASE current = [request |-> q, child |-> TRUE]
    BY <2>1, <2>3
  <2>4. CASE pc[q] = "register"
    BY <2>1, <2>2, <2>4
  <2>5. CASE OnItsWay(q)
    BY <2>1, <2>2, <2>5
  <2>6. QED
    BY <2>1, <2>3, <2>4, <2>5
<1>15. ASSUME NEW t \in Threads, Term(t) PROVE NoUnownedProbe'
  BY <1>15, ProbeAssumption DEF Term, Return
<1>16. ASSUME NEW t \in Threads, Grace(t) PROVE NoUnownedProbe'
  BY <1>16, ProbeAssumption DEF Grace, Killed
<1>17. ASSUME NEW t \in Threads, Reap(t) PROVE NoUnownedProbe'
  BY <1>17, ProbeAssumption DEF Reap, Return
<1>18. ASSUME NEW c \in Cancels, Cancel(c) PROVE NoUnownedProbe'
  BY <1>18, ProbeAssumption DEF Cancel
<1>19. CASE UNCHANGED vars
  BY <1>19 DEF vars, slot, procs
<1>20. QED
  BY <1>1, <1>2, <1>3, <1>4, <1>5, <1>6, <1>7, <1>8, <1>9, <1>10, <1>11, <1>12,
     <1>13, <1>14, <1>15, <1>16, <1>17, <1>18, <1>19
  DEF Next, RequestSteps, CancelSteps, Terminate, Processes, Threads

-----------------------------------------------------------------------------
(* The theorems                                                            *)

\* The invariant holds initially.
LEMMA InitInv ==
  ASSUME Init
  PROVE  IInv
<1> USE ProbeAssumption DEF Init, NoOperation
<1>1. TypeOK
  BY DEF TypeOK, Operation, RequestType, Labels, Threads
<1>2. LabelInv /\ ChildInv /\ LockInv /\ NoUnownedProbe
  BY DEF LabelInv, ChildInv, LockInv, NoUnownedProbe, KillLabels, LateLabels, Early,
     Threads
<1>3. SlotInv
  BY DEF SlotInv, CancelledWasOvertaken, Threads
<1>4. QED
  BY <1>1, <1>2, <1>3 DEF IInv

\* The inductive invariant the theorems below follow from.
THEOREM Invariant == Spec => []IInv
<1>1. Init => IInv
  BY InitInv
<1>2. IInv /\ [Next]_vars => IInv'
  BY TypeStep, LabelStep, ChildStep, LockStep, SlotStep, OwnStep DEF IInv
<1>3. QED
  BY <1>1, <1>2, PTL DEF Spec

\* Every variable of MediaProbe keeps its type.
THEOREM TypeCorrect == Spec => []TypeOK
<1>1. IInv => TypeOK
  BY DEF IInv
<1>2. QED
  BY <1>1, Invariant, PTL

\* Whoever signals a process group holds the state of the child, so that its
\* leader cannot be reaped by another thread meanwhile and the number of the
\* group is still the probe's own (terminate_tree and wait_timeout).
THEOREM OwnGroup == Spec => []SignalsOwnGroup
<1>1. IInv => SignalsOwnGroup
  <2> SUFFICES ASSUME IInv, NEW t \in Threads, pc[t] \in {"grace", "reap"}
               PROVE  leader[taken[t].request] # "reaped"
    BY DEF SignalsOwnGroup
  <2>1. taken[t].request \in Requests
    BY DEF IInv, LabelInv, KillLabels, TypeOK, Operation, NoOperation
  <2>2. holder[taken[t].request] = t /\ t # None
    BY ProbeAssumption DEF IInv, LockInv, Threads
  <2>3. QED
    BY <2>1, <2>2 DEF IInv, LockInv
<1>2. QED
  BY <1>1, Invariant, PTL

\* Whatever order replacement, cancel, spawn and exit come in, a running
\* probe has somebody who ends it, and nothing of its group outlives the
\* answer of its request.
THEOREM NoneLeft == Spec => []NoProbeIsLeft
<1>1. IInv => NoProbeIsLeft
  BY DEF IInv, NoProbeIsLeft, NothingOutlivesAnswer, ChildInv, LateLabels
<1>2. QED
  BY <1>1, Invariant, PTL

\* Only Transform answers with success, and it looks at the slot once more.
LEMMA SuccessStep ==
  ASSUME TypeOK, LabelInv, [Next]_vars
  PROVE  \A r \in Requests : request[r].answer # "ok" /\ request'[r].answer = "ok"
           => request[r].generation = generation
<1> SUFFICES ASSUME NEW q \in Requests, request[q].answer # "ok", request'[q].answer = "ok"
             PROVE  request[q].generation = generation
  OBVIOUS
<1>1. request' # request
  OBVIOUS
<1>2. ASSUME NEW r \in Requests, NEW a, Answer(r, a), a = "ok" => IsCurrent(r)
      PROVE  request[q].generation = generation
  <2>1. Set(r, "answer", a)
    BY <1>2 DEF Answer
  <2>2. q = r /\ a = "ok"
    BY <2>1 DEF Set, TypeOK, RequestType
  <2>3. QED
    BY <1>2, <2>2 DEF IsCurrent
<1>3. ASSUME NEW r \in Requests,
             \/ \E n \in Nat : Set(r, "generation", n)
             \/ Set(r, "cancelled", TRUE) \/ Set(r, "timedOut", TRUE)
      PROVE  FALSE
  BY <1>3, SetEffect DEF TypeOK
<1>4. ASSUME NEW r \in Requests, Reserve(r) PROVE FALSE
  <2>1. generation + 1 \in Nat /\ Set(r, "generation", generation + 1)
    BY <1>4 DEF Reserve, TypeOK
  <2>2. QED
    BY <1>3, <2>1
<1>5. ASSUME NEW r \in Requests, Register(r) PROVE FALSE
  <2>1. request' = [request EXCEPT ![r] = [@ EXCEPT !.cancelled = TRUE, !.answer = "cancelled"]]
    BY <1>1, <1>5 DEF Register
  <2>2. request[r] \in RequestType
    BY DEF TypeOK
  <2>3. request'[r].answer = "cancelled" /\ \A s \in Requests \ {r} : request'[s] = request[s]
    BY <2>1, <2>2 DEF TypeOK, RequestType
  <2>4. QED
    BY <2>3
<1>6. ASSUME NEW r \in Requests, Wait(r) \/ Drain(r) PROVE FALSE
  BY <1>1, <1>3, <1>6 DEF Wait, Drain
<1>7. ASSUME NEW t \in Threads, Poison(t) PROVE FALSE
  BY <1>3, <1>7 DEF Poison, LabelInv
<1>8. ASSUME NEW r \in Requests,
             Prepare(r) \/ Gate(r) \/ Spawn(r) \/ Check(r) \/ Transform(r)
      PROVE  request[q].generation = generation
  <2>1. \/ Answer(r, "refused") \/ Answer(r, "cancelled") \/ Answer(r, "failed")
        \/ Answer(r, "timed out")
        \/ Answer(r, "ok") /\ IsCurrent(r)
    BY <1>1, <1>8, Zenon DEF Prepare, Gate, Spawn, Check, Transform
  <2>2. QED
    BY <1>2, <2>1
<1>9. UNCHANGED request \/ \E r \in Requests : Reserve(r) \/ Register(r) \/ Wait(r) \/ Drain(r)
        \/ Prepare(r) \/ Gate(r) \/ Spawn(r) \/ Check(r) \/ Transform(r)
      \/ \E t \in Threads : Poison(t)
  BY DEF Next, RequestSteps, CancelSteps, Terminate, Processes, Threads, vars,
         LeaderExits, HelperStarts, HelperExits, Term, Grace, Reap, Release, Cancel
<1>10. QED
  BY <1>1, <1>4, <1>5, <1>6, <1>7, <1>8, <1>9

\* A request succeeds only while it is the newest and is told that it was
\* cancelled only when it was overtaken.
THEOREM AnswersFit == Spec => AnswersFitTheSlot
<1>1. IInv /\ [Next]_vars =>
        [\A r \in Requests : request[r].answer # "ok" /\ request'[r].answer = "ok"
                               => request[r].generation = generation]_vars
  BY SuccessStep DEF IInv
<1>2. IInv => CancelledWasOvertaken
  BY DEF IInv, SlotInv
<1>3. QED
  BY <1>1, <1>2, Invariant, PTL DEF Spec, AnswersFitTheSlot, SupersededNeverSucceeds

-----------------------------------------------------------------------------
(* THE CLOSE PROTOCOL                                                      *)

\* While the main thread handles a close there is a window; without one it is
\* on its way out, on macOS unless nobody wants to quit.
MainInv ==
  /\ main \in {"swap", "deciding", "begin"} => window # "none"
  /\ window = "none" /\ ~macos => main \in {"destroyed", "after", "last", "exit", "ended"}
  /\ window = "none" /\ flag.quitting => main # "idle"
  /\ flag.confirming => \E a \in Closes : phase[a] \in {"deciding", "asking"}

Unbegun == {"unused", "deciding", "asking", "confirmed", "answered"}

\* The timer of a request that is shut down has not expired, the current one
\* was acknowledged, and one warning is shown at a time.
GenInv ==
  /\ \A a \in Closes : phase[a] \in Unbegun => warn[a] = "none"
  /\ \A a \in Closes : warn[a] = "none" => phase[a] \in Unbegun \cup {"done"}
  /\ \A a \in Closes : phase[a] \in {"shutdown", "destroy"} => warn[a] \in {"armed", "done"}
  /\ \A a \in Closes :
       phase[a] = "flushing" /\ warn[a] \notin {"armed", "done"} => gen[a] # flag.generation
  /\ \A a \in Closes : phase[a] = "shutdown" /\ gen[a] = flag.generation => flag.acknowledged
  /\ \A a \in Closes : phase[a] = "destroy" => gen[a] < flag.generation
  /\ \A a \in Closes : warn[a] = "warning" => flag.warning
  /\ \A a, b \in Closes : warn[a] = "warning" /\ warn[b] = "warning" => a = b

\* LateStepsHarmless of one step.
LateAction ==
  \A a, b \in Closes :
    /\ phase[a] \in {"shutdown", "destroy"} /\ warn[b] = "armed" /\ warn'[b] = "expired"
         => gen[b] > gen[a]
    /\ phase[a] = "shutdown" /\ phase'[a] = "destroy" => gen[b] <= gen[a]

CloseInv == CloseTypeOK /\ MainInv /\ GenInv /\ CloseHasOwner /\ QuitHasOwner

-----------------------------------------------------------------------------
(* Facts about the constants and the flags                                 *)

\* The three kinds of shutdown thread are distinct.
LEMMA ShutdownThreads ==
  /\ Closes \subseteq Shutdowns
  /\ Restart \in Shutdowns \ Closes /\ Main \in Shutdowns \ Closes /\ Restart # Main
BY CloseAssumption DEF Closes, Shutdowns, Restart, Main

\* The fields of the close flags have the types of FlagType.
LEMMA FlagFields ==
  ASSUME flag \in FlagType
  PROVE  /\ flag.generation \in Nat /\ flag.generation + 1 \in Nat
         /\ {flag.inProgress, flag.confirming, flag.acknowledged, flag.quitting, flag.warning}
              \subseteq BOOLEAN
BY DEF FlagType

\* What cancel_close does to the flags: a new generation, nothing in progress.
LEMMA CancelEffect ==
  ASSUME flag \in FlagType, CancelClose
  PROVE  /\ flag' \in FlagType
         /\ flag'.generation = flag.generation + 1
         /\ ~flag'.inProgress /\ ~flag'.confirming /\ ~flag'.acknowledged /\ ~flag'.quitting
         /\ flag'.warning = flag.warning
BY FlagFields DEF CancelClose, FlagType

\* Consuming a generation leaves the flags that have owners alone.
LEMMA ConsumeEffect ==
  ASSUME flag \in FlagType, NEW a \in Closes, Consume(a)
  PROVE  /\ flag'.confirming = flag.confirming /\ flag'.quitting = flag.quitting
         /\ flag'.inProgress = flag.inProgress
<1>1. flag' \in {flag, [flag EXCEPT !.generation = @ + 1, !.acknowledged = FALSE]}
  BY DEF Consume
<1>2. QED
  BY <1>1 DEF FlagType

-----------------------------------------------------------------------------
(* Types                                                                   *)

\* Every step keeps the types.
LEMMA TypesStep ==
  ASSUME Types, [CloseNext]_closeVars
  PROVE  Types'
<1> USE DEF Types, loop, closes
<1>1. ASSUME StartWork PROVE Types'
  BY <1>1, ShutdownThreads DEF StartWork, Spend, Running, FlagType
<1>2. ASSUME WorkEnds PROVE Types'
  BY <1>2, ShutdownThreads DEF WorkEnds, Running, FlagType
<1>3. ASSUME CloseRequested PROVE Types'
  BY <1>3, ShutdownThreads DEF CloseRequested, FlagType
<1>4. ASSUME CloseIgnored PROVE Types'
  BY <1>4, ShutdownThreads DEF CloseIgnored, FlagType
<1>5. ASSUME AlreadyConfirming PROVE Types'
  BY <1>5, ShutdownThreads DEF AlreadyConfirming, FlagType
<1>6. ASSUME WindowRemoved PROVE Types'
  BY <1>6, ShutdownThreads DEF WindowRemoved, FlagType
<1>7. ASSUME OnMainDestroyed PROVE Types'
  <2>1. flag' \in FlagType /\ flag'.generation = flag.generation + 1
    <3>1. /\ flag \in FlagType
          /\ flag' = [flag EXCEPT !.inProgress = FALSE, !.acknowledged = FALSE,
                                  !.generation = @ + 1]
      BY <1>7 DEF OnMainDestroyed
    <3> HIDE DEF Types
    <3>2. QED
      BY <3>1, FlagFields DEF FlagType
  <2>2. gen' \in [Closes -> 0 .. flag'.generation]
    BY <1>7, <2>1, FlagFields DEF OnMainDestroyed
  <2>3. QED
    BY <1>7, <2>1, <2>2 DEF OnMainDestroyed, Phase, Warn, Running
<1>8. ASSUME AppExits PROVE Types'
  BY <1>8, ShutdownThreads DEF AppExits, Shut, Exit, FlagType
<1>9. ASSUME WindowOnlyCloses PROVE Types'
  BY <1>9, ShutdownThreads DEF WindowOnlyCloses, FlagType
<1>10. ASSUME LastWindowClosed PROVE Types'
  BY <1>10, ShutdownThreads DEF LastWindowClosed, Shut, Exit, FlagType
<1>11. ASSUME ProcessEnds PROVE Types'
  BY <1>11, ShutdownThreads DEF ProcessEnds, FlagType
<1>12. ASSUME Reopen PROVE Types'
  BY <1>12, ShutdownThreads DEF Reopen, Spend, FlagType
<1>13. ASSUME RequestQuit PROVE Types'
  <2>1. ASSUME flag' = [flag EXCEPT !.quitting = TRUE] PROVE Types'
    BY <1>13, <2>1 DEF RequestQuit, FlagType
  <2>2. ASSUME CancelClose PROVE Types'
    <3>1. /\ flag' \in FlagType /\ flag'.generation = flag.generation + 1
          /\ flag.generation \in Nat
      BY <2>2, CancelEffect, FlagFields
    <3>2. gen' \in [Closes -> 0 .. flag'.generation]
      BY <1>13, <3>1 DEF RequestQuit
    <3>3. QED
      BY <1>13, <3>1, <3>2 DEF RequestQuit
  <2>3. QED
    BY <1>13, <2>1, <2>2 DEF RequestQuit
<1>14. ASSUME QuitWithoutWindow PROVE Types'
  BY <1>14, ShutdownThreads DEF QuitWithoutWindow, Shut, FlagType
<1>15. ASSUME QuitReturns PROVE Types'
  BY <1>15, ShutdownThreads DEF QuitReturns, Shut, Exit, FlagType
<1>16. ASSUME RestartApp PROVE Types'
  BY <1>16, ShutdownThreads DEF RestartApp, Shut, Spend, Running, FlagType
<1>17. ASSUME RestartFails PROVE Types'
  BY <1>17, ShutdownThreads DEF RestartFails, Shut, Succeeds, Fails, Spend, Running, FlagType
<1>18. ASSUME RestartSucceeds PROVE Types'
  BY <1>18, ShutdownThreads DEF RestartSucceeds, Shut, Running, FlagType
<1>19. ASSUME ExitToRestart PROVE Types'
  BY <1>19, ShutdownThreads DEF ExitToRestart, FlagType
<1>20. ASSUME NEW a \in Closes, StartConfirming(a) PROVE Types'
  BY <1>20, ShutdownThreads DEF StartConfirming, Phase, NewClose, FlagType
<1>21. ASSUME NEW a \in Closes, AskUser(a) PROVE Types'
  BY <1>21, ShutdownThreads DEF AskUser, Phase, FlagType
<1>22. ASSUME NEW a \in Closes, CloseUnasked(a) PROVE Types'
  BY <1>22, ShutdownThreads DEF CloseUnasked, Phase, FlagType
<1>23. ASSUME NEW a \in Closes, UserConfirms(a) PROVE Types'
  BY <1>23, ShutdownThreads DEF UserConfirms, Phase, Running, FlagType
<1>24. ASSUME NEW a \in Closes, UserDeclines(a) PROVE Types'
  BY <1>24, ShutdownThreads DEF UserDeclines, Phase, Running, FlagType
<1>25. ASSUME NEW a \in Closes, BeginFlush(a) PROVE Types'
  <2>1. flag' \in FlagType /\ flag'.generation = flag.generation + 1
    <3>1. /\ flag \in FlagType
          /\ flag' = [flag EXCEPT !.inProgress = TRUE, !.acknowledged = FALSE,
                                  !.generation = @ + 1]
      BY <1>25 DEF BeginFlush
    <3> HIDE DEF Types
    <3>2. QED
      BY <3>1, FlagFields DEF FlagType
  <2>2. gen' \in [Closes -> 0 .. flag'.generation]
    BY <1>25, <2>1, FlagFields DEF BeginFlush
  <2>3. QED
    BY <1>25, <2>1, <2>2 DEF BeginFlush, Phase, Warn, Running
<1>26. ASSUME NEW a \in Closes, TimerFires(a) PROVE Types'
  BY <1>26, ShutdownThreads, CancelEffect, FlagFields DEF TimerFires, Warn, CloseIsCurrent,
     Expires, Running
<1>27. ASSUME NEW a \in Closes, ShowWarning(a) PROVE Types'
  BY <1>27, ShutdownThreads DEF ShowWarning, Warn, Running, FlagType
<1>28. ASSUME NEW a \in Closes, KeepOpen(a) PROVE Types'
  BY <1>28, ShutdownThreads DEF KeepOpen, Warn, Offered, StillWarning, Running, FlagType
<1>29. ASSUME NEW a \in Closes, CloseAnyway(a) PROVE Types'
  BY <1>29, ShutdownThreads DEF CloseAnyway, Warn, Offered, StillWarning, Running, FlagType
<1>30. ASSUME NEW a \in Closes, ForceStop(a) PROVE Types'
  BY <1>30, ShutdownThreads DEF ForceStop, Warn, Running, FlagType
<1>31. ASSUME NEW a \in Closes, ForceClaim(a) PROVE Types'
  <2>1. flag' \in FlagType /\ flag'.generation = flag.generation + 1
    <3>1. flag \in FlagType /\ flag' = [flag EXCEPT !.inProgress = TRUE, !.generation = @ + 1]
      BY <1>31 DEF ForceClaim
    <3> HIDE DEF Types
    <3>2. QED
      BY <3>1, FlagFields DEF FlagType
  <2>2. gen' \in [Closes -> 0 .. flag'.generation]
    BY <1>31, <2>1, FlagFields DEF ForceClaim
  <2>3. QED
    BY <1>31, <2>1, <2>2 DEF ForceClaim, Phase, Warn, Running
<1>32. ASSUME NEW a \in Closes, ForceDestroy(a) PROVE Types'
  BY <1>32, ShutdownThreads, CancelEffect, FlagFields DEF ForceDestroy, Warn, Succeeds,
     Fails, Spend, Destroy
<1>33. ASSUME NEW a \in Closes, RendererFlushed(a) PROVE Types'
  <2>1. flag' \in FlagType /\ flag'.generation = flag.generation
    <3>1. flag \in FlagType
          /\ (UNCHANGED flag \/ flag' = [flag EXCEPT !.acknowledged = TRUE])
      BY <1>33 DEF RendererFlushed
    <3> HIDE DEF Types
    <3>2. QED
      BY <3>1 DEF FlagType
  <2>2. gen' \in [Closes -> 0 .. flag'.generation]
    BY <1>33, <2>1 DEF RendererFlushed
  <2>3. QED
    BY <1>33, <2>1, <2>2, ShutdownThreads DEF RendererFlushed, Phase, Shut, Running
<1>34. ASSUME NEW a \in Closes, CheckCurrent(a) PROVE Types'
  BY <1>34, ShutdownThreads DEF CheckCurrent, Shut, CloseIsCurrent, Running, FlagType
<1>35. ASSUME NEW a \in Closes, ShutdownFailed(a) PROVE Types'
  BY <1>35, ShutdownThreads, CancelEffect, FlagFields DEF ShutdownFailed, Phase, Warn, Shut,
     CloseIsCurrent, Running
<1>36. ASSUME NEW a \in Closes, Consume(a) PROVE Types'
  <2>1. flag' \in FlagType /\ flag'.generation \in {flag.generation, flag.generation + 1}
    <3>1. /\ flag \in FlagType
          /\ flag' \in {flag, [flag EXCEPT !.generation = @ + 1, !.acknowledged = FALSE]}
      BY <1>36 DEF Consume
    <3> HIDE DEF Types
    <3>2. QED
      BY <3>1, FlagFields DEF FlagType
  <2>2. gen' \in [Closes -> 0 .. flag'.generation]
    BY <1>36, <2>1, FlagFields DEF Consume
  <2>3. QED
    BY <1>36, <2>1, <2>2, ShutdownThreads DEF Consume, Phase, Shut
<1>37. ASSUME NEW a \in Closes, DestroyMain(a) PROVE Types'
  BY <1>37, ShutdownThreads, CancelEffect, FlagFields DEF DestroyMain, Phase, Succeeds,
     Fails, Spend, Running, Destroy
<1>38. ASSUME NEW t \in Shutdowns, FlushFirst(t) PROVE Types'
  BY <1>38, ShutdownThreads DEF FlushFirst, Shut, Succeeds, Fails, Spend, Running, Flush,
     FlagType
<1>39. ASSUME NEW t \in Shutdowns, StopWork(t) PROVE Types'
  BY <1>39, ShutdownThreads DEF StopWork, Shut, Running, FlagType
<1>40. ASSUME NEW t \in Shutdowns, FlushSecond(t) PROVE Types'
  BY <1>40, ShutdownThreads DEF FlushSecond, Shut, Succeeds, Fails, Spend, Running, Flush,
     FlagType
<1>41. CASE UNCHANGED closeVars
  BY <1>41 DEF closeVars
<1>42. QED
  BY <1>1, <1>2, <1>3, <1>4, <1>5, <1>6, <1>7, <1>8, <1>9, <1>10, <1>11, <1>12,
     <1>13, <1>14, <1>15, <1>16, <1>17, <1>18, <1>19, <1>20, <1>21, <1>22, <1>23,
     <1>24, <1>25, <1>26, <1>27, <1>28, <1>29, <1>30, <1>31, <1>32, <1>33, <1>34,
     <1>35, <1>36, <1>37, <1>38, <1>39, <1>40, <1>41
  DEF CloseNext, User, MainStep, CloseStep, TimerStep

-----------------------------------------------------------------------------
(* The main thread and the requests                                        *)

\* Every step keeps a handler's request and its thread in agreement.
LEMMA MatchStep ==
  ASSUME Types, HandlersMatch, [CloseNext]_closeVars
  PROVE  HandlersMatch'
<1> USE DEF Types, HandlersMatch, loop, closes
<1>1. ASSUME StartWork PROVE HandlersMatch'
  BY <1>1, ShutdownThreads DEF StartWork, Spend, Running, FlagType
<1>2. ASSUME WorkEnds PROVE HandlersMatch'
  BY <1>2, ShutdownThreads DEF WorkEnds, Running, FlagType
<1>3. ASSUME CloseRequested PROVE HandlersMatch'
  BY <1>3, ShutdownThreads DEF CloseRequested, FlagType
<1>4. ASSUME CloseIgnored PROVE HandlersMatch'
  BY <1>4, ShutdownThreads DEF CloseIgnored, FlagType
<1>5. ASSUME AlreadyConfirming PROVE HandlersMatch'
  BY <1>5, ShutdownThreads DEF AlreadyConfirming, FlagType
<1>6. ASSUME WindowRemoved PROVE HandlersMatch'
  BY <1>6, ShutdownThreads DEF WindowRemoved, FlagType
<1>7. ASSUME OnMainDestroyed PROVE HandlersMatch'
  BY <1>7, ShutdownThreads DEF OnMainDestroyed, FlagType
<1>8. ASSUME AppExits PROVE HandlersMatch'
  BY <1>8, ShutdownThreads DEF AppExits, Shut, Exit, FlagType
<1>9. ASSUME WindowOnlyCloses PROVE HandlersMatch'
  BY <1>9, ShutdownThreads DEF WindowOnlyCloses, FlagType
<1>10. ASSUME LastWindowClosed PROVE HandlersMatch'
  BY <1>10, ShutdownThreads DEF LastWindowClosed, Shut, Exit, FlagType
<1>11. ASSUME ProcessEnds PROVE HandlersMatch'
  BY <1>11, ShutdownThreads DEF ProcessEnds, FlagType
<1>12. ASSUME Reopen PROVE HandlersMatch'
  BY <1>12, ShutdownThreads DEF Reopen, Spend, FlagType
<1>13. ASSUME RequestQuit PROVE HandlersMatch'
  <2>1. ASSUME flag' = [flag EXCEPT !.quitting = TRUE] PROVE HandlersMatch'
    BY <1>13, <2>1 DEF RequestQuit, FlagType
  <2>2. ASSUME CancelClose PROVE HandlersMatch'
    BY <1>13, <2>2, CancelEffect, FlagFields DEF RequestQuit
  <2>3. QED
    BY <1>13, <2>1, <2>2 DEF RequestQuit
<1>14. ASSUME QuitWithoutWindow PROVE HandlersMatch'
  BY <1>14, ShutdownThreads DEF QuitWithoutWindow, Shut, FlagType
<1>15. ASSUME QuitReturns PROVE HandlersMatch'
  BY <1>15, ShutdownThreads DEF QuitReturns, Shut, Exit, FlagType
<1>16. ASSUME RestartApp PROVE HandlersMatch'
  BY <1>16, ShutdownThreads DEF RestartApp, Shut, Spend, Running, FlagType
<1>17. ASSUME RestartFails PROVE HandlersMatch'
  BY <1>17, ShutdownThreads DEF RestartFails, Shut, Succeeds, Fails, Spend, Running, FlagType
<1>18. ASSUME RestartSucceeds PROVE HandlersMatch'
  BY <1>18, ShutdownThreads DEF RestartSucceeds, Shut, Running, FlagType
<1>19. ASSUME ExitToRestart PROVE HandlersMatch'
  BY <1>19, ShutdownThreads DEF ExitToRestart, FlagType
<1>20. ASSUME NEW a \in Closes, StartConfirming(a) PROVE HandlersMatch'
  BY <1>20, ShutdownThreads DEF StartConfirming, Phase, NewClose, FlagType
<1>21. ASSUME NEW a \in Closes, AskUser(a) PROVE HandlersMatch'
  BY <1>21, ShutdownThreads DEF AskUser, Phase, FlagType
<1>22. ASSUME NEW a \in Closes, CloseUnasked(a) PROVE HandlersMatch'
  BY <1>22, ShutdownThreads DEF CloseUnasked, Phase, FlagType
<1>23. ASSUME NEW a \in Closes, UserConfirms(a) PROVE HandlersMatch'
  BY <1>23, ShutdownThreads DEF UserConfirms, Phase, Running, FlagType
<1>24. ASSUME NEW a \in Closes, UserDeclines(a) PROVE HandlersMatch'
  BY <1>24, ShutdownThreads DEF UserDeclines, Phase, Running, FlagType
<1>25. ASSUME NEW a \in Closes, BeginFlush(a) PROVE HandlersMatch'
  BY <1>25, ShutdownThreads DEF BeginFlush, Phase, Warn, Running, FlagType
<1>26. ASSUME NEW a \in Closes, TimerFires(a) PROVE HandlersMatch'
  BY <1>26, ShutdownThreads, CancelEffect, FlagFields DEF TimerFires, Warn, CloseIsCurrent,
     Expires, Running
<1>27. ASSUME NEW a \in Closes, ShowWarning(a) PROVE HandlersMatch'
  BY <1>27, ShutdownThreads DEF ShowWarning, Warn, Running, FlagType
<1>28. ASSUME NEW a \in Closes, KeepOpen(a) PROVE HandlersMatch'
  BY <1>28, ShutdownThreads DEF KeepOpen, Warn, Offered, StillWarning, Running, FlagType
<1>29. ASSUME NEW a \in Closes, CloseAnyway(a) PROVE HandlersMatch'
  BY <1>29, ShutdownThreads DEF CloseAnyway, Warn, Offered, StillWarning, Running, FlagType
<1>30. ASSUME NEW a \in Closes, ForceStop(a) PROVE HandlersMatch'
  BY <1>30, ShutdownThreads DEF ForceStop, Warn, Running, FlagType
<1>31. ASSUME NEW a \in Closes, ForceClaim(a) PROVE HandlersMatch'
  BY <1>31, ShutdownThreads DEF ForceClaim, Warn, Running, FlagType
<1>32. ASSUME NEW a \in Closes, ForceDestroy(a) PROVE HandlersMatch'
  BY <1>32, ShutdownThreads, CancelEffect, FlagFields DEF ForceDestroy, Warn, Succeeds,
     Fails, Spend, Destroy
<1>33. ASSUME NEW a \in Closes, RendererFlushed(a) PROVE HandlersMatch'
  BY <1>33, ShutdownThreads DEF RendererFlushed, Phase, Shut, CloseIsCurrent, Running, FlagType
<1>34. ASSUME NEW a \in Closes, CheckCurrent(a) PROVE HandlersMatch'
  BY <1>34, ShutdownThreads DEF CheckCurrent, Shut, CloseIsCurrent, Running, FlagType
<1>35. ASSUME NEW a \in Closes, ShutdownFailed(a) PROVE HandlersMatch'
  BY <1>35, ShutdownThreads, CancelEffect, FlagFields DEF ShutdownFailed, Phase, Warn, Shut,
     CloseIsCurrent, Running
<1>36. ASSUME NEW a \in Closes, Consume(a) PROVE HandlersMatch'
  BY <1>36, ShutdownThreads DEF Consume, Phase, Shut, CloseIsCurrent, Running, Consumed, FlagType
<1>37. ASSUME NEW a \in Closes, DestroyMain(a) PROVE HandlersMatch'
  BY <1>37, ShutdownThreads, CancelEffect, FlagFields DEF DestroyMain, Phase, Succeeds,
     Fails, Spend, Running, Destroy
<1>38. ASSUME NEW t \in Shutdowns, FlushFirst(t) PROVE HandlersMatch'
  BY <1>38, ShutdownThreads DEF FlushFirst, Shut, Succeeds, Fails, Spend, Running, Flush,
     FlagType
<1>39. ASSUME NEW t \in Shutdowns, StopWork(t) PROVE HandlersMatch'
  BY <1>39, ShutdownThreads DEF StopWork, Shut, Running, FlagType
<1>40. ASSUME NEW t \in Shutdowns, FlushSecond(t) PROVE HandlersMatch'
  BY <1>40, ShutdownThreads DEF FlushSecond, Shut, Succeeds, Fails, Spend, Running, Flush,
     FlagType
<1>41. CASE UNCHANGED closeVars
  BY <1>41 DEF closeVars
<1>42. QED
  BY <1>1, <1>2, <1>3, <1>4, <1>5, <1>6, <1>7, <1>8, <1>9, <1>10, <1>11, <1>12,
     <1>13, <1>14, <1>15, <1>16, <1>17, <1>18, <1>19, <1>20, <1>21, <1>22, <1>23,
     <1>24, <1>25, <1>26, <1>27, <1>28, <1>29, <1>30, <1>31, <1>32, <1>33, <1>34,
     <1>35, <1>36, <1>37, <1>38, <1>39, <1>40, <1>41
  DEF CloseNext, User, MainStep, CloseStep, TimerStep

-----------------------------------------------------------------------------
(* The main thread and the window                                          *)

\* Every step keeps what the main thread's position says of the window.
LEMMA MainStepInv ==
  ASSUME Types, HandlersMatch, MainInv, [CloseNext]_closeVars
  PROVE  MainInv'
<1> USE DEF Types, HandlersMatch, MainInv, loop, closes
<1>1. ASSUME StartWork PROVE MainInv'
  BY <1>1, ShutdownThreads DEF StartWork, Spend, Running, FlagType
<1>2. ASSUME WorkEnds PROVE MainInv'
  BY <1>2, ShutdownThreads DEF WorkEnds, Running, FlagType
<1>3. ASSUME CloseRequested PROVE MainInv'
  BY <1>3, ShutdownThreads DEF CloseRequested, FlagType
<1>4. ASSUME CloseIgnored PROVE MainInv'
  BY <1>4, ShutdownThreads DEF CloseIgnored, FlagType
<1>5. ASSUME AlreadyConfirming PROVE MainInv'
  BY <1>5, ShutdownThreads DEF AlreadyConfirming, FlagType
<1>6. ASSUME WindowRemoved PROVE MainInv'
  BY <1>6, ShutdownThreads DEF WindowRemoved, FlagType
<1>7. ASSUME OnMainDestroyed PROVE MainInv'
  BY <1>7, ShutdownThreads DEF OnMainDestroyed, FlagType
<1>8. ASSUME AppExits PROVE MainInv'
  BY <1>8, ShutdownThreads DEF AppExits, Shut, Exit, FlagType
<1>9. ASSUME WindowOnlyCloses PROVE MainInv'
  BY <1>9, ShutdownThreads DEF WindowOnlyCloses, FlagType
<1>10. ASSUME LastWindowClosed PROVE MainInv'
  BY <1>10, ShutdownThreads DEF LastWindowClosed, Shut, Exit, FlagType
<1>11. ASSUME ProcessEnds PROVE MainInv'
  BY <1>11, ShutdownThreads DEF ProcessEnds, FlagType
<1>12. ASSUME Reopen PROVE MainInv'
  BY <1>12, ShutdownThreads DEF Reopen, Spend, FlagType
<1>13. ASSUME RequestQuit PROVE MainInv'
  <2>1. ASSUME flag' = [flag EXCEPT !.quitting = TRUE] PROVE MainInv'
    BY <1>13, <2>1 DEF RequestQuit, FlagType
  <2>2. ASSUME CancelClose PROVE MainInv'
    BY <1>13, <2>2, CancelEffect, FlagFields DEF RequestQuit
  <2>3. QED
    BY <1>13, <2>1, <2>2 DEF RequestQuit
<1>14. ASSUME QuitWithoutWindow PROVE MainInv'
  BY <1>14, ShutdownThreads DEF QuitWithoutWindow, Shut, FlagType
<1>15. ASSUME QuitReturns PROVE MainInv'
  BY <1>15, ShutdownThreads DEF QuitReturns, Shut, Exit, FlagType
<1>16. ASSUME RestartApp PROVE MainInv'
  BY <1>16, ShutdownThreads DEF RestartApp, Shut, Spend, Running, FlagType
<1>17. ASSUME RestartFails PROVE MainInv'
  BY <1>17, ShutdownThreads DEF RestartFails, Shut, Succeeds, Fails, Spend, Running, FlagType
<1>18. ASSUME RestartSucceeds PROVE MainInv'
  BY <1>18, ShutdownThreads DEF RestartSucceeds, Shut, Running, FlagType
<1>19. ASSUME ExitToRestart PROVE MainInv'
  BY <1>19, ShutdownThreads DEF ExitToRestart, FlagType
<1>20. ASSUME NEW a \in Closes, StartConfirming(a) PROVE MainInv'
  BY <1>20, ShutdownThreads DEF StartConfirming, Phase, NewClose, FlagType
<1>21. ASSUME NEW a \in Closes, AskUser(a) PROVE MainInv'
  BY <1>21, ShutdownThreads DEF AskUser, Phase, FlagType
<1>22. ASSUME NEW a \in Closes, CloseUnasked(a) PROVE MainInv'
  BY <1>22, ShutdownThreads DEF CloseUnasked, Phase, FlagType
<1>23. ASSUME NEW a \in Closes, UserConfirms(a) PROVE MainInv'
  BY <1>23, ShutdownThreads DEF UserConfirms, Phase, Running, FlagType
<1>24. ASSUME NEW a \in Closes, UserDeclines(a) PROVE MainInv'
  BY <1>24, ShutdownThreads DEF UserDeclines, Phase, Running, FlagType
<1>25. ASSUME NEW a \in Closes, BeginFlush(a) PROVE MainInv'
  BY <1>25, ShutdownThreads DEF BeginFlush, Phase, Warn, Running, FlagType
<1>26. ASSUME NEW a \in Closes, TimerFires(a) PROVE MainInv'
  BY <1>26, ShutdownThreads, CancelEffect, FlagFields DEF TimerFires, Warn, CloseIsCurrent,
     Expires, Running
<1>27. ASSUME NEW a \in Closes, ShowWarning(a) PROVE MainInv'
  BY <1>27, ShutdownThreads DEF ShowWarning, Warn, Running, FlagType
<1>28. ASSUME NEW a \in Closes, KeepOpen(a) PROVE MainInv'
  BY <1>28, ShutdownThreads DEF KeepOpen, Warn, Offered, StillWarning, Running, FlagType
<1>29. ASSUME NEW a \in Closes, CloseAnyway(a) PROVE MainInv'
  BY <1>29, ShutdownThreads DEF CloseAnyway, Warn, Offered, StillWarning, Running, FlagType
<1>30. ASSUME NEW a \in Closes, ForceStop(a) PROVE MainInv'
  BY <1>30, ShutdownThreads DEF ForceStop, Warn, Running, FlagType
<1>31. ASSUME NEW a \in Closes, ForceClaim(a) PROVE MainInv'
  BY <1>31, ShutdownThreads DEF ForceClaim, Warn, Running, FlagType
<1>32. ASSUME NEW a \in Closes, ForceDestroy(a) PROVE MainInv'
  BY <1>32, ShutdownThreads, CancelEffect, FlagFields DEF ForceDestroy, Warn, Succeeds,
     Fails, Spend, Destroy
<1>33. ASSUME NEW a \in Closes, RendererFlushed(a) PROVE MainInv'
  BY <1>33, ShutdownThreads DEF RendererFlushed, Phase, Shut, CloseIsCurrent, Running, FlagType
<1>34. ASSUME NEW a \in Closes, CheckCurrent(a) PROVE MainInv'
  BY <1>34, ShutdownThreads DEF CheckCurrent, Shut, CloseIsCurrent, Running, FlagType
<1>35. ASSUME NEW a \in Closes, ShutdownFailed(a) PROVE MainInv'
  BY <1>35, ShutdownThreads, CancelEffect, FlagFields DEF ShutdownFailed, Phase, Warn, Shut,
     CloseIsCurrent, Running
<1>36. ASSUME NEW a \in Closes, Consume(a) PROVE MainInv'
  <2>1. /\ flag'.confirming = flag.confirming /\ flag'.quitting = flag.quitting
        /\ flag'.inProgress = flag.inProgress
    BY <1>36, ConsumeEffect
  <2>2. phase[a] = "shutdown" /\ \A b \in Closes \ {a} : phase'[b] = phase[b]
    BY <1>36, ShutdownThreads DEF Consume, Phase
  <2>3. QED
    BY <1>36, <2>1, <2>2, ShutdownThreads DEF Consume, Shut
<1>37. ASSUME NEW a \in Closes, DestroyMain(a) PROVE MainInv'
  BY <1>37, ShutdownThreads, CancelEffect, FlagFields DEF DestroyMain, Phase, Succeeds,
     Fails, Spend, Running, Destroy
<1>38. ASSUME NEW t \in Shutdowns, FlushFirst(t) PROVE MainInv'
  BY <1>38, ShutdownThreads DEF FlushFirst, Shut, Succeeds, Fails, Spend, Running, Flush,
     FlagType
<1>39. ASSUME NEW t \in Shutdowns, StopWork(t) PROVE MainInv'
  BY <1>39, ShutdownThreads DEF StopWork, Shut, Running, FlagType
<1>40. ASSUME NEW t \in Shutdowns, FlushSecond(t) PROVE MainInv'
  BY <1>40, ShutdownThreads DEF FlushSecond, Shut, Succeeds, Fails, Spend, Running, Flush,
     FlagType
<1>41. CASE UNCHANGED closeVars
  BY <1>41 DEF closeVars
<1>42. QED
  BY <1>1, <1>2, <1>3, <1>4, <1>5, <1>6, <1>7, <1>8, <1>9, <1>10, <1>11, <1>12,
     <1>13, <1>14, <1>15, <1>16, <1>17, <1>18, <1>19, <1>20, <1>21, <1>22, <1>23,
     <1>24, <1>25, <1>26, <1>27, <1>28, <1>29, <1>30, <1>31, <1>32, <1>33, <1>34,
     <1>35, <1>36, <1>37, <1>38, <1>39, <1>40, <1>41
  DEF CloseNext, User, MainStep, CloseStep, TimerStep

-----------------------------------------------------------------------------
(* Generations and timers                                                  *)

\* Every step keeps the order of the generations that timers and threads carry.
LEMMA GenStep ==
  ASSUME Types, HandlersMatch, GenInv, [CloseNext]_closeVars
  PROVE  GenInv'
<1> USE DEF Types, HandlersMatch, GenInv, Unbegun, loop, closes
<1>1. ASSUME StartWork PROVE GenInv'
  BY <1>1, ShutdownThreads DEF StartWork, Spend, Running, FlagType
<1>2. ASSUME WorkEnds PROVE GenInv'
  BY <1>2, ShutdownThreads DEF WorkEnds, Running, FlagType
<1>3. ASSUME CloseRequested PROVE GenInv'
  BY <1>3, ShutdownThreads DEF CloseRequested, FlagType
<1>4. ASSUME CloseIgnored PROVE GenInv'
  BY <1>4, ShutdownThreads DEF CloseIgnored, FlagType
<1>5. ASSUME AlreadyConfirming PROVE GenInv'
  BY <1>5, ShutdownThreads DEF AlreadyConfirming, FlagType
<1>6. ASSUME WindowRemoved PROVE GenInv'
  BY <1>6, ShutdownThreads DEF WindowRemoved, FlagType
<1>7. ASSUME OnMainDestroyed PROVE GenInv'
  BY <1>7, ShutdownThreads DEF OnMainDestroyed, FlagType
<1>8. ASSUME AppExits PROVE GenInv'
  BY <1>8, ShutdownThreads DEF AppExits, Shut, Exit, FlagType
<1>9. ASSUME WindowOnlyCloses PROVE GenInv'
  BY <1>9, ShutdownThreads DEF WindowOnlyCloses, FlagType
<1>10. ASSUME LastWindowClosed PROVE GenInv'
  BY <1>10, ShutdownThreads DEF LastWindowClosed, Shut, Exit, FlagType
<1>11. ASSUME ProcessEnds PROVE GenInv'
  BY <1>11, ShutdownThreads DEF ProcessEnds, FlagType
<1>12. ASSUME Reopen PROVE GenInv'
  BY <1>12, ShutdownThreads DEF Reopen, Spend, FlagType
<1>13. ASSUME RequestQuit PROVE GenInv'
  <2>1. ASSUME flag' = [flag EXCEPT !.quitting = TRUE] PROVE GenInv'
    BY <1>13, <2>1 DEF RequestQuit, FlagType
  <2>2. ASSUME CancelClose PROVE GenInv'
    BY <1>13, <2>2, CancelEffect, FlagFields DEF RequestQuit
  <2>3. QED
    BY <1>13, <2>1, <2>2 DEF RequestQuit
<1>14. ASSUME QuitWithoutWindow PROVE GenInv'
  BY <1>14, ShutdownThreads DEF QuitWithoutWindow, Shut, FlagType
<1>15. ASSUME QuitReturns PROVE GenInv'
  BY <1>15, ShutdownThreads DEF QuitReturns, Shut, Exit, FlagType
<1>16. ASSUME RestartApp PROVE GenInv'
  BY <1>16, ShutdownThreads DEF RestartApp, Shut, Spend, Running, FlagType
<1>17. ASSUME RestartFails PROVE GenInv'
  BY <1>17, ShutdownThreads DEF RestartFails, Shut, Succeeds, Fails, Spend, Running, FlagType
<1>18. ASSUME RestartSucceeds PROVE GenInv'
  BY <1>18, ShutdownThreads DEF RestartSucceeds, Shut, Running, FlagType
<1>19. ASSUME ExitToRestart PROVE GenInv'
  BY <1>19, ShutdownThreads DEF ExitToRestart, FlagType
<1>20. ASSUME NEW a \in Closes, StartConfirming(a) PROVE GenInv'
  BY <1>20, ShutdownThreads DEF StartConfirming, Phase, NewClose, FlagType
<1>21. ASSUME NEW a \in Closes, AskUser(a) PROVE GenInv'
  BY <1>21, ShutdownThreads DEF AskUser, Phase, FlagType
<1>22. ASSUME NEW a \in Closes, CloseUnasked(a) PROVE GenInv'
  BY <1>22, ShutdownThreads DEF CloseUnasked, Phase, FlagType
<1>23. ASSUME NEW a \in Closes, UserConfirms(a) PROVE GenInv'
  BY <1>23, ShutdownThreads DEF UserConfirms, Phase, Running, FlagType
<1>24. ASSUME NEW a \in Closes, UserDeclines(a) PROVE GenInv'
  BY <1>24, ShutdownThreads DEF UserDeclines, Phase, Running, FlagType
<1>25. ASSUME NEW a \in Closes, BeginFlush(a) PROVE GenInv'
  BY <1>25, ShutdownThreads DEF BeginFlush, Phase, Warn, Running, FlagType
<1>26. ASSUME NEW a \in Closes, TimerFires(a) PROVE GenInv'
  BY <1>26, ShutdownThreads, CancelEffect, FlagFields DEF TimerFires, Warn, CloseIsCurrent,
     Expires, Running
<1>27. ASSUME NEW a \in Closes, ShowWarning(a) PROVE GenInv'
  BY <1>27, ShutdownThreads DEF ShowWarning, Warn, Running, FlagType
<1>28. ASSUME NEW a \in Closes, KeepOpen(a) PROVE GenInv'
  <2>1. /\ flag'.generation = flag.generation /\ flag'.acknowledged = flag.acknowledged
        /\ flag'.warning = StillWarning(a)
    BY <1>28 DEF KeepOpen, FlagType
  <2>2. QED
    BY <1>28, <2>1, FlagFields DEF KeepOpen, Warn, Offered, StillWarning
<1>29. ASSUME NEW a \in Closes, CloseAnyway(a) PROVE GenInv'
  <2>1. /\ flag'.generation = flag.generation /\ flag'.acknowledged = flag.acknowledged
        /\ flag'.warning = StillWarning(a)
    BY <1>29 DEF CloseAnyway, FlagType
  <2>2. QED
    BY <1>29, <2>1, FlagFields DEF CloseAnyway, Warn, Offered, StillWarning
<1>30. ASSUME NEW a \in Closes, ForceStop(a) PROVE GenInv'
  BY <1>30, ShutdownThreads DEF ForceStop, Warn, Running, FlagType
<1>31. ASSUME NEW a \in Closes, ForceClaim(a) PROVE GenInv'
  BY <1>31, ShutdownThreads DEF ForceClaim, Warn, Running, FlagType
<1>32. ASSUME NEW a \in Closes, ForceDestroy(a) PROVE GenInv'
  BY <1>32, ShutdownThreads, CancelEffect, FlagFields DEF ForceDestroy, Warn, Succeeds,
     Fails, Spend, Destroy
<1>33. ASSUME NEW a \in Closes, RendererFlushed(a) PROVE GenInv'
  BY <1>33, ShutdownThreads DEF RendererFlushed, Phase, Shut, CloseIsCurrent, Running, FlagType
<1>34. ASSUME NEW a \in Closes, CheckCurrent(a) PROVE GenInv'
  BY <1>34, ShutdownThreads DEF CheckCurrent, Shut, CloseIsCurrent, Running, FlagType
<1>35. ASSUME NEW a \in Closes, ShutdownFailed(a) PROVE GenInv'
  BY <1>35, ShutdownThreads, CancelEffect, FlagFields DEF ShutdownFailed, Phase, Warn, Shut,
     CloseIsCurrent, Running
<1>36. ASSUME NEW a \in Closes, Consume(a) PROVE GenInv'
  <2>1. CASE Consumed(a)
    <3>1. flag' = [flag EXCEPT !.generation = @ + 1, !.acknowledged = FALSE]
          /\ Phase(a, "destroy") /\ UNCHANGED <<gen, warn>>
      BY <1>36, <2>1 DEF Consume
    <3>2. flag'.generation = flag.generation + 1 /\ flag'.warning = flag.warning
      BY <3>1, FlagFields DEF FlagType
    <3>3. QED
      BY <1>36, <3>1, <3>2, FlagFields DEF Consume, Phase
  <2>2. CASE ~Consumed(a)
    BY <1>36, <2>2 DEF Consume, Phase
  <2>3. QED
    BY <2>1, <2>2
<1>37. ASSUME NEW a \in Closes, DestroyMain(a) PROVE GenInv'
  BY <1>37, ShutdownThreads, CancelEffect, FlagFields DEF DestroyMain, Phase, Succeeds,
     Fails, Spend, Running, Destroy
<1>38. ASSUME NEW t \in Shutdowns, FlushFirst(t) PROVE GenInv'
  BY <1>38, ShutdownThreads DEF FlushFirst, Shut, Succeeds, Fails, Spend, Running, Flush,
     FlagType
<1>39. ASSUME NEW t \in Shutdowns, StopWork(t) PROVE GenInv'
  BY <1>39, ShutdownThreads DEF StopWork, Shut, Running, FlagType
<1>40. ASSUME NEW t \in Shutdowns, FlushSecond(t) PROVE GenInv'
  BY <1>40, ShutdownThreads DEF FlushSecond, Shut, Succeeds, Fails, Spend, Running, Flush,
     FlagType
<1>41. CASE UNCHANGED closeVars
  BY <1>41 DEF closeVars
<1>42. QED
  BY <1>1, <1>2, <1>3, <1>4, <1>5, <1>6, <1>7, <1>8, <1>9, <1>10, <1>11, <1>12,
     <1>13, <1>14, <1>15, <1>16, <1>17, <1>18, <1>19, <1>20, <1>21, <1>22, <1>23,
     <1>24, <1>25, <1>26, <1>27, <1>28, <1>29, <1>30, <1>31, <1>32, <1>33, <1>34,
     <1>35, <1>36, <1>37, <1>38, <1>39, <1>40, <1>41
  DEF CloseNext, User, MainStep, CloseStep, TimerStep

-----------------------------------------------------------------------------
(* The owner of CLOSE_IN_PROGRESS                                          *)

\* Every step leaves a close in progress with somebody who will end it.
LEMMA OwnerStep ==
  ASSUME Types, HandlersMatch, MainInv, GenInv, CloseHasOwner, [CloseNext]_closeVars
  PROVE  CloseHasOwner'
<1> USE DEF Types, HandlersMatch, MainInv, GenInv, CloseHasOwner, Running, loop,
            closes, Unbegun
<1>1. ASSUME StartWork PROVE CloseHasOwner'
  BY <1>1, ShutdownThreads DEF StartWork, Spend, FlagType
<1>2. ASSUME WorkEnds PROVE CloseHasOwner'
  BY <1>2, ShutdownThreads DEF WorkEnds, FlagType
<1>3. ASSUME CloseRequested PROVE CloseHasOwner'
  BY <1>3, ShutdownThreads DEF CloseRequested, FlagType
<1>4. ASSUME CloseIgnored PROVE CloseHasOwner'
  BY <1>4, ShutdownThreads DEF CloseIgnored, FlagType
<1>5. ASSUME AlreadyConfirming PROVE CloseHasOwner'
  BY <1>5, ShutdownThreads DEF AlreadyConfirming, FlagType
<1>6. ASSUME WindowRemoved PROVE CloseHasOwner'
  BY <1>6, ShutdownThreads DEF WindowRemoved, FlagType
<1>7. ASSUME OnMainDestroyed PROVE CloseHasOwner'
  BY <1>7, ShutdownThreads DEF OnMainDestroyed, FlagType
<1>8. ASSUME AppExits PROVE CloseHasOwner'
  BY <1>8, ShutdownThreads DEF AppExits, Shut, Exit, FlagType
<1>9. ASSUME WindowOnlyCloses PROVE CloseHasOwner'
  BY <1>9, ShutdownThreads DEF WindowOnlyCloses, FlagType
<1>10. ASSUME LastWindowClosed PROVE CloseHasOwner'
  BY <1>10, ShutdownThreads DEF LastWindowClosed, Shut, Exit, FlagType
<1>11. ASSUME ProcessEnds PROVE CloseHasOwner'
  BY <1>11, ShutdownThreads DEF ProcessEnds, FlagType
<1>12. ASSUME Reopen PROVE CloseHasOwner'
  BY <1>12, ShutdownThreads DEF Reopen, Spend, FlagType
<1>13. ASSUME RequestQuit PROVE CloseHasOwner'
  <2>1. ASSUME flag' = [flag EXCEPT !.quitting = TRUE] PROVE CloseHasOwner'
    BY <1>13, <2>1 DEF RequestQuit, FlagType
  <2>2. ASSUME CancelClose PROVE CloseHasOwner'
    BY <1>13, <2>2, CancelEffect, FlagFields DEF RequestQuit
  <2>3. QED
    BY <1>13, <2>1, <2>2 DEF RequestQuit
<1>14. ASSUME QuitWithoutWindow PROVE CloseHasOwner'
  BY <1>14, ShutdownThreads DEF QuitWithoutWindow, Shut, FlagType
<1>15. ASSUME QuitReturns PROVE CloseHasOwner'
  BY <1>15, ShutdownThreads DEF QuitReturns, Shut, Exit, FlagType
<1>16. ASSUME RestartApp PROVE CloseHasOwner'
  BY <1>16, ShutdownThreads DEF RestartApp, Shut, Spend, FlagType
<1>17. ASSUME RestartFails PROVE CloseHasOwner'
  BY <1>17, ShutdownThreads DEF RestartFails, Shut, Succeeds, Fails, Spend, FlagType
<1>18. ASSUME RestartSucceeds PROVE CloseHasOwner'
  BY <1>18, ShutdownThreads DEF RestartSucceeds, Shut, FlagType
<1>19. ASSUME ExitToRestart PROVE CloseHasOwner'
  BY <1>19, ShutdownThreads DEF ExitToRestart, FlagType
<1>20. ASSUME NEW a \in Closes, StartConfirming(a) PROVE CloseHasOwner'
  BY <1>20, ShutdownThreads DEF StartConfirming, Phase, NewClose, FlagType
<1>21. ASSUME NEW a \in Closes, AskUser(a) PROVE CloseHasOwner'
  BY <1>21, ShutdownThreads DEF AskUser, Phase, FlagType
<1>22. ASSUME NEW a \in Closes, CloseUnasked(a) PROVE CloseHasOwner'
  BY <1>22, ShutdownThreads DEF CloseUnasked, Phase, FlagType
<1>23. ASSUME NEW a \in Closes, UserConfirms(a) PROVE CloseHasOwner'
  BY <1>23, ShutdownThreads DEF UserConfirms, Phase, FlagType
<1>24. ASSUME NEW a \in Closes, UserDeclines(a) PROVE CloseHasOwner'
  BY <1>24, ShutdownThreads DEF UserDeclines, Phase, FlagType
<1>25. ASSUME NEW a \in Closes, BeginFlush(a) PROVE CloseHasOwner'
  BY <1>25, ShutdownThreads DEF BeginFlush, Phase, Warn, FlagType
<1>26. ASSUME NEW a \in Closes, TimerFires(a) PROVE CloseHasOwner'
  BY <1>26, ShutdownThreads, CancelEffect, FlagFields DEF TimerFires, Warn, CloseIsCurrent, Expires
<1>27. ASSUME NEW a \in Closes, ShowWarning(a) PROVE CloseHasOwner'
  BY <1>27, ShutdownThreads DEF ShowWarning, Warn, FlagType
<1>28. ASSUME NEW a \in Closes, KeepOpen(a) PROVE CloseHasOwner'
  BY <1>28, ShutdownThreads DEF KeepOpen, Warn, Offered, StillWarning, FlagType
<1>29. ASSUME NEW a \in Closes, CloseAnyway(a) PROVE CloseHasOwner'
  BY <1>29, ShutdownThreads DEF CloseAnyway, Warn, Offered, StillWarning, FlagType
<1>30. ASSUME NEW a \in Closes, ForceStop(a) PROVE CloseHasOwner'
  BY <1>30, ShutdownThreads DEF ForceStop, Warn, FlagType
<1>31. ASSUME NEW a \in Closes, ForceClaim(a) PROVE CloseHasOwner'
  BY <1>31, ShutdownThreads DEF ForceClaim, Warn, FlagType
<1>32. ASSUME NEW a \in Closes, ForceDestroy(a) PROVE CloseHasOwner'
  BY <1>32, ShutdownThreads, CancelEffect, FlagFields DEF ForceDestroy, Warn, Succeeds,
     Fails, Spend, Destroy
<1>33. ASSUME NEW a \in Closes, RendererFlushed(a) PROVE CloseHasOwner'
  BY <1>33, ShutdownThreads DEF RendererFlushed, Phase, Shut, CloseIsCurrent, FlagType
<1>34. ASSUME NEW a \in Closes, CheckCurrent(a) PROVE CloseHasOwner'
  BY <1>34, ShutdownThreads DEF CheckCurrent, Shut, CloseIsCurrent, FlagType
<1>35. ASSUME NEW a \in Closes, ShutdownFailed(a) PROVE CloseHasOwner'
  BY <1>35, ShutdownThreads, CancelEffect, FlagFields DEF ShutdownFailed, Phase, Warn, Shut,
     CloseIsCurrent
<1>36. ASSUME NEW a \in Closes, Consume(a) PROVE CloseHasOwner'
  BY <1>36, ShutdownThreads DEF Consume, Phase, Shut, CloseIsCurrent, Consumed, FlagType
<1>37. ASSUME NEW a \in Closes, DestroyMain(a) PROVE CloseHasOwner'
  BY <1>37, ShutdownThreads, CancelEffect, FlagFields DEF DestroyMain, Phase, Succeeds,
     Fails, Spend, Destroy
<1>38. ASSUME NEW t \in Shutdowns, FlushFirst(t) PROVE CloseHasOwner'
  BY <1>38, ShutdownThreads DEF FlushFirst, Shut, Succeeds, Fails, Spend, Flush, FlagType
<1>39. ASSUME NEW t \in Shutdowns, StopWork(t) PROVE CloseHasOwner'
  BY <1>39, ShutdownThreads DEF StopWork, Shut, FlagType
<1>40. ASSUME NEW t \in Shutdowns, FlushSecond(t) PROVE CloseHasOwner'
  BY <1>40, ShutdownThreads DEF FlushSecond, Shut, Succeeds, Fails, Spend, Flush, FlagType
<1>41. CASE UNCHANGED closeVars
  BY <1>41 DEF closeVars
<1>42. QED
  BY <1>1, <1>2, <1>3, <1>4, <1>5, <1>6, <1>7, <1>8, <1>9, <1>10, <1>11, <1>12,
     <1>13, <1>14, <1>15, <1>16, <1>17, <1>18, <1>19, <1>20, <1>21, <1>22, <1>23,
     <1>24, <1>25, <1>26, <1>27, <1>28, <1>29, <1>30, <1>31, <1>32, <1>33, <1>34,
     <1>35, <1>36, <1>37, <1>38, <1>39, <1>40, <1>41
  DEF CloseNext, User, MainStep, CloseStep, TimerStep

-----------------------------------------------------------------------------
(* The owner of APP_QUITTING                                               *)

\* Every step leaves a set APP_QUITTING with somebody who quits or clears it.
LEMMA QuitStep ==
  ASSUME Types, HandlersMatch, MainInv, QuitHasOwner, [CloseNext]_closeVars
  PROVE  QuitHasOwner'
<1> USE DEF Types, HandlersMatch, MainInv, QuitHasOwner, Running, loop, closes
<1>1. ASSUME StartWork PROVE QuitHasOwner'
  BY <1>1, ShutdownThreads DEF StartWork, Spend, FlagType
<1>2. ASSUME WorkEnds PROVE QuitHasOwner'
  BY <1>2, ShutdownThreads DEF WorkEnds, FlagType
<1>3. ASSUME CloseRequested PROVE QuitHasOwner'
  BY <1>3, ShutdownThreads DEF CloseRequested, FlagType
<1>4. ASSUME CloseIgnored PROVE QuitHasOwner'
  BY <1>4, ShutdownThreads DEF CloseIgnored, FlagType
<1>5. ASSUME AlreadyConfirming PROVE QuitHasOwner'
  BY <1>5, ShutdownThreads DEF AlreadyConfirming, FlagType
<1>6. ASSUME WindowRemoved PROVE QuitHasOwner'
  BY <1>6, ShutdownThreads DEF WindowRemoved, FlagType
<1>7. ASSUME OnMainDestroyed PROVE QuitHasOwner'
  BY <1>7, ShutdownThreads DEF OnMainDestroyed, FlagType
<1>8. ASSUME AppExits PROVE QuitHasOwner'
  BY <1>8, ShutdownThreads DEF AppExits, Shut, Exit, FlagType
<1>9. ASSUME WindowOnlyCloses PROVE QuitHasOwner'
  BY <1>9, ShutdownThreads DEF WindowOnlyCloses, FlagType
<1>10. ASSUME LastWindowClosed PROVE QuitHasOwner'
  BY <1>10, ShutdownThreads DEF LastWindowClosed, Shut, Exit, FlagType
<1>11. ASSUME ProcessEnds PROVE QuitHasOwner'
  BY <1>11, ShutdownThreads DEF ProcessEnds, FlagType
<1>12. ASSUME Reopen PROVE QuitHasOwner'
  BY <1>12, ShutdownThreads DEF Reopen, Spend, FlagType
<1>13. ASSUME RequestQuit PROVE QuitHasOwner'
  BY <1>13, ShutdownThreads, CancelEffect, FlagFields DEF RequestQuit, Succeeds, Fails, Spend
<1>14. ASSUME QuitWithoutWindow PROVE QuitHasOwner'
  BY <1>14, ShutdownThreads DEF QuitWithoutWindow, Shut, FlagType
<1>15. ASSUME QuitReturns PROVE QuitHasOwner'
  BY <1>15, ShutdownThreads DEF QuitReturns, Shut, Exit, FlagType
<1>16. ASSUME RestartApp PROVE QuitHasOwner'
  BY <1>16, ShutdownThreads DEF RestartApp, Shut, Spend, FlagType
<1>17. ASSUME RestartFails PROVE QuitHasOwner'
  BY <1>17, ShutdownThreads DEF RestartFails, Shut, Succeeds, Fails, Spend, FlagType
<1>18. ASSUME RestartSucceeds PROVE QuitHasOwner'
  BY <1>18, ShutdownThreads DEF RestartSucceeds, Shut, FlagType
<1>19. ASSUME ExitToRestart PROVE QuitHasOwner'
  BY <1>19, ShutdownThreads DEF ExitToRestart, FlagType
<1>20. ASSUME NEW a \in Closes, StartConfirming(a) PROVE QuitHasOwner'
  BY <1>20, ShutdownThreads DEF StartConfirming, Phase, NewClose, FlagType
<1>21. ASSUME NEW a \in Closes, AskUser(a) PROVE QuitHasOwner'
  BY <1>21, ShutdownThreads DEF AskUser, Phase, FlagType
<1>22. ASSUME NEW a \in Closes, CloseUnasked(a) PROVE QuitHasOwner'
  BY <1>22, ShutdownThreads DEF CloseUnasked, Phase, FlagType
<1>23. ASSUME NEW a \in Closes, UserConfirms(a) PROVE QuitHasOwner'
  BY <1>23, ShutdownThreads DEF UserConfirms, Phase, FlagType
<1>24. ASSUME NEW a \in Closes, UserDeclines(a) PROVE QuitHasOwner'
  BY <1>24, ShutdownThreads DEF UserDeclines, Phase, FlagType
<1>25. ASSUME NEW a \in Closes, BeginFlush(a) PROVE QuitHasOwner'
  BY <1>25, ShutdownThreads DEF BeginFlush, Phase, Warn, FlagType
<1>26. ASSUME NEW a \in Closes, TimerFires(a) PROVE QuitHasOwner'
  BY <1>26, ShutdownThreads, CancelEffect, FlagFields DEF TimerFires, Warn, CloseIsCurrent, Expires
<1>27. ASSUME NEW a \in Closes, ShowWarning(a) PROVE QuitHasOwner'
  BY <1>27, ShutdownThreads DEF ShowWarning, Warn, FlagType
<1>28. ASSUME NEW a \in Closes, KeepOpen(a) PROVE QuitHasOwner'
  BY <1>28, ShutdownThreads DEF KeepOpen, Warn, Offered, StillWarning, FlagType
<1>29. ASSUME NEW a \in Closes, CloseAnyway(a) PROVE QuitHasOwner'
  BY <1>29, ShutdownThreads DEF CloseAnyway, Warn, Offered, StillWarning, FlagType
<1>30. ASSUME NEW a \in Closes, ForceStop(a) PROVE QuitHasOwner'
  BY <1>30, ShutdownThreads DEF ForceStop, Warn, FlagType
<1>31. ASSUME NEW a \in Closes, ForceClaim(a) PROVE QuitHasOwner'
  BY <1>31, ShutdownThreads DEF ForceClaim, Warn, FlagType
<1>32. ASSUME NEW a \in Closes, ForceDestroy(a) PROVE QuitHasOwner'
  BY <1>32, ShutdownThreads, CancelEffect, FlagFields DEF ForceDestroy, Warn, Succeeds,
     Fails, Spend, Destroy
<1>33. ASSUME NEW a \in Closes, RendererFlushed(a) PROVE QuitHasOwner'
  BY <1>33, ShutdownThreads DEF RendererFlushed, Phase, Shut, CloseIsCurrent, FlagType
<1>34. ASSUME NEW a \in Closes, CheckCurrent(a) PROVE QuitHasOwner'
  BY <1>34, ShutdownThreads DEF CheckCurrent, Shut, CloseIsCurrent, FlagType
<1>35. ASSUME NEW a \in Closes, ShutdownFailed(a) PROVE QuitHasOwner'
  BY <1>35, ShutdownThreads, CancelEffect, FlagFields DEF ShutdownFailed, Phase, Warn, Shut,
     CloseIsCurrent
<1>36. ASSUME NEW a \in Closes, Consume(a) PROVE QuitHasOwner'
  <2>1. /\ flag'.confirming = flag.confirming /\ flag'.quitting = flag.quitting
        /\ flag'.inProgress = flag.inProgress
    BY <1>36, ConsumeEffect
  <2>2. phase[a] = "shutdown" /\ \A b \in Closes \ {a} : phase'[b] = phase[b]
    BY <1>36, ShutdownThreads DEF Consume, Phase
  <2>3. QED
    BY <1>36, <2>1, <2>2, ShutdownThreads DEF Consume, Shut
<1>37. ASSUME NEW a \in Closes, DestroyMain(a) PROVE QuitHasOwner'
  BY <1>37, ShutdownThreads, CancelEffect, FlagFields DEF DestroyMain, Phase, Succeeds,
     Fails, Spend, Destroy
<1>38. ASSUME NEW t \in Shutdowns, FlushFirst(t) PROVE QuitHasOwner'
  BY <1>38, ShutdownThreads DEF FlushFirst, Shut, Succeeds, Fails, Spend, Flush, FlagType
<1>39. ASSUME NEW t \in Shutdowns, StopWork(t) PROVE QuitHasOwner'
  BY <1>39, ShutdownThreads DEF StopWork, Shut, FlagType
<1>40. ASSUME NEW t \in Shutdowns, FlushSecond(t) PROVE QuitHasOwner'
  BY <1>40, ShutdownThreads DEF FlushSecond, Shut, Succeeds, Fails, Spend, Flush, FlagType
<1>41. CASE UNCHANGED closeVars
  BY <1>41 DEF closeVars
<1>42. QED
  BY <1>1, <1>2, <1>3, <1>4, <1>5, <1>6, <1>7, <1>8, <1>9, <1>10, <1>11, <1>12,
     <1>13, <1>14, <1>15, <1>16, <1>17, <1>18, <1>19, <1>20, <1>21, <1>22, <1>23,
     <1>24, <1>25, <1>26, <1>27, <1>28, <1>29, <1>30, <1>31, <1>32, <1>33, <1>34,
     <1>35, <1>36, <1>37, <1>38, <1>39, <1>40, <1>41
  DEF CloseNext, User, MainStep, CloseStep, TimerStep

-----------------------------------------------------------------------------
(* Late steps                                                              *)

\* No step of a thread or timer of an older close touches a newer one.
LEMMA LateActions ==
  ASSUME Types, HandlersMatch, GenInv, [CloseNext]_closeVars
  PROVE  LateAction
<1> USE DEF Types, HandlersMatch, GenInv, LateAction, loop, closes, Unbegun
<1>1. ASSUME StartWork PROVE LateAction
  BY <1>1, ShutdownThreads DEF StartWork, Spend, Running, FlagType
<1>2. ASSUME WorkEnds PROVE LateAction
  BY <1>2, ShutdownThreads DEF WorkEnds, Running, FlagType
<1>3. ASSUME CloseRequested PROVE LateAction
  BY <1>3, ShutdownThreads DEF CloseRequested, FlagType
<1>4. ASSUME CloseIgnored PROVE LateAction
  BY <1>4, ShutdownThreads DEF CloseIgnored, FlagType
<1>5. ASSUME AlreadyConfirming PROVE LateAction
  BY <1>5, ShutdownThreads DEF AlreadyConfirming, FlagType
<1>6. ASSUME WindowRemoved PROVE LateAction
  BY <1>6, ShutdownThreads DEF WindowRemoved, FlagType
<1>7. ASSUME OnMainDestroyed PROVE LateAction
  BY <1>7, ShutdownThreads DEF OnMainDestroyed, FlagType
<1>8. ASSUME AppExits PROVE LateAction
  BY <1>8, ShutdownThreads DEF AppExits, Shut, Exit, FlagType
<1>9. ASSUME WindowOnlyCloses PROVE LateAction
  BY <1>9, ShutdownThreads DEF WindowOnlyCloses, FlagType
<1>10. ASSUME LastWindowClosed PROVE LateAction
  BY <1>10, ShutdownThreads DEF LastWindowClosed, Shut, Exit, FlagType
<1>11. ASSUME ProcessEnds PROVE LateAction
  BY <1>11, ShutdownThreads DEF ProcessEnds, FlagType
<1>12. ASSUME Reopen PROVE LateAction
  BY <1>12, ShutdownThreads DEF Reopen, Spend, FlagType
<1>13. ASSUME RequestQuit PROVE LateAction
  <2>1. ASSUME flag' = [flag EXCEPT !.quitting = TRUE] PROVE LateAction
    BY <1>13, <2>1 DEF RequestQuit, FlagType
  <2>2. ASSUME CancelClose PROVE LateAction
    BY <1>13, <2>2, CancelEffect, FlagFields DEF RequestQuit
  <2>3. QED
    BY <1>13, <2>1, <2>2 DEF RequestQuit
<1>14. ASSUME QuitWithoutWindow PROVE LateAction
  BY <1>14, ShutdownThreads DEF QuitWithoutWindow, Shut, FlagType
<1>15. ASSUME QuitReturns PROVE LateAction
  BY <1>15, ShutdownThreads DEF QuitReturns, Shut, Exit, FlagType
<1>16. ASSUME RestartApp PROVE LateAction
  BY <1>16, ShutdownThreads DEF RestartApp, Shut, Spend, Running, FlagType
<1>17. ASSUME RestartFails PROVE LateAction
  BY <1>17, ShutdownThreads DEF RestartFails, Shut, Succeeds, Fails, Spend, Running, FlagType
<1>18. ASSUME RestartSucceeds PROVE LateAction
  BY <1>18, ShutdownThreads DEF RestartSucceeds, Shut, Running, FlagType
<1>19. ASSUME ExitToRestart PROVE LateAction
  BY <1>19, ShutdownThreads DEF ExitToRestart, FlagType
<1>20. ASSUME NEW a \in Closes, StartConfirming(a) PROVE LateAction
  BY <1>20, ShutdownThreads DEF StartConfirming, Phase, NewClose, FlagType
<1>21. ASSUME NEW a \in Closes, AskUser(a) PROVE LateAction
  BY <1>21, ShutdownThreads DEF AskUser, Phase, FlagType
<1>22. ASSUME NEW a \in Closes, CloseUnasked(a) PROVE LateAction
  BY <1>22, ShutdownThreads DEF CloseUnasked, Phase, FlagType
<1>23. ASSUME NEW a \in Closes, UserConfirms(a) PROVE LateAction
  BY <1>23, ShutdownThreads DEF UserConfirms, Phase, Running, FlagType
<1>24. ASSUME NEW a \in Closes, UserDeclines(a) PROVE LateAction
  BY <1>24, ShutdownThreads DEF UserDeclines, Phase, Running, FlagType
<1>25. ASSUME NEW a \in Closes, BeginFlush(a) PROVE LateAction
  BY <1>25, ShutdownThreads DEF BeginFlush, Phase, Warn, Running, FlagType
<1>26. ASSUME NEW a \in Closes, TimerFires(a) PROVE LateAction
  BY <1>26, ShutdownThreads, CancelEffect, FlagFields DEF TimerFires, Warn, CloseIsCurrent,
     Expires, Running
<1>27. ASSUME NEW a \in Closes, ShowWarning(a) PROVE LateAction
  BY <1>27, ShutdownThreads DEF ShowWarning, Warn, Running, FlagType
<1>28. ASSUME NEW a \in Closes, KeepOpen(a) PROVE LateAction
  BY <1>28, ShutdownThreads DEF KeepOpen, Warn, Offered, StillWarning, Running, FlagType
<1>29. ASSUME NEW a \in Closes, CloseAnyway(a) PROVE LateAction
  BY <1>29, ShutdownThreads DEF CloseAnyway, Warn, Offered, StillWarning, Running, FlagType
<1>30. ASSUME NEW a \in Closes, ForceStop(a) PROVE LateAction
  BY <1>30, ShutdownThreads DEF ForceStop, Warn, Running, FlagType
<1>31. ASSUME NEW a \in Closes, ForceClaim(a) PROVE LateAction
  BY <1>31, ShutdownThreads DEF ForceClaim, Warn, Running, FlagType
<1>32. ASSUME NEW a \in Closes, ForceDestroy(a) PROVE LateAction
  BY <1>32, ShutdownThreads, CancelEffect, FlagFields DEF ForceDestroy, Warn, Succeeds,
     Fails, Spend, Destroy
<1>33. ASSUME NEW a \in Closes, RendererFlushed(a) PROVE LateAction
  BY <1>33, ShutdownThreads DEF RendererFlushed, Phase, Shut, CloseIsCurrent, Running, FlagType
<1>34. ASSUME NEW a \in Closes, CheckCurrent(a) PROVE LateAction
  BY <1>34, ShutdownThreads DEF CheckCurrent, Shut, CloseIsCurrent, Running, FlagType
<1>35. ASSUME NEW a \in Closes, ShutdownFailed(a) PROVE LateAction
  BY <1>35, ShutdownThreads, CancelEffect, FlagFields DEF ShutdownFailed, Phase, Warn, Shut,
     CloseIsCurrent, Running
<1>36. ASSUME NEW a \in Closes, Consume(a) PROVE LateAction
  BY <1>36, ShutdownThreads DEF Consume, Phase, Shut, CloseIsCurrent, Running, Consumed, FlagType
<1>37. ASSUME NEW a \in Closes, DestroyMain(a) PROVE LateAction
  BY <1>37, ShutdownThreads, CancelEffect, FlagFields DEF DestroyMain, Phase, Succeeds,
     Fails, Spend, Running, Destroy
<1>38. ASSUME NEW t \in Shutdowns, FlushFirst(t) PROVE LateAction
  BY <1>38, ShutdownThreads DEF FlushFirst, Shut, Succeeds, Fails, Spend, Running, Flush,
     FlagType
<1>39. ASSUME NEW t \in Shutdowns, StopWork(t) PROVE LateAction
  BY <1>39, ShutdownThreads DEF StopWork, Shut, Running, FlagType
<1>40. ASSUME NEW t \in Shutdowns, FlushSecond(t) PROVE LateAction
  BY <1>40, ShutdownThreads DEF FlushSecond, Shut, Succeeds, Fails, Spend, Running, Flush,
     FlagType
<1>41. CASE UNCHANGED closeVars
  BY <1>41 DEF closeVars
<1>42. QED
  BY <1>1, <1>2, <1>3, <1>4, <1>5, <1>6, <1>7, <1>8, <1>9, <1>10, <1>11, <1>12,
     <1>13, <1>14, <1>15, <1>16, <1>17, <1>18, <1>19, <1>20, <1>21, <1>22, <1>23,
     <1>24, <1>25, <1>26, <1>27, <1>28, <1>29, <1>30, <1>31, <1>32, <1>33, <1>34,
     <1>35, <1>36, <1>37, <1>38, <1>39, <1>40, <1>41
  DEF CloseNext, User, MainStep, CloseStep, TimerStep

-----------------------------------------------------------------------------
(* The theorems                                                            *)

\* The invariant holds initially.
LEMMA CloseInitInv ==
  ASSUME CloseInit
  PROVE  CloseInv
<1> USE DEF CloseInit
<1>1. Types
  <2>1. flag \in FlagType /\ flag.generation = 0
    BY DEF FlagType
  <2>2. gen \in [Closes -> 0 .. flag.generation]
    BY <2>1
  <2>3. QED
    BY <2>1, <2>2 DEF Types
<1>2. HandlersMatch /\ MainInv /\ GenInv /\ CloseHasOwner /\ QuitHasOwner
  BY ShutdownThreads DEF HandlersMatch, MainInv, GenInv, Unbegun, CloseHasOwner, QuitHasOwner
<1>3. QED
  BY <1>1, <1>2 DEF CloseInv, CloseTypeOK

\* The inductive invariant the theorems below follow from.
THEOREM CloseInvariant == CloseSpec => []CloseInv
<1>1. CloseInit => CloseInv
  BY CloseInitInv
<1>2. CloseInv /\ [CloseNext]_closeVars => CloseInv'
  BY TypesStep, MatchStep, MainStepInv, GenStep, OwnerStep, QuitStep DEF CloseInv, CloseTypeOK
<1>3. QED
  BY <1>1, <1>2, PTL DEF CloseSpec

\* Every variable of CloseProtocol keeps its type, and handlers and commands
\* match.
THEOREM CloseTypeCorrect == CloseSpec => []CloseTypeOK
<1>1. CloseInv => CloseTypeOK
  BY DEF CloseInv
<1>2. QED
  BY <1>1, CloseInvariant, PTL

\* Whatever fails and however often the user closes, quits and restarts, a
\* close in progress and a quit have somebody who ends them or takes them
\* back, but for the forced close that finds no window on macOS.
THEOREM FlagsOwned == CloseSpec => []FlagsHaveOwners
<1>1. CloseInv => FlagsHaveOwners
  BY DEF CloseInv, FlagsHaveOwners, GenInv
<1>2. QED
  BY <1>1, CloseInvariant, PTL

\* No timer ends a close that was acknowledged, and no old flush closes the
\* window for a newer request.
THEOREM LateHarmless == CloseSpec => LateStepsHarmless
<1>1. CloseInv /\ [CloseNext]_closeVars => [LateAction]_closeVars
  BY LateActions DEF CloseInv, CloseTypeOK
<1>2. QED
  BY <1>1, CloseInvariant, PTL DEF CloseSpec, LateStepsHarmless, LateAction
==============================================================================
