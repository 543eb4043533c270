----------------------- MODULE DownloadSession_proofs -----------------------
(***************************************************************************)
(* What DownloadSession guarantees for any number of threads, sessions and *)
(* files. Every variable keeps its type, a session in the slot belongs to  *)
(* its worker until that worker completes it, and the completion callback  *)
(* of every session runs exactly once. None of these is inductive by       *)
(* itself: the invariant IInv adds what the locks are for, who may still   *)
(* complete a session, and who has taken one out of the slot.              *)
(*                                                                         *)
(* The rest has inductive invariants of its own on top of IInv:            *)
(*   - the module implements SessionSlot: every step is a step of the slot *)
(*     or changes nothing the slot's clients can see. OutcomeInv says that *)
(*     an outcome is chosen once, and that it is "Cancelled" only if a     *)
(*     cancel reached the session in the slot;                             *)
(*   - no process outlives its session, whoever waits is answered, and     *)
(*     events and sessions follow each other in order;                     *)
(*   - a session whose process a cancel killed is reported as cancelled,   *)
(*     and a cancel that waited returns after the callback.                *)
(***************************************************************************)
EXTENDS DownloadSession, TLAPS

Taken == {"publish", "callback", "calling"}

\* The labels of start_download, of a cancel inside it, and of a completion.
StartLabels  == {"existing", "replace", "install", "setup", "register", "reap"}
CancelLabels == {"killWait", "killComplete", "waitSlot", "waitFinal"}

\* Each kind of thread keeps to its own code, and a worker to its session.
LabelInv ==
  /\ \A t \in Starters :
       pc[t] \in {"idle", "complete"} \cup Taken \cup StartLabels \cup CancelLabels
  /\ \A t \in Cancellers :
       pc[t] \in {"idle", "complete", "returned"} \cup Taken \cup CancelLabels
  /\ \A s \in Sessions : pc[s] \in WorkerLabels \cup Taken \cup {"idle", "ended"}

\* A thread that deals with a session knows its id, and a worker its own.
SidInv ==
  /\ \A t \in Threads :
       /\ sid[t] <= counter
       /\ pc[t] \in Taken \cup {"complete", "killWait", "killComplete", "waitSlot",
                                "setup", "register", "reap"} => sid[t] # None
  /\ \A s \in Sessions : pc[s] \in Taken \cup {"complete"} => sid[s] = s

\* A starter in start_download holds STARTUP, so nobody else fills the slot
\* between its look at the slot and its own session.
StartupInv ==
  /\ \A t \in Starters : pc[t] \in StartLabels \cup CancelLabels => startup = t
  /\ \A t \in Starters : startup = t =>
       /\ pc[t] # "idle"
       /\ pc[t] \in {"install", "waitFinal"} \cup Taken => slot = None
       /\ pc[t] \in {"killWait", "killComplete", "waitSlot", "complete"} =>
            slot \in {None, sid[t]}
       /\ pc[t] \notin {"setup", "register", "reap"} =>
            own \in Owners /\ counter < MaxSessions

\* A worker's session stays in the slot, and a canceller can tell that it has
\* a worker.
WorkerInv ==
  \A s \in Sessions : pc[s] \in WorkerLabels =>
    slot = s /\ (sess[s].exitPending \/ sess[s].convPending)

ConvertingLabels == {"publish same", "spawn helper", "register helper", "helping",
                     "publish output", "publish source"}

\* The loop over the files is not past its end.
ConversionInv ==
  \A s \in Sessions : pc[s] \in ConvertingLabels => conv[s].left > 0

\* A session that its own starter has not handed over has no worker; one that
\* somebody else is about to complete has none and gets none.
HandoverInv ==
  /\ \A u \in Starters, s \in Sessions :
       pc[u] \in {"setup", "register"} /\ sid[u] = s => pc[s] \notin WorkerLabels
  /\ \A t \in Starters \cup Cancellers, s \in Sessions :
       pc[t] \in {"killComplete", "complete"} /\ sid[t] = s => pc[s] \notin WorkerLabels
  /\ \A t \in Starters \cup Cancellers, u \in Starters, s \in Sessions :
       /\ pc[t] \in {"killComplete", "complete"} /\ sid[t] = s
       /\ pc[u] \in {"setup", "register"} /\ sid[u] = s
       => sess[s].cancelled

\* A session that left the slot is in the hands of the one thread that took
\* it until its callback has returned.
CallbackInv ==
  /\ \A s \in Sessions :
       /\ slot = s \/ s > counter => called[s] = 0 /\ s \notin finalizing
       /\ s <= counter /\ slot # s /\ s \notin finalizing => called[s] = 1
  /\ \A t \in Threads : pc[t] \in Taken =>
       /\ sid[t] \in finalizing
       /\ called[sid[t]] = IF pc[t] = "calling" THEN 1 ELSE 0
  /\ \A s \in finalizing : \E t \in Threads : pc[t] \in Taken /\ sid[t] = s
  /\ \A t, u \in Threads :
       pc[t] \in Taken /\ pc[u] \in Taken /\ sid[t] = sid[u] => t = u

IInv ==
  /\ TypeOK /\ LabelInv /\ SidInv /\ StartupInv /\ WorkerInv
  /\ ConversionInv /\ HandoverInv /\ CallbackInv
-----------------------------------------------------------------------------
\* The invariant holds initially.
LEMMA InitIInv == Init => IInv
<1> SUFFICES ASSUME Init PROVE IInv
  OBVIOUS
<1> USE SessionAssumption DEF Init, Sessions, Threads, None
<1>1. TypeOK
  BY DEF TypeOK, SessionRec, ReportRec, ConversionRec, Labels, NewSession, NoReport,
       NoConversion,
         Owners, Outcomes
<1>2. LabelInv
  BY DEF LabelInv, WorkerLabels, StartLabels, CancelLabels, Taken
<1>6. SidInv
  BY DEF SidInv, Taken
<1>3. StartupInv
  BY DEF StartupInv, StartLabels, CancelLabels, Taken
<1>4. WorkerInv /\ ConversionInv /\ HandoverInv
  BY DEF WorkerInv, ConversionInv, HandoverInv, WorkerLabels, ConvertingLabels
<1>5. CallbackInv
  BY DEF CallbackInv, Taken
<1> QED
  BY <1>1, <1>2, <1>3, <1>4, <1>5, <1>6 DEF IInv

-----------------------------------------------------------------------------
\* Types. The records stay opaque: what the actions do to them is said once,
\* here.

\* The records the code builds afresh.
LEMMA RecordTypes ==
  /\ NoReport \in ReportRec
  /\ NoConversion \in ConversionRec
  /\ \A oc \in Outcomes, show \in BOOLEAN : [oc |-> oc, show |-> show] \in ReportRec
  /\ \A o \in Owners : NewSession(o) \in SessionRec
  /\ \A o \in Owners, c \in BOOLEAN :
       [NewSession(o) EXCEPT !.cancelled = c] \in SessionRec
<1>1. NoReport \in ReportRec
  BY DEF NoReport, ReportRec
<1>2. NoConversion \in ConversionRec
  BY SessionAssumption DEF NoConversion, ConversionRec
<1>3. \A oc \in Outcomes, show \in BOOLEAN : [oc |-> oc, show |-> show] \in ReportRec
  BY DEF ReportRec
<1>4. \A o \in Owners : NewSession(o) \in SessionRec
  BY DEF NewSession, SessionRec
<1>5. \A o \in Owners, c \in BOOLEAN :
        [NewSession(o) EXCEPT !.cancelled = c] \in SessionRec
  BY DEF NewSession, SessionRec
<1> QED
  BY <1>1, <1>2, <1>3, <1>4, <1>5

\* Updates of a session's fields.
LEMMA SessionTypes ==
  ASSUME NEW r \in SessionRec, NEW b \in BOOLEAN, NEW c \in BOOLEAN
  PROVE  /\ r.owner \in Owners
         /\ {r.cancelled, r.notify, r.ytdlp, r.exitPending, r.convPending, r.ffmpeg}
              \subseteq BOOLEAN
         /\ [r EXCEPT !.ytdlp = b] \in SessionRec
         /\ [r EXCEPT !.ffmpeg = b] \in SessionRec
         /\ [r EXCEPT !.partial = b] \in SessionRec
         /\ [r EXCEPT !.ytdlp = b, !.exitPending = c] \in SessionRec
         /\ [r EXCEPT !.exitPending = b, !.convPending = c] \in SessionRec
         /\ [r EXCEPT !.cancelled = TRUE, !.notify = b, !.exitPending = c,
                      !.ytdlp = FALSE, !.ffmpeg = FALSE] \in SessionRec
<1> USE DEF SessionRec
<1>1. r.owner \in Owners
  OBVIOUS
<1>2. {r.cancelled, r.notify, r.ytdlp, r.exitPending, r.convPending, r.ffmpeg}
        \subseteq BOOLEAN
  OBVIOUS
<1>3. /\ [r EXCEPT !.ytdlp = b] \in SessionRec
      /\ [r EXCEPT !.ffmpeg = b] \in SessionRec
      /\ [r EXCEPT !.partial = b] \in SessionRec
  OBVIOUS
<1>4. [r EXCEPT !.ytdlp = b, !.exitPending = c] \in SessionRec
  OBVIOUS
<1>5. [r EXCEPT !.exitPending = b, !.convPending = c] \in SessionRec
  OBVIOUS
<1>6. [r EXCEPT !.cancelled = TRUE, !.notify = b, !.exitPending = c,
                !.ytdlp = FALSE, !.ffmpeg = FALSE] \in SessionRec
  OBVIOUS
<1> QED
  BY <1>1, <1>2, <1>3, <1>4, <1>5, <1>6

\* Updates of the conversion loop; a file is only counted off while one is left.
LEMMA ConversionTypes ==
  ASSUME NEW r \in ConversionRec, NEW f \in BOOLEAN
  PROVE  /\ r.left \in 0 .. Files /\ r.failed \in BOOLEAN
         /\ [r EXCEPT !.left = Files] \in ConversionRec
         /\ \A st \in {"probe", "gpu", "cpu"} : [r EXCEPT !.stage = st] \in ConversionRec
         /\ r.left > 0 =>
              [r EXCEPT !.left = r.left - 1, !.failed = r.failed \/ f] \in ConversionRec
<1> USE SessionAssumption DEF ConversionRec
<1>1. r.left \in 0 .. Files /\ r.failed \in BOOLEAN
  OBVIOUS
<1>2. [r EXCEPT !.left = Files] \in ConversionRec
  OBVIOUS
<1>3. \A st \in {"probe", "gpu", "cpu"} : [r EXCEPT !.stage = st] \in ConversionRec
  OBVIOUS
<1>4. ASSUME r.left > 0
      PROVE  [r EXCEPT !.left = r.left - 1, !.failed = r.failed \/ f] \in ConversionRec
  <2>1. \A n \in 0 .. Files, b \in BOOLEAN :
          [r EXCEPT !.left = n, !.failed = b] \in ConversionRec
    OBVIOUS
  <2>2. r.left - 1 \in 0 .. Files
    BY <1>1, <1>4
  <2>3. (r.failed \/ f) \in BOOLEAN
    OBVIOUS
  <2> HIDE DEF ConversionRec
  <2> QED
    BY <2>1, <2>2, <2>3
<1> QED
  BY <1>1, <1>2, <1>3, <1>4

\* A step to complete_session.
LEMMA ReportTypes ==
  ASSUME TypeOK, NEW t \in Threads, NEW s \in 0 .. MaxSessions, NEW oc \in Outcomes,
         NEW show \in BOOLEAN, Report(t, s, oc, show)
  PROVE  /\ sid' \in [Threads -> 0 .. MaxSessions]
         /\ report' \in [Threads -> ReportRec]
         /\ pc' \in [Threads -> Labels]
<1>1. report' \in [Threads -> ReportRec]
  BY RecordTypes DEF TypeOK, Report
<1>2. sid' \in [Threads -> 0 .. MaxSessions]
  BY DEF TypeOK, Report
<1>3. pc' \in [Threads -> Labels]
  BY DEF TypeOK, Report, Goto, Labels
<1> QED
  BY <1>1, <1>2, <1>3

\* The return from a call.
LEMMA ForgetTypes ==
  ASSUME TypeOK, NEW t \in Threads, Forget(t)
  PROVE  sid' \in [Threads -> 0 .. MaxSessions] /\ report' \in [Threads -> ReportRec]
<1>1. CASE t \in Cancellers
  BY <1>1 DEF TypeOK, Forget
<1>2. CASE t \notin Cancellers
  <2>1. report' = [report EXCEPT ![t] = NoReport] /\ sid' = [sid EXCEPT ![t] = None]
    BY <1>2 DEF Forget
  <2>2. report \in [Threads -> ReportRec] /\ sid \in [Threads -> 0 .. MaxSessions]
    BY DEF TypeOK
  <2>3. report' \in [Threads -> ReportRec]
    BY <2>1, <2>2, RecordTypes
  <2>4. sid' \in [Threads -> 0 .. MaxSessions]
    BY <2>1, <2>2, SessionAssumption DEF None
  <2> QED
    BY <2>3, <2>4
<1> QED
  BY <1>1, <1>2

\* The conversion loop goes on to its next file.
LEMMA NextFileTypes ==
  ASSUME TypeOK, NEW s \in Sessions, conv[s].left > 0, NEW failed \in BOOLEAN,
         NextFile(s, failed)
  PROVE  conv' \in [Sessions -> ConversionRec] /\ pc' \in [Threads -> Labels]
<1>1. conv \in [Sessions -> ConversionRec] /\ conv[s] \in ConversionRec
  BY DEF TypeOK
<1> DEFINE file == [conv[s] EXCEPT !.left = conv[s].left - 1,
                                   !.failed = conv[s].failed \/ failed]
<1>2. conv' = [conv EXCEPT ![s] = file]
  BY DEF NextFile
<1>5. file \in ConversionRec
  BY <1>1, ConversionTypes
<1> HIDE DEF file
<1>3. conv' \in [Sessions -> ConversionRec]
  BY <1>1, <1>2, <1>5
<1>4. pc' \in [Threads -> Labels]
  BY DEF TypeOK, NextFile, Goto, Labels
<1> QED
  BY <1>3, <1>4

\* A cancel that looks at the slot, whatever it finds there.
LEMMA CancelTypes ==
  ASSUME TypeOK, NEW t \in Starters \cup Cancellers, NEW n \in BOOLEAN, NEW m \in BOOLEAN,
         CancelBegin(t, n, m)
  PROVE  /\ sess' \in [Sessions -> SessionRec]
         /\ sid' \in [Threads -> 0 .. MaxSessions]
         /\ report' \in [Threads -> ReportRec]
         /\ kids' \in [Threads -> SUBSET {"ytdlp", "ffmpeg"}]
         /\ pend' \in [Threads -> SUBSET Sessions]
         /\ pc' \in [Threads -> Labels]
<1>0. t \in Threads
  BY DEF Threads
<1>1. CASE slot = None
  <2>1. /\ pend' = [pend EXCEPT ![t] = finalizing]
        /\ pc' = [pc EXCEPT ![t] = "waitFinal"]
        /\ UNCHANGED <<sess, sid, kids, report>>
    BY <1>1 DEF CancelBegin, Goto
  <2>2. pend' \in [Threads -> SUBSET Sessions]
    BY <1>0, <2>1 DEF TypeOK
  <2>3. pc' \in [Threads -> Labels]
    BY <1>0, <2>1 DEF TypeOK, Labels
  <2> QED
    BY <2>1, <2>2, <2>3 DEF TypeOK
<1>2. CASE slot # None
  <2> DEFINE show == n \/ (m /\ sess[slot].owner = "Manual")
             wait == WorkerCompletes(slot)
             exit == wait \/ sess[slot].exitPending
             rec == [sess[slot] EXCEPT !.cancelled = TRUE, !.notify = show,
                                       !.exitPending = exit, !.ytdlp = FALSE,
                                       !.ffmpeg = FALSE]
             taken == (IF sess[slot].ytdlp THEN {"ytdlp"} ELSE {})
                        \cup (IF sess[slot].ffmpeg THEN {"ffmpeg"} ELSE {})
  <2>0. slot \in Sessions
    BY <1>2, SessionAssumption DEF TypeOK, Sessions, None
  <2>1. /\ sess' = [sess EXCEPT ![slot] = rec]
        /\ kids' = [kids EXCEPT ![t] = taken]
        /\ pend' = [pend EXCEPT ![t] = {slot}]
        /\ sid' = [sid EXCEPT ![t] = slot]
        /\ report' = [report EXCEPT ![t] = [oc |-> "Cancelled", show |-> show]]
        /\ pc' = [pc EXCEPT ![t] = IF wait THEN "killWait" ELSE "killComplete"]
    BY <1>2, ZenonT(60) DEF CancelBegin, Goto
  <2>2. show \in BOOLEAN /\ exit \in BOOLEAN /\ taken \subseteq {"ytdlp", "ffmpeg"}
    OBVIOUS
  <2> HIDE DEF show, exit, wait, taken
  <2>3. rec \in SessionRec
    BY <2>0, <2>2, SessionTypes DEF TypeOK
  <2> HIDE DEF rec
  <2>4. sess' \in [Sessions -> SessionRec]
    BY <2>0, <2>1, <2>3 DEF TypeOK
  <2>5. report' \in [Threads -> ReportRec]
    BY <1>0, <2>1, <2>2, RecordTypes DEF TypeOK, Outcomes
  <2>6. /\ kids' \in [Threads -> SUBSET {"ytdlp", "ffmpeg"}]
        /\ pend' \in [Threads -> SUBSET Sessions]
        /\ sid' \in [Threads -> 0 .. MaxSessions]
    BY <1>0, <2>0, <2>1, <2>2 DEF TypeOK, Sessions
  <2>7. pc' \in [Threads -> Labels]
    BY <1>0, <2>1 DEF TypeOK, Labels
  <2> QED
    BY <2>4, <2>5, <2>6, <2>7
<1> QED
  BY <1>1, <1>2

-----------------------------------------------------------------------------
\* Types: one step per action of Next.

\* Every step keeps TypeOK.
LEMMA TypeStep == ASSUME IInv, [Next]_vars PROVE TypeOK'
<1> USE SessionAssumption DEF Threads, None, Goto, locks, procs, locals, history
<1>0. TypeOK /\ Sessions = 1 .. MaxSessions
  BY SMTT(60) DEF IInv, Sessions
<1>a. /\ \A t \in Threads : pc[t] \in Labels
      /\ \A s \in Sessions : sess[s] \in SessionRec /\ sess[s].notify \in BOOLEAN
      /\ \A t \in Threads : sid[t] \in 0 .. MaxSessions
      /\ \A s \in Sessions : conv[s] \in ConversionRec
  BY <1>0, SessionTypes DEF TypeOK
<1>1. ASSUME NEW t \in Starters, StartCall(t) PROVE TypeOK'
  BY <1>0, <1>1 DEF TypeOK, StartCall, Labels, Owners
<1>2. ASSUME NEW t \in Starters, StartConflict(t) PROVE TypeOK'
  BY <1>0, <1>2 DEF TypeOK, StartConflict, Labels
<1>3. ASSUME NEW t \in Starters, StartExisting(t) PROVE TypeOK'
  BY <1>0, <1>3 DEF TypeOK, StartExisting, Labels
<1>4. ASSUME NEW t \in Starters, StartReplace(t) PROVE TypeOK'
  <2>1. CancelBegin(t, FALSE, TRUE)
    BY <1>4 DEF StartReplace
  <2>2. UNCHANGED <<slot, finalizing, counter, locks, procs, own, history>>
    BY <1>4 DEF StartReplace
  <2> QED
    BY <1>0, <2>1, <2>2, CancelTypes DEF TypeOK
<1>5. ASSUME NEW t \in Starters, Install(t) PROVE TypeOK'
  <2>1. own \in Owners /\ counter < MaxSessions
    BY <1>5, <1>0 DEF IInv, Install, StartupInv, StartLabels
  <2>2. counter' \in Sessions /\ counter' \in 0 .. MaxSessions
    BY <1>0, <1>5, <2>1 DEF TypeOK, Install
  <2>3. sess' \in [Sessions -> SessionRec]
    BY <1>0, <1>5, <2>1, <2>2, RecordTypes DEF TypeOK, Install
  <2>4. report' \in [Threads -> ReportRec]
    BY <1>0, <1>5, RecordTypes DEF TypeOK, Install
  <2>5. sid' \in [Threads -> 0 .. MaxSessions]
    BY <1>0, <1>5, <2>2 DEF TypeOK, Install
  <2>6. slot' \in 0 .. counter'
    BY <1>0, <1>5, <2>2 DEF Install
  <2>7. pend' \in [Threads -> SUBSET Sessions]
    BY <1>0, <1>5 DEF TypeOK, Install
  <2>8. kids' \in [Threads -> SUBSET {"ytdlp", "ffmpeg"}]
    BY <1>0, <1>5 DEF TypeOK, Install
  <2>9. pc' \in [Threads -> Labels]
    BY <1>0, <1>5 DEF TypeOK, Install, Labels
  <2>10. own' \in Owners \cup {"none"}
    BY <1>5 DEF Install
  <2>11. UNCHANGED <<finalizing, locks, procs, history>>
    BY <1>5 DEF Install
  <2> QED
    BY <1>0, <2>2, <2>3, <2>4, <2>5, <2>6, <2>7, <2>8, <2>9, <2>10, <2>11 DEF TypeOK
<1>6. ASSUME NEW t \in Starters, SetupFails(t) PROVE TypeOK'
  <2>1. Report(t, sid[t], "Failed", TRUE)
    BY <1>6 DEF SetupFails
  <2>2. /\ sid' \in [Threads -> 0 .. MaxSessions]
        /\ report' \in [Threads -> ReportRec]
        /\ pc' \in [Threads -> Labels]
    BY <1>0, <1>a, <2>1, ReportTypes DEF Outcomes
  <2> QED
    BY <1>0, <1>6, <2>2 DEF TypeOK, SetupFails
<1>7. ASSUME NEW t \in Starters, SetupAbandoned(t) PROVE TypeOK'
  <2>1. sid' \in [Threads -> 0 .. MaxSessions] /\ report' \in [Threads -> ReportRec]
    BY <1>0, <1>7, ForgetTypes DEF SetupAbandoned
  <2> QED
    BY <1>0, <1>7, <2>1 DEF TypeOK, SetupAbandoned, Labels
<1>8. ASSUME NEW t \in Starters, SpawnYtdlp(t) PROVE TypeOK'
  BY <1>0, <1>8 DEF TypeOK, SpawnYtdlp, Labels
<1>9. ASSUME NEW t \in Starters, RegisterYtdlp(t) PROVE TypeOK'
  <2>1. sid' \in [Threads -> 0 .. MaxSessions] /\ report' \in [Threads -> ReportRec]
    BY <1>0, <1>9, ForgetTypes DEF RegisterYtdlp
  <2>2. sid[t] \in Sessions
    BY <1>0, <1>9, <1>a DEF IInv, SidInv, RegisterYtdlp
  <2>3. sess' \in [Sessions -> SessionRec]
    <3>1. sess' = [sess EXCEPT ![sid[t]] = [@ EXCEPT !.ytdlp = TRUE,
    !.exitPending = TRUE]]
      BY <1>0, <1>9, <2>2 DEF TypeOK, RegisterYtdlp
    <3>2. [sess[sid[t]] EXCEPT !.ytdlp = TRUE, !.exitPending = TRUE] \in SessionRec
      BY <1>a, <2>2, SessionTypes
    <3> QED
      BY <1>0, <3>1, <3>2 DEF TypeOK
  <2>4. pc' \in [Threads -> Labels]
    BY <1>0, <1>9, <2>2 DEF TypeOK, RegisterYtdlp, Labels
  <2> QED
    BY <1>0, <1>9, <2>1, <2>3, <2>4 DEF TypeOK, RegisterYtdlp
<1>10. ASSUME NEW t \in Starters, RegisterRefused(t) PROVE TypeOK'
  BY <1>0, <1>10 DEF TypeOK, RegisterRefused, Labels
<1>11. ASSUME NEW t \in Starters, ReapYtdlp(t) PROVE TypeOK'
  <2>1. sid' \in [Threads -> 0 .. MaxSessions] /\ report' \in [Threads -> ReportRec]
    BY <1>0, <1>11, ForgetTypes DEF ReapYtdlp
  <2> QED
    BY <1>0, <1>11, <2>1 DEF TypeOK, ReapYtdlp, Labels
<1>12. ASSUME NEW t \in Cancellers, CancelCall(t) PROVE TypeOK'
  <2>1. PICK mode \in CancelModes : CancelBegin(t, mode = "announced", mode # "kill")
    BY <1>12 DEF CancelCall
  <2>2. UNCHANGED <<slot, finalizing, counter, locks, procs, own, history>>
    BY <1>12 DEF CancelCall
  <2>3. /\ sess' \in [Sessions -> SessionRec]
        /\ sid' \in [Threads -> 0 .. MaxSessions]
        /\ report' \in [Threads -> ReportRec]
        /\ kids' \in [Threads -> SUBSET {"ytdlp", "ffmpeg"}]
        /\ pend' \in [Threads -> SUBSET Sessions]
        /\ pc' \in [Threads -> Labels]
    BY <1>0, <2>1, CancelTypes, Zenon
  <2> QED
    BY <1>0, <2>2, <2>3 DEF TypeOK
<1>13. ASSUME NEW t \in Cancellers, CancelReturn(t) PROVE TypeOK'
  <2>1. report' \in [Threads -> ReportRec]
    BY <1>0, <1>13, RecordTypes DEF TypeOK, CancelReturn
  <2>2. pend' \in [Threads -> SUBSET Sessions]
    BY <1>0, <1>13 DEF TypeOK, CancelReturn
  <2>3. kids' \in [Threads -> SUBSET {"ytdlp", "ffmpeg"}]
    BY <1>0, <1>13 DEF TypeOK, CancelReturn
  <2>4. sid' \in [Threads -> 0 .. MaxSessions]
    BY <1>0, <1>13 DEF TypeOK, CancelReturn
  <2>6. pc' \in [Threads -> Labels]
    BY <1>0, <1>13 DEF TypeOK, CancelReturn, Labels
  <2>5. UNCHANGED <<slot, finalizing, counter, sess, locks, procs, own, history>>
    BY <1>13 DEF CancelReturn
  <2> QED
    BY <1>0, <2>1, <2>2, <2>3, <2>4, <2>5, <2>6 DEF TypeOK
<1>14. ASSUME NEW t \in Starters \cup Cancellers, CancelKill(t) PROVE TypeOK'
  BY <1>0, <1>14 DEF TypeOK, CancelKill, Labels
<1>15. ASSUME NEW t \in Starters \cup Cancellers, WaitSlot(t) PROVE TypeOK'
  BY <1>0, <1>15 DEF TypeOK, WaitSlot, Labels
<1>16. ASSUME NEW t \in Starters \cup Cancellers, WaitFinal(t) PROVE TypeOK'
  BY <1>0, <1>16 DEF TypeOK, WaitFinal, Labels
<1>17. ASSUME NEW t \in Threads, CompleteTake(t) PROVE TypeOK'
  <2>1. CASE slot = sid[t]
    <3> DEFINE s == sid[t]
               oc == IF sess[s].partial /\ report[t].oc = "Success" THEN "Failed"
                     ELSE report[t].oc
    <3>1. /\ slot' = None
          /\ finalizing' = finalizing \cup {s}
          /\ publish' = t
          /\ result' = [result EXCEPT ![s] = [report[t] EXCEPT !.oc = oc]]
          /\ pc' = [pc EXCEPT ![t] = "publish"]
          /\ UNCHANGED <<sid, report>>
      BY <1>17, <2>1 DEF CompleteTake
    <3>2. s \in Sessions
      BY <1>0, <1>17, <1>a DEF IInv, SidInv, CompleteTake
    <3>3. report[t] \in ReportRec
      BY <1>0 DEF TypeOK
    <3>4. oc \in Outcomes \cup {"none"}
      BY <3>3 DEF ReportRec, Outcomes
    <3> HIDE DEF oc
    <3>5. [report[t] EXCEPT !.oc = oc] \in ReportRec
      BY <3>3, <3>4 DEF ReportRec
    <3>6. result' \in [Sessions -> ReportRec]
      BY <1>0, <3>1, <3>2, <3>5 DEF TypeOK
    <3>7. pc' \in [Threads -> Labels]
      BY <1>0, <3>1 DEF TypeOK, Labels
    <3> QED
      BY <1>0, <1>17, <3>1, <3>2, <3>6, <3>7 DEF TypeOK, CompleteTake
  <2>2. CASE slot # sid[t]
    <3>1. /\ pc' = [pc EXCEPT ![t] = Continuation(t)]
          /\ Forget(t)
          /\ UNCHANGED <<slot, finalizing, publish, result>>
      BY <1>17, <2>2 DEF CompleteTake
    <3>2. pc' \in [Threads -> Labels]
      BY <1>0, <3>1 DEF TypeOK, Labels, Continuation
    <3> QED
      BY <1>0, <1>17, <3>1, <3>2, ForgetTypes DEF TypeOK, CompleteTake
  <2> QED
    BY <2>1, <2>2
<1>18. ASSUME NEW t \in Threads, CompletePublish(t) PROVE TypeOK'
  BY <1>0, <1>18 DEF TypeOK, CompletePublish, Labels
<1>19. ASSUME NEW t \in Threads, CompleteCallback(t) PROVE TypeOK'
  <2>1. sid[t] \in Sessions
    BY <1>0, <1>19, <1>a DEF IInv, SidInv, CompleteCallback, Taken
  <2>2. called' \in [Sessions -> Nat]
    BY <1>0, <1>19, <2>1 DEF TypeOK, CompleteCallback
  <2>3. pc' \in [Threads -> Labels]
    BY <1>0, <1>19 DEF TypeOK, CompleteCallback, Labels
  <2> QED
    BY <1>0, <1>19, <2>2, <2>3 DEF TypeOK, CompleteCallback
<1>20. ASSUME NEW t \in Threads, CompleteFinish(t) PROVE TypeOK'
  <2>1. sid' \in [Threads -> 0 .. MaxSessions] /\ report' \in [Threads -> ReportRec]
    BY <1>0, <1>20, ForgetTypes DEF CompleteFinish
  <2>2. sid[t] \in Sessions
    BY <1>0, <1>20, <1>a DEF IInv, SidInv, CompleteFinish, Taken
  <2>3. sess' \in [Sessions -> SessionRec]
    <3> DEFINE r == sess[sid[t]]
    <3>1. sess' = [sess EXCEPT ![sid[t]] =
                     [NewSession(r.owner) EXCEPT !.cancelled = r.cancelled]]
      BY <1>0, <1>20, <2>2 DEF TypeOK, CompleteFinish
    <3>2. r.owner \in Owners /\ r.cancelled \in BOOLEAN
      BY <1>a, <2>2, SessionTypes
    <3>3. [NewSession(r.owner) EXCEPT !.cancelled = r.cancelled] \in SessionRec
      BY <3>2, RecordTypes
    <3> QED
      BY <1>0, <3>1, <3>3 DEF TypeOK
  <2>4. conv' \in [Sessions -> ConversionRec]
    BY <1>0, <1>20, RecordTypes DEF TypeOK, CompleteFinish
  <2>5. pc' \in [Threads -> Labels]
    BY <1>0, <1>20 DEF TypeOK, CompleteFinish, Continuation, Labels
  <2> QED
    BY <1>0, <1>20, <2>1, <2>3, <2>4, <2>5 DEF TypeOK, CompleteFinish
<1>21. ASSUME NEW s \in Sessions, YtdlpExits(s) PROVE TypeOK'
  BY <1>0, <1>21 DEF TypeOK, YtdlpExits
<1>22. ASSUME NEW s \in Sessions, Progress(s) PROVE TypeOK'
  BY <1>0, <1>22 DEF TypeOK, Progress
<1>b. ASSUME NEW s \in Sessions, NEW oc \in Outcomes, NEW show \in BOOLEAN,
             Report(s, s, oc, show)
      PROVE  /\ sid' \in [Threads -> 0 .. MaxSessions]
             /\ report' \in [Threads -> ReportRec]
             /\ pc' \in [Threads -> Labels]
  <2>1. s \in Threads /\ s \in 0 .. MaxSessions /\ TypeOK
    BY <1>0
  <2> HIDE DEF Threads
  <2> QED
    BY ONLY <1>b, <2>1, ReportTypes, s \in Sessions, oc \in Outcomes, show \in BOOLEAN
<1>c. ASSUME NEW s \in Sessions, BatchCancelled(s)
      PROVE  /\ sid' \in [Threads -> 0 .. MaxSessions]
             /\ report' \in [Threads -> ReportRec]
             /\ pc' \in [Threads -> Labels]
  <2>1. Report(s, s, "Cancelled", sess[s].notify)
    BY <1>c DEF BatchCancelled
  <2>2. sess[s].notify \in BOOLEAN
    BY <1>a
  <2> QED
    BY <1>b, <2>1, <2>2, SMTT(60) DEF Outcomes
<1>d. ASSUME NEW s \in Sessions, NEW b \in BOOLEAN
      PROVE  /\ [sess EXCEPT ![s].ytdlp = b] \in [Sessions -> SessionRec]
             /\ [sess EXCEPT ![s].ffmpeg = b] \in [Sessions -> SessionRec]
             /\ [sess EXCEPT ![s].partial = b] \in [Sessions -> SessionRec]
  <2>1. /\ [sess[s] EXCEPT !.ytdlp = b] \in SessionRec
        /\ [sess[s] EXCEPT !.ffmpeg = b] \in SessionRec
        /\ [sess[s] EXCEPT !.partial = b] \in SessionRec
    BY <1>a, SessionTypes
  <2>2. sess \in [Sessions -> SessionRec]
    BY <1>0 DEF TypeOK
  <2>3. [sess EXCEPT ![s] = [sess[s] EXCEPT !.ytdlp = b]] \in [Sessions -> SessionRec]
    BY <2>1, <2>2
  <2>4. [sess EXCEPT ![s] = [sess[s] EXCEPT !.ffmpeg = b]] \in [Sessions -> SessionRec]
    BY <2>1, <2>2
  <2>5. [sess EXCEPT ![s] = [sess[s] EXCEPT !.partial = b]] \in [Sessions -> SessionRec]
    BY <2>1, <2>2
  <2> QED
    BY <2>3, <2>4, <2>5
<1>e. ASSUME NEW s \in Sessions, NEW st \in {"probe", "gpu", "cpu"},
             conv' = [conv EXCEPT ![s].stage = st]
      PROVE  conv' \in [Sessions -> ConversionRec]
  <2>1. [conv[s] EXCEPT !.stage = st] \in ConversionRec
    BY <1>a, ConversionTypes
  <2> QED
    BY <1>0, <1>e, <2>1 DEF TypeOK
<1>23. ASSUME NEW s \in Sessions, ExitSeen(s) PROVE TypeOK'
  <2>1. sess' \in [Sessions -> SessionRec]
    BY <1>23, <1>d DEF ExitSeen
  <2>2. CASE sess[s].cancelled
    <3>1. Report(s, s, "Cancelled", sess[s].notify)
      BY <1>23, <2>2 DEF ExitSeen
    <3>2. /\ sid' \in [Threads -> 0 .. MaxSessions]
          /\ report' \in [Threads -> ReportRec]
          /\ pc' \in [Threads -> Labels]
      BY <1>a, <1>b, <3>1 DEF Outcomes
    <3> QED
      BY <1>0, <1>23, <2>1, <3>2 DEF TypeOK, ExitSeen
  <2>3. CASE ~sess[s].cancelled
    <3>1. /\ pc' = [pc EXCEPT ![s] = "inspect"]
          /\ report' = [report EXCEPT ![s].show = sess[s].notify]
          /\ sid' = sid
      BY <1>23, <2>3 DEF ExitSeen
    <3>2. report' \in [Threads -> ReportRec]
      <4>1. report[s] \in ReportRec /\ sess[s].notify \in BOOLEAN
        BY <1>0, <1>a DEF TypeOK
      <4>2. [report[s] EXCEPT !.show = sess[s].notify] \in ReportRec
        BY <4>1 DEF ReportRec
      <4> QED
        BY <1>0, <3>1, <4>2 DEF TypeOK
    <3>3. pc' \in [Threads -> Labels]
      BY <1>0, <3>1 DEF TypeOK, Labels
    <3> QED
      BY <1>0, <1>23, <2>1, <3>1, <3>2, <3>3 DEF TypeOK, ExitSeen
  <2> QED
    BY <2>2, <2>3
<1>24. ASSUME NEW s \in Sessions, ExitFailed(s) PROVE TypeOK'
  BY <1>0, <1>24, <1>b DEF TypeOK, ExitFailed, Outcomes
<1>25. ASSUME NEW s \in Sessions, ExitUsable(s) PROVE TypeOK'
  <2>0. PICK partial \in BOOLEAN : sess' = [sess EXCEPT ![s].partial = partial]
    BY <1>25 DEF ExitUsable
  <2>1. sess' \in [Sessions -> SessionRec]
    BY <1>d, <2>0
  <2>2. pc' \in [Threads -> Labels]
    BY <1>0, <1>25, ZenonT(60) DEF TypeOK, ExitUsable, Labels
  <2> QED
    BY <1>0, <1>25, <2>1, <2>2 DEF TypeOK, ExitUsable
<1>26. ASSUME NEW s \in Sessions, InstallFiles(s) PROVE TypeOK'
  <2>1. /\ sid' \in [Threads -> 0 .. MaxSessions]
        /\ report' \in [Threads -> ReportRec]
        /\ pc' \in [Threads -> Labels]
    BY <1>0, <1>26, <1>a, <1>b DEF InstallFiles, Outcomes
  <2> QED
    BY <1>0, <1>26, <2>1 DEF TypeOK, InstallFiles
<1>27. ASSUME NEW s \in Sessions, Handoff(s) PROVE TypeOK'
  <2>1. CASE sess[s].cancelled
    <3>1. Report(s, s, "Cancelled", report[s].show) /\ UNCHANGED <<sess, conv>>
      BY <1>27, <2>1 DEF Handoff
    <3>2. report[s].show \in BOOLEAN
      BY <1>0 DEF TypeOK, ReportRec
    <3>3. /\ sid' \in [Threads -> 0 .. MaxSessions]
          /\ report' \in [Threads -> ReportRec]
          /\ pc' \in [Threads -> Labels]
      BY <1>b, <3>1, <3>2 DEF Outcomes
    <3> QED
      BY <1>0, <1>27, <3>1, <3>3 DEF TypeOK, Handoff
  <2>2. CASE ~sess[s].cancelled
    <3>1. /\ sess' = [sess EXCEPT ![s].exitPending = FALSE, ![s].convPending = TRUE]
          /\ conv' = [conv EXCEPT ![s].left = Files]
          /\ pc' = [pc EXCEPT ![s] = "convert"]
          /\ UNCHANGED <<sid, report>>
      BY <1>27, <2>2 DEF Handoff
    <3>2. sess' \in [Sessions -> SessionRec]
      <4>1. [sess[s] EXCEPT !.exitPending = FALSE, !.convPending = TRUE] \in SessionRec
        BY <1>a, SessionTypes
      <4>2. sess' = [sess EXCEPT ![s] = [@ EXCEPT !.exitPending = FALSE,
      !.convPending = TRUE]]
        BY <1>0, <3>1 DEF TypeOK
      <4> QED
        BY <1>0, <4>1, <4>2 DEF TypeOK
    <3>3. pc' \in [Threads -> Labels]
      BY <1>0, <3>1 DEF TypeOK, Labels
    <3>4. conv' \in [Sessions -> ConversionRec]
      <4>1. [conv[s] EXCEPT !.left = Files] \in ConversionRec
        BY <1>a, ConversionTypes
      <4> QED
        BY <1>0, <3>1, <4>1 DEF TypeOK
    <3> QED
      BY <1>0, <1>27, <3>1, <3>2, <3>3, <3>4 DEF TypeOK, Handoff
  <2> QED
    BY <2>1, <2>2
<1>28. ASSUME NEW s \in Sessions, ConvertNext(s) PROVE TypeOK'
  <2>1. CASE BatchCancelled(s) /\ UNCHANGED conv
    BY <1>0, <1>28, <1>c, <2>1 DEF TypeOK, ConvertNext
  <2>2. CASE /\ Report(s, s, IF conv[s].failed THEN "Failed" ELSE "Success", TRUE)
             /\ UNCHANGED conv
    <3>1. \/ Report(s, s, "Failed", TRUE)
          \/ Report(s, s, "Success", TRUE)
      BY <2>2
    <3>2. /\ sid' \in [Threads -> 0 .. MaxSessions]
          /\ report' \in [Threads -> ReportRec]
          /\ pc' \in [Threads -> Labels]
      BY <1>b, <3>1 DEF Outcomes
    <3> QED
      BY <1>0, <1>28, <2>2, <3>2 DEF TypeOK, ConvertNext
  <2>3. CASE /\ \/ Goto(s, "publish same") /\ UNCHANGED conv
                \/ /\ conv' = [conv EXCEPT ![s].stage = "probe"]
                   /\ Goto(s, "spawn helper")
             /\ UNCHANGED <<sid, report>>
    <3>1. pc' \in [Threads -> Labels]
      BY <1>0, <2>3, ZenonT(60) DEF TypeOK, Labels
    <3>2. conv' \in [Sessions -> ConversionRec]
      BY <1>0, <1>e, <2>3 DEF TypeOK
    <3> QED
      BY <1>0, <1>28, <2>3, <3>1, <3>2 DEF TypeOK, ConvertNext
  <2> QED
    BY <1>28, <2>1, <2>2, <2>3 DEF ConvertNext
<1>f. \A s \in Sessions :
        pc[s] \in {"publish same", "spawn helper", "register helper", "helping",
                   "publish output", "publish source"} => conv[s].left > 0
  BY DEF IInv, ConversionInv, ConvertingLabels
<1>g. ASSUME NEW s \in Sessions, NEW failed \in BOOLEAN, conv[s].left > 0,
             NextFile(s, failed)
      PROVE  conv' \in [Sessions -> ConversionRec] /\ pc' \in [Threads -> Labels]
  BY <1>0, <1>g, NextFileTypes, Zenon
<1>29. ASSUME NEW s \in Sessions, PublishSame(s) PROVE TypeOK'
  <2>1. CASE BatchCancelled(s) /\ UNCHANGED conv
    BY <1>0, <1>29, <1>c, <2>1 DEF TypeOK, PublishSame
  <2>2. CASE /\ \E failed \in BOOLEAN : NextFile(s, failed)
             /\ UNCHANGED <<sid, report>>
    <3>1. conv[s].left > 0
      BY <1>29, <1>f DEF PublishSame
    <3>2. conv' \in [Sessions -> ConversionRec] /\ pc' \in [Threads -> Labels]
      BY <1>g, <2>2, <3>1
    <3> QED
      BY <1>0, <1>29, <2>2, <3>2 DEF TypeOK, PublishSame
  <2> QED
    BY <1>29, <2>1, <2>2 DEF PublishSame
<1>30. ASSUME NEW s \in Sessions, SpawnHelper(s) PROVE TypeOK'
  <2>1. CASE BatchCancelled(s) /\ UNCHANGED helper
    BY <1>0, <1>30, <1>c, <2>1 DEF TypeOK, SpawnHelper
  <2>2. CASE /\ helper' = [helper EXCEPT ![s] = "running"]
             /\ Goto(s, "register helper")
             /\ UNCHANGED <<sid, report>>
    BY <1>0, <1>30, <2>2 DEF TypeOK, SpawnHelper, Labels
  <2> QED
    BY <1>30, <2>1, <2>2 DEF SpawnHelper
<1>31. ASSUME NEW s \in Sessions, SpawnHelperFails(s) PROVE TypeOK'
  <2>1. CASE NextFile(s, TRUE)
    <3>1. conv' \in [Sessions -> ConversionRec] /\ pc' \in [Threads -> Labels]
      BY <1>31, <1>f, <1>g, <2>1 DEF SpawnHelperFails
    <3> QED
      BY <1>0, <1>31, <3>1 DEF TypeOK, SpawnHelperFails
  <2>2. CASE /\ \E next \in {"gpu", "cpu"} : conv' = [conv EXCEPT ![s].stage = next]
             /\ UNCHANGED pc
    <3>1. conv' \in [Sessions -> ConversionRec]
      BY <1>e, <2>2, Zenon
    <3> QED
      BY <1>0, <1>31, <2>2, <3>1 DEF TypeOK, SpawnHelperFails
  <2> QED
    BY <1>31, <2>1, <2>2 DEF SpawnHelperFails
<1>32. ASSUME NEW s \in Sessions, RegisterHelper(s) PROVE TypeOK'
  <2>1. CASE /\ helper' = [helper EXCEPT ![s] = "dead"]
             /\ BatchCancelled(s)
             /\ UNCHANGED sess
    BY <1>0, <1>32, <1>c, <2>1 DEF TypeOK, RegisterHelper
  <2>2. CASE /\ sess' = [sess EXCEPT ![s].ffmpeg = TRUE]
             /\ Goto(s, "helping")
             /\ UNCHANGED <<helper, sid, report>>
    <3>1. sess' \in [Sessions -> SessionRec]
      BY <1>d, <2>2
    <3>2. pc' \in [Threads -> Labels]
      BY <1>0, <2>2 DEF TypeOK, Labels
    <3> QED
      BY <1>0, <1>32, <2>2, <3>1, <3>2 DEF TypeOK, RegisterHelper
  <2> QED
    BY <1>32, <2>1, <2>2 DEF RegisterHelper
<1>33. ASSUME NEW s \in Sessions, HelperExits(s) PROVE TypeOK'
  BY <1>0, <1>33 DEF TypeOK, HelperExits
<1>34. ASSUME NEW s \in Sessions, HelperDone(s) PROVE TypeOK'
  <2>1. sess' \in [Sessions -> SessionRec]
    BY <1>34, <1>d DEF HelperDone
  <2>2. CASE BatchCancelled(s) /\ UNCHANGED conv
    BY <1>0, <1>34, <1>c, <2>1, <2>2 DEF TypeOK, HelperDone
  <2>3. CASE NextFile(s, TRUE) /\ UNCHANGED <<sid, report>>
    <3>1. conv' \in [Sessions -> ConversionRec] /\ pc' \in [Threads -> Labels]
      BY <1>34, <1>f, <1>g, <2>3 DEF HelperDone
    <3> QED
      BY <1>0, <1>34, <2>1, <2>3, <3>1 DEF TypeOK, HelperDone
  <2>4. CASE /\ \E next \in {"gpu", "cpu"} : conv' = [conv EXCEPT ![s].stage = next]
             /\ Goto(s, "spawn helper")
             /\ UNCHANGED <<sid, report>>
    <3>1. conv' \in [Sessions -> ConversionRec]
      BY <1>e, <2>4, Zenon
    <3>2. pc' \in [Threads -> Labels]
      BY <1>0, <2>4 DEF TypeOK, Labels
    <3> QED
      BY <1>0, <1>34, <2>1, <2>4, <3>1, <3>2 DEF TypeOK, HelperDone
  <2>5. CASE Goto(s, "publish output") /\ UNCHANGED <<conv, sid, report>>
    <3>1. pc' \in [Threads -> Labels]
      BY <1>0, <2>5 DEF TypeOK, Labels
    <3> QED
      BY <1>0, <1>34, <2>1, <2>5, <3>1 DEF TypeOK, HelperDone
  <2> QED
    BY <1>34, <2>2, <2>3, <2>4, <2>5 DEF HelperDone
<1>35. ASSUME NEW s \in Sessions, PublishOutput(s) PROVE TypeOK'
  <2>1. CASE BatchCancelled(s) /\ UNCHANGED conv
    BY <1>0, <1>35, <1>c, <2>1 DEF TypeOK, PublishOutput
  <2>2. CASE NextFile(s, TRUE) /\ UNCHANGED <<sid, report>>
    <3>1. conv' \in [Sessions -> ConversionRec] /\ pc' \in [Threads -> Labels]
      BY <1>35, <1>f, <1>g, <2>2 DEF PublishOutput
    <3> QED
      BY <1>0, <1>35, <2>2, <3>1 DEF TypeOK, PublishOutput
  <2>3. CASE Goto(s, "publish source") /\ UNCHANGED <<conv, sid, report>>
    <3>1. pc' \in [Threads -> Labels]
      BY <1>0, <2>3 DEF TypeOK, Labels
    <3> QED
      BY <1>0, <1>35, <2>3, <3>1 DEF TypeOK, PublishOutput
  <2> QED
    BY <1>35, <2>1, <2>2, <2>3 DEF PublishOutput
<1>36. ASSUME NEW s \in Sessions, PublishSource(s) PROVE TypeOK'
  <2>1. CASE BatchCancelled(s) /\ UNCHANGED conv
    BY <1>0, <1>36, <1>c, <2>1 DEF TypeOK, PublishSource
  <2>2. CASE /\ \E failed \in BOOLEAN : NextFile(s, failed)
             /\ UNCHANGED <<sid, report>>
    <3>1. conv[s].left > 0
      BY <1>36, <1>f DEF PublishSource
    <3>2. conv' \in [Sessions -> ConversionRec] /\ pc' \in [Threads -> Labels]
      BY <1>g, <2>2, <3>1
    <3> QED
      BY <1>0, <1>36, <2>2, <3>2 DEF TypeOK, PublishSource
  <2> QED
    BY <1>36, <2>1, <2>2 DEF PublishSource
<1>37. CASE UNCHANGED vars
  BY <1>0, <1>37 DEF vars, TypeOK
<1> QED
  BY <1>1, <1>2, <1>3, <1>4, <1>5, <1>6, <1>7, <1>8, <1>9, <1>10, <1>11, <1>12,
     <1>13, <1>14, <1>15, <1>16, <1>17, <1>18, <1>19, <1>20, <1>21, <1>22, <1>23,
     <1>24, <1>25, <1>26, <1>27, <1>28, <1>29, <1>30, <1>31, <1>32, <1>33, <1>34,
     <1>35, <1>36, <1>37
     DEF Next, StartStep, CancelStep, CompleteStep, WorkerStep

-----------------------------------------------------------------------------
\* What every step of a worker has in common: it stays in its own code, with
\* its own session, and neither takes that session out of the slot nor clears
\* the flags that tell a canceller about it.

SessionKept ==
  \A u \in Sessions :
    /\ sess'[u].cancelled = sess[u].cancelled
    /\ sess[u].exitPending \/ sess[u].convPending =>
         sess'[u].exitPending \/ sess'[u].convPending

WorkerMoves(s) ==
  /\ pc[s] \in WorkerLabels
  /\ \E label \in WorkerLabels : pc' = [pc EXCEPT ![s] = label]
  /\ sid' = sid \/ sid' = [sid EXCEPT ![s] = s]
  /\ pc'[s] = "complete" => sid'[s] = s
  /\ SessionKept
  /\ \A u \in Sessions : u # s => conv'[u] = conv[u]
  /\ pc'[s] \in ConvertingLabels => conv'[s].left > 0
  /\ UNCHANGED <<slot, startup, finalizing, counter, own, called>>

\* The fourteen worker actions move like that.
LEMMA WorkerStepMoves == ASSUME IInv, NEW s \in Sessions, WorkerStep(s) PROVE WorkerMoves(s)
<1> USE DEF Goto, locks, procs, locals, history
<1>0. /\ s \in Threads /\ pc \in [Threads -> Labels] /\ sid \in [Threads -> 0 .. MaxSessions]
      /\ sess \in [Sessions -> SessionRec] /\ conv \in [Sessions -> ConversionRec]
  BY DEF IInv, TypeOK, Threads
<1>1. pc[s] \in ConvertingLabels => conv[s].left > 0
  BY DEF IInv, ConversionInv
<1>a. ASSUME NEW oc, NEW show, Report(s, s, oc, show)
      PROVE  /\ pc' = [pc EXCEPT ![s] = "complete"] /\ "complete" \in WorkerLabels
             /\ sid' = [sid EXCEPT ![s] = s] /\ sid'[s] = s
             /\ pc'[s] \notin ConvertingLabels
  BY <1>a, <1>0 DEF Report, ConvertingLabels, WorkerLabels
<1>b. BatchCancelled(s) =>
             /\ pc' = [pc EXCEPT ![s] = "complete"] /\ "complete" \in WorkerLabels
             /\ sid' = [sid EXCEPT ![s] = s] /\ sid'[s] = s
             /\ pc'[s] \notin ConvertingLabels
  BY <1>a DEF BatchCancelled
<1>c. ASSUME NEW f, NextFile(s, f)
      PROVE  /\ pc' = [pc EXCEPT ![s] = "convert"] /\ "convert" \in WorkerLabels
             /\ pc'[s] \notin ConvertingLabels /\ pc'[s] # "complete"
             /\ \A u \in Sessions : u # s => conv'[u] = conv[u]
  BY <1>c, <1>0 DEF NextFile, WorkerLabels, ConvertingLabels
<1>d. sess' = sess => SessionKept
  BY DEF SessionKept
<1>e. ASSUME NEW b, \/ sess' = [sess EXCEPT ![s].ytdlp = b]
                    \/ sess' = [sess EXCEPT ![s].ffmpeg = b]
                    \/ sess' = [sess EXCEPT ![s].partial = b]
      PROVE  SessionKept
  <2>1. CASE sess' = [sess EXCEPT ![s].ytdlp = b]
    BY <1>0, <2>1 DEF SessionKept, SessionRec
  <2>2. CASE sess' = [sess EXCEPT ![s].ffmpeg = b]
    BY <1>0, <2>2 DEF SessionKept, SessionRec
  <2>3. CASE sess' = [sess EXCEPT ![s].partial = b]
    BY <1>0, <2>3 DEF SessionKept, SessionRec
  <2> QED
    BY <1>e, <2>1, <2>2, <2>3
<1>f. sess' = [sess EXCEPT ![s].exitPending = FALSE, ![s].convPending = TRUE] => SessionKept
  BY <1>0 DEF SessionKept, SessionRec
<1>g. ASSUME NEW stage, conv' = [conv EXCEPT ![s].stage = stage]
      PROVE  /\ \A u \in Sessions : u # s => conv'[u] = conv[u]
             /\ conv'[s].left = conv[s].left
  BY <1>0, <1>g DEF ConversionRec
<1> USE DEF WorkerMoves
<1>2. ASSUME ExitSeen(s) PROVE WorkerMoves(s)
  <2>1. CASE sess[s].cancelled
    BY <1>0, <1>a, <1>e, <1>2, <2>1 DEF ExitSeen, WorkerLabels
  <2>2. CASE ~sess[s].cancelled
    BY <1>0, <1>e, <1>2, <2>2 DEF ExitSeen, WorkerLabels, ConvertingLabels
  <2> QED
    BY <2>1, <2>2
<1>3. ASSUME ExitFailed(s) PROVE WorkerMoves(s)
  BY <1>0, <1>a, <1>d, <1>3 DEF ExitFailed, WorkerLabels
<1>4. ASSUME ExitUsable(s) PROVE WorkerMoves(s)
  BY <1>0, <1>e, <1>4 DEF ExitUsable, WorkerLabels, ConvertingLabels
<1>5. ASSUME InstallFiles(s) PROVE WorkerMoves(s)
  BY <1>0, <1>a, <1>d, <1>5 DEF InstallFiles, WorkerLabels
<1>6. ASSUME Handoff(s) PROVE WorkerMoves(s)
  <2>1. CASE sess[s].cancelled
    BY <1>0, <1>a, <1>d, <1>6, <2>1 DEF Handoff, WorkerLabels
  <2>2. CASE ~sess[s].cancelled
    BY <1>0, <1>f, <1>6, <2>2 DEF Handoff, WorkerLabels, ConvertingLabels
  <2> QED
    BY <2>1, <2>2
<1>7. ASSUME ConvertNext(s) PROVE WorkerMoves(s)
  <2>0. /\ pc[s] \in WorkerLabels /\ SessionKept
        /\ UNCHANGED <<slot, startup, finalizing, counter, own, called>>
    BY <1>7, <1>d DEF ConvertNext, WorkerLabels
  <2>1. CASE /\ \/ BatchCancelled(s)
                \/ Report(s, s, IF conv[s].failed THEN "Failed" ELSE "Success", TRUE)
             /\ UNCHANGED conv
    BY <1>a, <1>b, <2>0, <2>1
  <2>2. CASE Goto(s, "publish same") /\ conv[s].left > 0 /\ UNCHANGED <<conv, sid>>
    BY <1>0, <2>0, <2>2 DEF WorkerLabels
  <2>3. CASE /\ conv' = [conv EXCEPT ![s].stage = "probe"] /\ conv[s].left > 0
             /\ Goto(s, "spawn helper") /\ UNCHANGED sid
    BY <1>0, <1>g, <2>0, <2>3 DEF WorkerLabels
  <2> QED
    BY <1>7, <2>1, <2>2, <2>3 DEF ConvertNext
<1>8. ASSUME PublishSame(s) PROVE WorkerMoves(s)
  BY <1>0, <1>b, <1>c, <1>d, <1>8 DEF PublishSame, WorkerLabels
<1>9. ASSUME SpawnHelper(s) PROVE WorkerMoves(s)
  BY <1>0, <1>1, <1>b, <1>d, <1>9 DEF SpawnHelper, WorkerLabels, ConvertingLabels
<1>10. ASSUME SpawnHelperFails(s) PROVE WorkerMoves(s)
  <2>0. /\ pc[s] = "spawn helper" /\ pc[s] \in WorkerLabels /\ conv[s].left > 0
        /\ SessionKept /\ sid' = sid
        /\ UNCHANGED <<slot, startup, finalizing, counter, own, called>>
    BY <1>1, <1>10, <1>d DEF SpawnHelperFails, WorkerLabels, ConvertingLabels
  <2>1. CASE NextFile(s, TRUE)
    BY <1>c, <2>0, <2>1
  <2>2. CASE /\ \E next \in {"gpu", "cpu"} : conv' = [conv EXCEPT ![s].stage = next]
             /\ pc' = pc
    <3>1. /\ \A u \in Sessions : u # s => conv'[u] = conv[u]
          /\ conv'[s].left = conv[s].left
      BY <1>g, <2>2
    <3>2. pc' = [pc EXCEPT ![s] = "spawn helper"]
      BY <1>0, <2>0, <2>2
    <3> QED
      BY <2>0, <2>2, <3>1, <3>2
  <2> QED
    BY <1>10, <2>1, <2>2 DEF SpawnHelperFails
<1>11. ASSUME RegisterHelper(s) PROVE WorkerMoves(s)
  BY <1>0, <1>1, <1>b, <1>d, <1>e, <1>11 DEF RegisterHelper, WorkerLabels,
       ConvertingLabels
<1>12. ASSUME HelperExits(s) PROVE WorkerMoves(s)
  BY <1>0, <1>1, <1>d, <1>12 DEF HelperExits, WorkerLabels, ConvertingLabels
<1>13. ASSUME HelperDone(s) PROVE WorkerMoves(s)
  <2>0. /\ pc[s] \in WorkerLabels /\ conv[s].left > 0 /\ SessionKept
        /\ UNCHANGED <<slot, startup, finalizing, counter, own, called>>
    BY <1>1, <1>13, <1>e DEF HelperDone, WorkerLabels, ConvertingLabels
  <2>1. CASE BatchCancelled(s) /\ UNCHANGED conv
    BY <1>b, <2>0, <2>1
  <2>2. CASE NextFile(s, TRUE) /\ UNCHANGED sid
    BY <1>c, <2>0, <2>2
  <2>3. CASE Goto(s, "publish output") /\ UNCHANGED <<conv, sid>>
    BY <1>0, <2>0, <2>3 DEF WorkerLabels
  <2>4. CASE /\ \E next \in {"gpu", "cpu"} : conv' = [conv EXCEPT ![s].stage = next]
             /\ Goto(s, "spawn helper") /\ UNCHANGED sid
    <3>1. /\ \A u \in Sessions : u # s => conv'[u] = conv[u]
          /\ conv'[s].left = conv[s].left
      BY <1>g, <2>4
    <3> QED
      BY <1>0, <2>0, <2>4, <3>1 DEF WorkerLabels
  <2> QED
    BY <1>13, <2>1, <2>2, <2>3, <2>4 DEF HelperDone
<1>14. ASSUME PublishOutput(s) PROVE WorkerMoves(s)
  BY <1>0, <1>1, <1>b, <1>c, <1>d, <1>14 DEF PublishOutput, WorkerLabels, ConvertingLabels
<1>15. ASSUME PublishSource(s) PROVE WorkerMoves(s)
  BY <1>0, <1>1, <1>b, <1>c, <1>d, <1>15 DEF PublishSource, WorkerLabels, ConvertingLabels
<1> QED
  BY <1>2, <1>3, <1>4, <1>5, <1>6, <1>7, <1>8, <1>9, <1>10, <1>11, <1>12, <1>13, <1>14,
     <1>15 DEF WorkerStep

\* What a cancel does when it looks at the slot.
CancelLooks(t) ==
  /\ \/ /\ slot = None
        /\ pc' = [pc EXCEPT ![t] = "waitFinal"]
        /\ UNCHANGED <<sess, sid>>
     \/ /\ slot \in Sessions
        /\ sid' = [sid EXCEPT ![t] = slot]
        /\ sess'[slot].cancelled
        /\ \/ pc' = [pc EXCEPT ![t] = "killWait"]
           \/ /\ pc' = [pc EXCEPT ![t] = "killComplete"]
              /\ ~(sess[slot].exitPending \/ sess[slot].convPending)
  /\ \A u \in Sessions :
       /\ sess[u].cancelled => sess'[u].cancelled
       /\ sess[u].exitPending \/ sess[u].convPending =>
            sess'[u].exitPending \/ sess'[u].convPending

\* CancelBegin does that in each of its cases ...
LEMMA CancelBeginLooks ==
  ASSUME IInv, NEW t \in Starters \cup Cancellers, NEW n, NEW m, CancelBegin(t, n, m)
  PROVE  CancelLooks(t)
<1>0. TypeOK
  BY DEF IInv
<1>1. CASE slot = None
  BY <1>1 DEF CancelBegin, CancelLooks, Goto
<1>2. CASE slot # None
  <2>0. slot \in Sessions /\ sess \in [Sessions -> SessionRec]
    BY <1>0, <1>2, SessionAssumption DEF TypeOK, Sessions, None
  <2> DEFINE show == n \/ (m /\ sess[slot].owner = "Manual")
             exit == WorkerCompletes(slot) \/ sess[slot].exitPending
  <2>1. /\ sess' = [sess EXCEPT ![slot].cancelled = TRUE, ![slot].notify = show,
                                ![slot].exitPending = exit,
                                ![slot].ytdlp = FALSE, ![slot].ffmpeg = FALSE]
        /\ sid' = [sid EXCEPT ![t] = slot]
        /\ pc' = [pc EXCEPT ![t] = IF WorkerCompletes(slot) THEN "killWait"
                                   ELSE "killComplete"]
    BY <1>2 DEF CancelBegin, Goto
  <2>2. sess[slot].exitPending => exit
    OBVIOUS
  <2> HIDE DEF show, exit
  <2>3. \A u \in Sessions :
          u # slot => sess'[u] = sess[u]
    BY <2>0, <2>1
  <2>4. /\ sess'[slot].cancelled = TRUE
        /\ sess'[slot].exitPending = exit
        /\ sess'[slot].convPending = sess[slot].convPending
    BY <2>0, <2>1 DEF SessionRec
  <2>5. ~WorkerCompletes(slot) => ~(sess[slot].exitPending \/ sess[slot].convPending)
    BY DEF WorkerCompletes
  <2> QED
    BY <2>0, <2>1, <2>2, <2>3, <2>4, <2>5, Zenon DEF CancelLooks
<1> QED
  BY <1>1, <1>2

\* ... for a canceller ...
LEMMA CancelCallLooks ==
  ASSUME IInv, NEW t \in Cancellers, CancelCall(t)
  PROVE  CancelLooks(t) /\ UNCHANGED <<slot, finalizing, counter, startup, conv, own,
  called>>
<1>1. PICK mode \in CancelModes : CancelBegin(t, mode = "announced", mode # "kill")
  BY DEF CancelCall
<1> QED
  BY <1>1, CancelBeginLooks DEF CancelCall, locks, procs, history

\* ... and for a starter that replaces a session.
LEMMA StartReplaceLooks ==
  ASSUME IInv, NEW t \in Starters, StartReplace(t)
  PROVE  CancelLooks(t) /\ UNCHANGED <<slot, finalizing, counter, startup, conv, own,
  called>>
  BY CancelBeginLooks DEF StartReplace, locks, procs, history

-----------------------------------------------------------------------------

-----------------------------------------------------------------------------
\* The parts of the type invariant the other invariants are read with.
LEMMA Basics ==
  ASSUME IInv
  PROVE  /\ pc \in [Threads -> Labels]
         /\ sid \in [Threads -> 0 .. MaxSessions]
         /\ Threads = Starters \cup Cancellers \cup Sessions
         /\ \A s \in Sessions : s \notin Starters \cup Cancellers
         /\ counter \in Nat /\ slot \in Nat /\ slot <= counter
         /\ \A s \in Sessions : s \in Nat /\ s # None
         /\ slot # None => slot \in Sessions
         /\ \A t \in Threads : sid[t] \in Nat /\ (sid[t] # None => sid[t] \in Sessions)
<1>0. TypeOK /\ MaxSessions \in Nat
  BY SessionAssumption DEF IInv
<1>1. /\ pc \in [Threads -> Labels]
      /\ sid \in [Threads -> 0 .. MaxSessions]
      /\ Threads = Starters \cup Cancellers \cup Sessions
  BY <1>0 DEF TypeOK, Threads
<1>2. \A s \in Sessions : s \notin Starters \cup Cancellers
  BY SessionAssumption DEF Sessions
<1>3. counter \in Nat /\ slot \in Nat /\ slot <= counter /\ (slot # None => slot \in Sessions)
  BY <1>0 DEF TypeOK, Sessions, None
<1>4. /\ \A s \in Sessions : s \in Nat /\ s # None
      /\ \A t \in Threads : sid[t] \in Nat /\ (sid[t] # None => sid[t] \in Sessions)
  BY <1>0, <1>1 DEF Sessions, None
<1> QED
  BY <1>1, <1>2, <1>3, <1>4

\* A session that has left the slot has no worker any more.
LEMMA FinishedIdle ==
  ASSUME IInv, NEW t \in Threads, pc[t] \in Taken
  PROVE  /\ sid[t] \in Sessions /\ sid[t] \in finalizing /\ slot # sid[t]
         /\ pc[sid[t]] \notin WorkerLabels
<1>1. sid[t] \in Sessions
  BY Basics DEF IInv, SidInv
<1>2. sid[t] \in finalizing
  BY DEF IInv, CallbackInv
<1>3. slot # sid[t]
  BY <1>1, <1>2 DEF IInv, CallbackInv
<1> QED
  BY <1>1, <1>2, <1>3 DEF IInv, WorkerInv
\* Every step keeps LabelInv.
LEMMA LabelStep == ASSUME IInv, [Next]_vars PROVE LabelInv'
<1> USE SessionAssumption DEF Goto, locks, procs, locals, history
<1>0. /\ LabelInv /\ pc \in [Threads -> Labels]
      /\ Threads = Starters \cup Cancellers \cup Sessions
      /\ \A s \in Sessions : s \notin Starters \cup Cancellers
  BY Basics DEF IInv
<1>b. \A t \in Starters : pc[t] = "register" => sid[t] \in Sessions
  BY Basics DEF IInv, SidInv
<1>1. ASSUME NEW t \in Starters, StartCall(t) PROVE LabelInv'
  BY <1>0, <1>1, ZenonT(60) DEF StartCall, LabelInv, StartLabels, CancelLabels, Taken, WorkerLabels
<1>2. ASSUME NEW t \in Starters, StartConflict(t) PROVE LabelInv'
  BY <1>0, <1>2 DEF StartConflict, LabelInv, StartLabels, CancelLabels, Taken,
       WorkerLabels
<1>3. ASSUME NEW t \in Starters, StartExisting(t) PROVE LabelInv'
  BY <1>0, <1>3 DEF StartExisting, LabelInv, StartLabels, CancelLabels, Taken,
       WorkerLabels
<1>4. ASSUME NEW t \in Starters, StartReplace(t) PROVE LabelInv'
  <2>1. CancelLooks(t) /\ UNCHANGED <<slot, finalizing, counter, startup, conv, own,
  called>>
    BY <1>4, StartReplaceLooks
  <2>2. pc[t] = "replace"
    BY <1>4 DEF StartReplace
  <2> QED
    BY <1>0, <2>1, <2>2 DEF CancelLooks, LabelInv, StartLabels, CancelLabels, Taken,
         WorkerLabels
<1>5. ASSUME NEW t \in Starters, Install(t) PROVE LabelInv'
  BY <1>0, <1>5 DEF Install, LabelInv, StartLabels, CancelLabels, Taken, WorkerLabels
<1>6. ASSUME NEW t \in Starters, SetupFails(t) PROVE LabelInv'
  BY <1>0, <1>6 DEF SetupFails, Report, LabelInv, StartLabels, CancelLabels, Taken,
       WorkerLabels
<1>7. ASSUME NEW t \in Starters, SetupAbandoned(t) PROVE LabelInv'
  BY <1>0, <1>7 DEF SetupAbandoned, Forget, LabelInv, StartLabels, CancelLabels, Taken,
       WorkerLabels
<1>8. ASSUME NEW t \in Starters, SpawnYtdlp(t) PROVE LabelInv'
  BY <1>0, <1>8 DEF SpawnYtdlp, LabelInv, StartLabels, CancelLabels, Taken, WorkerLabels
<1>9. ASSUME NEW t \in Starters, RegisterYtdlp(t) PROVE LabelInv'
  <2>1. /\ sid[t] \in Sessions /\ sid[t] # t /\ t \notin Sessions
        /\ pc' = [pc EXCEPT ![t] = "idle", ![sid[t]] = "waiting"]
    BY <1>0, <1>b, <1>9 DEF RegisterYtdlp
  <2>2. /\ pc'[t] = "idle" /\ pc'[sid[t]] = "waiting"
        /\ \A u \in Threads \ {t, sid[t]} : pc'[u] = pc[u]
    BY <1>0, <2>1
  <2>3. sid[t] \notin Starters /\ sid[t] \notin Cancellers /\ t \notin Cancellers
    BY <1>0, <1>9, <2>1
  <2>4. ASSUME NEW u \in Starters
        PROVE pc'[u] = "idle" \/ pc'[u] = pc[u]
    BY <1>0, <2>2, <2>3
  <2>5. ASSUME NEW u \in Cancellers
        PROVE pc'[u] = pc[u]
    BY <1>0, <2>2, <2>3
  <2>6. ASSUME NEW u \in Sessions
        PROVE pc'[u] \in WorkerLabels \/ pc'[u] = pc[u]
    BY <1>0, <2>1, <2>2 DEF WorkerLabels
  <2> QED
    BY <1>0, <2>4, <2>5, <2>6 DEF LabelInv
<1>10. ASSUME NEW t \in Starters, RegisterRefused(t) PROVE LabelInv'
  BY <1>0, <1>10 DEF RegisterRefused, LabelInv, StartLabels, CancelLabels, Taken,
       WorkerLabels
<1>11. ASSUME NEW t \in Starters, ReapYtdlp(t) PROVE LabelInv'
  BY <1>0, <1>11 DEF ReapYtdlp, Forget, LabelInv, StartLabels, CancelLabels, Taken,
       WorkerLabels
<1>12. ASSUME NEW t \in Cancellers, CancelCall(t) PROVE LabelInv'
  <2>1. CancelLooks(t) /\ UNCHANGED <<slot, finalizing, counter, startup, conv, own,
  called>>
    BY <1>12, CancelCallLooks
  <2>2. pc[t] = "idle"
    BY <1>12 DEF CancelCall
  <2> QED
    BY <1>0, <2>1, <2>2, ZenonT(60) DEF CancelLooks, LabelInv, StartLabels, CancelLabels, Taken,
         WorkerLabels
<1>13. ASSUME NEW t \in Cancellers, CancelReturn(t) PROVE LabelInv'
  BY <1>0, <1>13 DEF CancelReturn, LabelInv, StartLabels, CancelLabels, Taken,
       WorkerLabels
<1>14. ASSUME NEW t \in Starters \cup Cancellers, CancelKill(t) PROVE LabelInv'
  BY <1>0, <1>14 DEF CancelKill, LabelInv, StartLabels, CancelLabels, Taken, WorkerLabels
<1>15. ASSUME NEW t \in Starters \cup Cancellers, WaitSlot(t) PROVE LabelInv'
  BY <1>0, <1>15 DEF WaitSlot, LabelInv, StartLabels, CancelLabels, Taken, WorkerLabels
<1>16. ASSUME NEW t \in Starters \cup Cancellers, WaitFinal(t) PROVE LabelInv'
  BY <1>0, <1>16, ZenonT(60) DEF WaitFinal, LabelInv, StartLabels, CancelLabels, Taken, WorkerLabels
<1>17. ASSUME NEW t \in Threads, CompleteTake(t) PROVE LabelInv'
  <2>1. \/ pc' = [pc EXCEPT ![t] = "publish"]
        \/ pc' = [pc EXCEPT ![t] = Continuation(t)]
    BY <1>17 DEF CompleteTake
  <2> QED
    BY <1>0, <2>1, ZenonT(60) DEF Continuation, LabelInv, StartLabels, CancelLabels, Taken,
         WorkerLabels
<1>18. ASSUME NEW t \in Threads, CompletePublish(t) PROVE LabelInv'
  BY <1>0, <1>18 DEF CompletePublish, LabelInv, StartLabels, CancelLabels, Taken,
       WorkerLabels
<1>19. ASSUME NEW t \in Threads, CompleteCallback(t) PROVE LabelInv'
  BY <1>0, <1>19 DEF CompleteCallback, LabelInv, StartLabels, CancelLabels, Taken,
       WorkerLabels
<1>20. ASSUME NEW t \in Threads, CompleteFinish(t) PROVE LabelInv'
  BY <1>0, <1>20, ZenonT(60) DEF CompleteFinish, Forget, Continuation, LabelInv, StartLabels,
       CancelLabels, Taken, WorkerLabels
<1>21. ASSUME NEW t \in Sessions, YtdlpExits(t) PROVE LabelInv'
  BY <1>0, <1>21 DEF YtdlpExits, LabelInv, StartLabels, CancelLabels, Taken, WorkerLabels
<1>22. ASSUME NEW t \in Sessions, Progress(t) PROVE LabelInv'
  BY <1>0, <1>22 DEF Progress, LabelInv, StartLabels, CancelLabels, Taken, WorkerLabels
<1>23. ASSUME NEW t \in Sessions, WorkerStep(t) PROVE LabelInv'
  <2>1. WorkerMoves(t)
    BY <1>23, WorkerStepMoves
  <2>2. PICK label \in WorkerLabels : pc' = [pc EXCEPT ![t] = label]
    BY <2>1 DEF WorkerMoves
  <2> QED
    BY <1>0, <2>2, ZenonT(60) DEF LabelInv, StartLabels, CancelLabels, Taken, WorkerLabels
<1>24. CASE UNCHANGED vars
  BY <1>0, <1>24 DEF vars, LabelInv, StartLabels, CancelLabels, Taken, WorkerLabels
<1> QED
  BY <1>1, <1>2, <1>3, <1>4, <1>5, <1>6, <1>7, <1>8, <1>9, <1>10, <1>11, <1>12,
     <1>13, <1>14, <1>15, <1>16, <1>17, <1>18, <1>19, <1>20, <1>21, <1>22, <1>23, <1>24
     DEF Next, StartStep, CancelStep, CompleteStep

\* Every step keeps SidInv.
LEMMA SidStep == ASSUME IInv, [Next]_vars PROVE SidInv'
<1> USE SessionAssumption DEF Goto, locks, procs, locals, history
<1>0. /\ SidInv /\ pc \in [Threads -> Labels] /\ sid \in [Threads -> 0 .. MaxSessions]
      /\ Threads = Starters \cup Cancellers \cup Sessions
      /\ \A s \in Sessions : s \notin Starters \cup Cancellers
      /\ counter \in Nat /\ slot \in Nat /\ slot <= counter
  BY Basics DEF IInv
<1>b. \A t \in Starters : pc[t] = "register" => sid[t] \in Sessions
  BY Basics DEF IInv, SidInv

<1>1. ASSUME NEW t \in Starters, StartCall(t) PROVE SidInv'
  BY <1>0, <1>1 DEF StartCall, SidInv, Taken, None
<1>2. ASSUME NEW t \in Starters, StartConflict(t) PROVE SidInv'
  BY <1>0, <1>2 DEF StartConflict, SidInv, Taken, None
<1>3. ASSUME NEW t \in Starters, StartExisting(t) PROVE SidInv'
  BY <1>0, <1>3 DEF StartExisting, SidInv, Taken, None
<1>4. ASSUME NEW t \in Starters, StartReplace(t) PROVE SidInv'
  <2>1. CancelLooks(t) /\ UNCHANGED <<slot, finalizing, counter, startup, conv, own,
  called>>
    BY <1>4, StartReplaceLooks
  <2>2. pc[t] = "replace"
    BY <1>4 DEF StartReplace
  <2>3. CASE slot = None /\ pc' = [pc EXCEPT ![t] = "waitFinal"] /\ UNCHANGED <<sess,
  sid>>
    BY <1>0, <2>1, <2>3 DEF SidInv, Taken, None
  <2>4. CASE /\ slot \in Sessions /\ sid' = [sid EXCEPT ![t] = slot]
             /\ \/ pc' = [pc EXCEPT ![t] = "killWait"]
                \/ pc' = [pc EXCEPT ![t] = "killComplete"]
    <3>1. slot # None
      BY <2>4, Basics
    <3> QED
      BY <1>0, <2>1, <2>4, <3>1 DEF SidInv, Taken, None
  <2> QED
    BY <2>1, <2>3, <2>4 DEF CancelLooks
<1>5. ASSUME NEW t \in Starters, Install(t) PROVE SidInv'
  BY <1>0, <1>5 DEF Install, SidInv, Taken, None
<1>6. ASSUME NEW t \in Starters, SetupFails(t) PROVE SidInv'
  BY <1>0, <1>6 DEF SetupFails, Report, SidInv, Taken, None
<1>7. ASSUME NEW t \in Starters, SetupAbandoned(t) PROVE SidInv'
  BY <1>0, <1>7 DEF SetupAbandoned, Forget, SidInv, Taken, None
<1>8. ASSUME NEW t \in Starters, SpawnYtdlp(t) PROVE SidInv'
  BY <1>0, <1>8 DEF SpawnYtdlp, SidInv, Taken, None
<1>9. ASSUME NEW t \in Starters, RegisterYtdlp(t) PROVE SidInv'
  BY <1>0, <1>b, <1>9 DEF RegisterYtdlp, Forget, SidInv, Taken, None
<1>10. ASSUME NEW t \in Starters, RegisterRefused(t) PROVE SidInv'
  BY <1>0, <1>10 DEF RegisterRefused, SidInv, Taken, None
<1>11. ASSUME NEW t \in Starters, ReapYtdlp(t) PROVE SidInv'
  BY <1>0, <1>11 DEF ReapYtdlp, Forget, SidInv, Taken, None
<1>12. ASSUME NEW t \in Cancellers, CancelCall(t) PROVE SidInv'
  <2>1. CancelLooks(t) /\ UNCHANGED <<slot, finalizing, counter, startup, conv, own,
  called>>
    BY <1>12, CancelCallLooks
  <2>2. pc[t] = "idle"
    BY <1>12 DEF CancelCall
  <2>3. CASE slot = None /\ pc' = [pc EXCEPT ![t] = "waitFinal"] /\ UNCHANGED <<sess,
  sid>>
    BY <1>0, <2>1, <2>3 DEF SidInv, Taken, None
  <2>4. CASE /\ slot \in Sessions /\ sid' = [sid EXCEPT ![t] = slot]
             /\ \/ pc' = [pc EXCEPT ![t] = "killWait"]
                \/ pc' = [pc EXCEPT ![t] = "killComplete"]
    <3>1. slot # None
      BY <2>4, Basics
    <3> QED
      BY <1>0, <2>1, <2>4, <3>1 DEF SidInv, Taken, None
  <2> QED
    BY <2>1, <2>3, <2>4 DEF CancelLooks
<1>13. ASSUME NEW t \in Cancellers, CancelReturn(t) PROVE SidInv'
  BY <1>0, <1>13 DEF CancelReturn, SidInv, Taken, None
<1>14. ASSUME NEW t \in Starters \cup Cancellers, CancelKill(t) PROVE SidInv'
  BY <1>0, <1>14 DEF CancelKill, SidInv, Taken, None
<1>15. ASSUME NEW t \in Starters \cup Cancellers, WaitSlot(t) PROVE SidInv'
  BY <1>0, <1>15 DEF WaitSlot, SidInv, Taken, None
<1>16. ASSUME NEW t \in Starters \cup Cancellers, WaitFinal(t) PROVE SidInv'
  BY <1>0, <1>16 DEF WaitFinal, SidInv, Taken, None
<1>17. ASSUME NEW t \in Threads, CompleteTake(t) PROVE SidInv'
  BY <1>0, <1>17 DEF CompleteTake, Forget, Continuation, SidInv, Taken, None
<1>18. ASSUME NEW t \in Threads, CompletePublish(t) PROVE SidInv'
  BY <1>0, <1>18 DEF CompletePublish, SidInv, Taken, None
<1>19. ASSUME NEW t \in Threads, CompleteCallback(t) PROVE SidInv'
  BY <1>0, <1>19 DEF CompleteCallback, SidInv, Taken, None
<1>20. ASSUME NEW t \in Threads, CompleteFinish(t) PROVE SidInv'
  BY <1>0, <1>20 DEF CompleteFinish, Forget, Continuation, SidInv, Taken, None
<1>21. ASSUME NEW t \in Sessions, YtdlpExits(t) PROVE SidInv'
  BY <1>0, <1>21 DEF YtdlpExits, SidInv, Taken, None
<1>22. ASSUME NEW t \in Sessions, Progress(t) PROVE SidInv'
  BY <1>0, <1>22 DEF Progress, SidInv, Taken, None
<1>23. ASSUME NEW t \in Sessions, WorkerStep(t) PROVE SidInv'
  <2>1. WorkerMoves(t)
    BY <1>23, WorkerStepMoves
  <2>2. PICK label \in WorkerLabels : pc' = [pc EXCEPT ![t] = label]
    BY <2>1 DEF WorkerMoves
  <2>3. /\ sid' = sid \/ sid' = [sid EXCEPT ![t] = t]
        /\ pc'[t] = "complete" => sid'[t] = t
        /\ UNCHANGED counter
    BY <2>1 DEF WorkerMoves
  <2>4. slot = t /\ t # None
    BY <2>1, Basics DEF WorkerMoves, IInv, WorkerInv
  <2> QED
    BY <1>0, <2>2, <2>3, <2>4 DEF SidInv, Taken, WorkerLabels, None
<1>24. CASE UNCHANGED vars
  BY <1>0, <1>24 DEF vars, SidInv, Taken, None
<1> QED
  BY <1>1, <1>2, <1>3, <1>4, <1>5, <1>6, <1>7, <1>8, <1>9, <1>10, <1>11, <1>12,
     <1>13, <1>14, <1>15, <1>16, <1>17, <1>18, <1>19, <1>20, <1>21, <1>22, <1>23, <1>24
     DEF Next, StartStep, CancelStep, CompleteStep

\* Every step keeps StartupInv: STARTUP changes hands only while its holder is done.
LEMMA StartupStep == ASSUME IInv, [Next]_vars PROVE StartupInv'
<1> USE SessionAssumption DEF Goto, locks, procs, locals, history
<1>0. /\ StartupInv /\ pc \in [Threads -> Labels] /\ sid \in [Threads -> 0 .. MaxSessions]
      /\ Threads = Starters \cup Cancellers \cup Sessions
      /\ \A s \in Sessions : s \notin Starters \cup Cancellers
      /\ NoThread \notin Starters
  BY Basics DEF IInv, Threads
<1>b. \A t \in Starters : pc[t] = "register" => sid[t] \in Sessions
  BY Basics DEF IInv, SidInv

<1>1. ASSUME NEW t \in Starters, StartCall(t) PROVE StartupInv'
  BY <1>0, <1>1 DEF StartCall, StartupInv, StartLabels, CancelLabels, Taken, None
<1>2. ASSUME NEW t \in Starters, StartConflict(t) PROVE StartupInv'
  BY <1>0, <1>2 DEF StartConflict, StartupInv, StartLabels, CancelLabels, Taken, None
<1>3. ASSUME NEW t \in Starters, StartExisting(t) PROVE StartupInv'
  BY <1>0, <1>3 DEF StartExisting, StartupInv, StartLabels, CancelLabels, Taken, None
<1>4. ASSUME NEW t \in Starters, StartReplace(t) PROVE StartupInv'
  <2>1. CancelLooks(t) /\ UNCHANGED <<slot, finalizing, counter, startup, conv, own,
  called>>
    BY <1>4, StartReplaceLooks
  <2>2. pc[t] = "replace"
    BY <1>4 DEF StartReplace
  <2> QED
    BY <1>0, <2>1, <2>2 DEF CancelLooks, StartupInv, StartLabels, CancelLabels, Taken,
         None
<1>5. ASSUME NEW t \in Starters, Install(t) PROVE StartupInv'
  BY <1>0, <1>5 DEF Install, StartupInv, StartLabels, CancelLabels, Taken, None
<1>6. ASSUME NEW t \in Starters, SetupFails(t) PROVE StartupInv'
  BY <1>0, <1>6 DEF SetupFails, Report, StartupInv, StartLabels, CancelLabels, Taken, None
<1>7. ASSUME NEW t \in Starters, SetupAbandoned(t) PROVE StartupInv'
  BY <1>0, <1>7 DEF SetupAbandoned, Forget, StartupInv, StartLabels, CancelLabels, Taken,
       None
<1>8. ASSUME NEW t \in Starters, SpawnYtdlp(t) PROVE StartupInv'
  BY <1>0, <1>8 DEF SpawnYtdlp, StartupInv, StartLabels, CancelLabels, Taken, None
<1>9. ASSUME NEW t \in Starters, RegisterYtdlp(t) PROVE StartupInv'
  BY <1>0, <1>b, <1>9 DEF RegisterYtdlp, Forget, StartupInv, StartLabels, CancelLabels,
       Taken, None
<1>10. ASSUME NEW t \in Starters, RegisterRefused(t) PROVE StartupInv'
  BY <1>0, <1>10 DEF RegisterRefused, StartupInv, StartLabels, CancelLabels, Taken, None
<1>11. ASSUME NEW t \in Starters, ReapYtdlp(t) PROVE StartupInv'
  BY <1>0, <1>11 DEF ReapYtdlp, Forget, StartupInv, StartLabels, CancelLabels, Taken, None
<1>12. ASSUME NEW t \in Cancellers, CancelCall(t) PROVE StartupInv'
  <2>1. CancelLooks(t) /\ UNCHANGED <<slot, finalizing, counter, startup, conv, own,
  called>>
    BY <1>12, CancelCallLooks
  <2>2. pc[t] = "idle"
    BY <1>12 DEF CancelCall
  <2> QED
    BY <1>0, <2>1, <2>2 DEF CancelLooks, StartupInv, StartLabels, CancelLabels, Taken,
         None
<1>13. ASSUME NEW t \in Cancellers, CancelReturn(t) PROVE StartupInv'
  BY <1>0, <1>13 DEF CancelReturn, StartupInv, StartLabels, CancelLabels, Taken, None
<1>14. ASSUME NEW t \in Starters \cup Cancellers, CancelKill(t) PROVE StartupInv'
  BY <1>0, <1>14 DEF CancelKill, StartupInv, StartLabels, CancelLabels, Taken, None
<1>15. ASSUME NEW t \in Starters \cup Cancellers, WaitSlot(t) PROVE StartupInv'
  BY <1>0, <1>15 DEF WaitSlot, StartupInv, StartLabels, CancelLabels, Taken, None
<1>16. ASSUME NEW t \in Starters \cup Cancellers, WaitFinal(t) PROVE StartupInv'
  BY <1>0, <1>16 DEF WaitFinal, StartupInv, StartLabels, CancelLabels, Taken, None
<1>17. ASSUME NEW t \in Threads, CompleteTake(t) PROVE StartupInv'
  BY <1>0, <1>17 DEF CompleteTake, Forget, Continuation, StartupInv, StartLabels,
       CancelLabels, Taken, None
<1>18. ASSUME NEW t \in Threads, CompletePublish(t) PROVE StartupInv'
  BY <1>0, <1>18 DEF CompletePublish, StartupInv, StartLabels, CancelLabels, Taken, None
<1>19. ASSUME NEW t \in Threads, CompleteCallback(t) PROVE StartupInv'
  BY <1>0, <1>19 DEF CompleteCallback, StartupInv, StartLabels, CancelLabels, Taken, None
<1>20. ASSUME NEW t \in Threads, CompleteFinish(t) PROVE StartupInv'
  BY <1>0, <1>20 DEF CompleteFinish, Forget, Continuation, StartupInv, StartLabels,
       CancelLabels, Taken, None
<1>21. ASSUME NEW t \in Sessions, YtdlpExits(t) PROVE StartupInv'
  BY <1>0, <1>21 DEF YtdlpExits, StartupInv, StartLabels, CancelLabels, Taken, None
<1>22. ASSUME NEW t \in Sessions, Progress(t) PROVE StartupInv'
  BY <1>0, <1>22 DEF Progress, StartupInv, StartLabels, CancelLabels, Taken, None
<1>23. ASSUME NEW t \in Sessions, WorkerStep(t) PROVE StartupInv'
  <2>1. WorkerMoves(t)
    BY <1>23, WorkerStepMoves
  <2>2. PICK label \in WorkerLabels : pc' = [pc EXCEPT ![t] = label]
    BY <2>1 DEF WorkerMoves
  <2> QED
    BY <1>0, <2>1, <2>2 DEF WorkerMoves, StartupInv, StartLabels, CancelLabels, Taken,
         None
<1>24. CASE UNCHANGED vars
  BY <1>0, <1>24 DEF vars, StartupInv, StartLabels, CancelLabels, Taken, None
<1> QED
  BY <1>1, <1>2, <1>3, <1>4, <1>5, <1>6, <1>7, <1>8, <1>9, <1>10, <1>11, <1>12,
     <1>13, <1>14, <1>15, <1>16, <1>17, <1>18, <1>19, <1>20, <1>21, <1>22, <1>23, <1>24
     DEF Next, StartStep, CancelStep, CompleteStep

\* Every step keeps WorkerInv.
LEMMA WorkerInvStep == ASSUME IInv, [Next]_vars PROVE WorkerInv'
<1> USE SessionAssumption DEF Goto, locks, procs, locals, history
<1>0. /\ WorkerInv /\ pc \in [Threads -> Labels] /\ sid \in [Threads -> 0 .. MaxSessions]
      /\ sess \in [Sessions -> SessionRec] /\ conv \in [Sessions -> ConversionRec]
      /\ Threads = Starters \cup Cancellers \cup Sessions
      /\ \A s \in Sessions : s \notin Starters \cup Cancellers /\ s \in Nat
  BY Basics DEF IInv, TypeOK
<1>b. \A t \in Starters : pc[t] = "register" => sid[t] \in Sessions
  BY Basics DEF IInv, SidInv

<1>1. ASSUME NEW t \in Starters, StartCall(t) PROVE WorkerInv'
  BY <1>0, <1>1 DEF StartCall, WorkerInv, WorkerLabels
<1>2. ASSUME NEW t \in Starters, StartConflict(t) PROVE WorkerInv'
  BY <1>0, <1>2 DEF StartConflict, WorkerInv, WorkerLabels
<1>3. ASSUME NEW t \in Starters, StartExisting(t) PROVE WorkerInv'
  BY <1>0, <1>3 DEF StartExisting, WorkerInv, WorkerLabels
<1>4. ASSUME NEW t \in Starters, StartReplace(t) PROVE WorkerInv'
  <2>1. CancelLooks(t) /\ UNCHANGED <<slot, finalizing, counter, startup, conv, own,
  called>>
    BY <1>4, StartReplaceLooks
  <2>2. pc[t] = "replace"
    BY <1>4 DEF StartReplace
  <2> QED
    BY <1>0, <2>1, <2>2, ZenonT(60) DEF CancelLooks, WorkerInv, WorkerLabels
<1>5. ASSUME NEW t \in Starters, Install(t) PROVE WorkerInv'
  <2>1. \A s \in Sessions : pc[s] \notin WorkerLabels
    BY <1>0, <1>5, Basics DEF Install, IInv, StartupInv, StartLabels, WorkerInv
  <2>2. pc' = [pc EXCEPT ![t] = "setup"] /\ t \notin Sessions
    BY <1>0, <1>5 DEF Install
  <2> QED
    BY <1>0, <2>1, <2>2 DEF WorkerInv
<1>6. ASSUME NEW t \in Starters, SetupFails(t) PROVE WorkerInv'
  BY <1>0, <1>6 DEF SetupFails, Report, WorkerInv, WorkerLabels
<1>7. ASSUME NEW t \in Starters, SetupAbandoned(t) PROVE WorkerInv'
  BY <1>0, <1>7 DEF SetupAbandoned, Forget, WorkerInv, WorkerLabels
<1>8. ASSUME NEW t \in Starters, SpawnYtdlp(t) PROVE WorkerInv'
  BY <1>0, <1>8 DEF SpawnYtdlp, WorkerInv, WorkerLabels
<1>9. ASSUME NEW t \in Starters, RegisterYtdlp(t) PROVE WorkerInv'
  <2>1. /\ sid[t] \in Sessions /\ t \notin Sessions /\ slot' = slot /\ slot = sid[t]
        /\ pc' = [pc EXCEPT ![t] = "idle", ![sid[t]] = "waiting"]
        /\ sess' = [sess EXCEPT ![sid[t]].ytdlp = TRUE, ![sid[t]].exitPending = TRUE]
    BY <1>0, <1>b, <1>9 DEF RegisterYtdlp, ActiveNotCancelled
  <2>2. /\ sess'[sid[t]].exitPending
        /\ \A s \in Sessions \ {sid[t]} : sess'[s] = sess[s] /\ pc'[s] = pc[s]
    BY <1>0, <2>1 DEF SessionRec
  <2> QED
    BY <1>0, <2>1, <2>2 DEF WorkerInv
<1>10. ASSUME NEW t \in Starters, RegisterRefused(t) PROVE WorkerInv'
  BY <1>0, <1>10 DEF RegisterRefused, WorkerInv, WorkerLabels
<1>11. ASSUME NEW t \in Starters, ReapYtdlp(t) PROVE WorkerInv'
  BY <1>0, <1>11 DEF ReapYtdlp, Forget, WorkerInv, WorkerLabels
<1>12. ASSUME NEW t \in Cancellers, CancelCall(t) PROVE WorkerInv'
  <2>1. CancelLooks(t) /\ UNCHANGED <<slot, finalizing, counter, startup, conv, own,
  called>>
    BY <1>12, CancelCallLooks
  <2>2. pc[t] = "idle"
    BY <1>12 DEF CancelCall
  <2> QED
    BY <1>0, <2>1, <2>2, ZenonT(60) DEF CancelLooks, WorkerInv, WorkerLabels
<1>13. ASSUME NEW t \in Cancellers, CancelReturn(t) PROVE WorkerInv'
  BY <1>0, <1>13 DEF CancelReturn, WorkerInv, WorkerLabels
<1>14. ASSUME NEW t \in Starters \cup Cancellers, CancelKill(t) PROVE WorkerInv'
  BY <1>0, <1>14 DEF CancelKill, WorkerInv, WorkerLabels
<1>15. ASSUME NEW t \in Starters \cup Cancellers, WaitSlot(t) PROVE WorkerInv'
  BY <1>0, <1>15 DEF WaitSlot, WorkerInv, WorkerLabels
<1>16. ASSUME NEW t \in Starters \cup Cancellers, WaitFinal(t) PROVE WorkerInv'
  BY <1>0, <1>16 DEF WaitFinal, WorkerInv, WorkerLabels
<1>17. ASSUME NEW t \in Threads, CompleteTake(t) PROVE WorkerInv'
  <2>1. CASE slot = sid[t]
    <3>1. pc' = [pc EXCEPT ![t] = "publish"] /\ sess' = sess /\ pc[t] = "complete"
      BY <1>17, <2>1 DEF CompleteTake
    <3>2. \A s \in Sessions : pc[s] \in WorkerLabels => s = t
      BY <1>0, <2>1, <3>1 DEF IInv, WorkerInv, HandoverInv, SidInv
    <3>3. \A s \in Sessions : pc'[s] \notin WorkerLabels
      BY <1>0, <3>1, <3>2 DEF WorkerLabels
    <3> QED
      BY <3>3 DEF WorkerInv
  <2>2. CASE slot # sid[t]
    <3>1. pc' = [pc EXCEPT ![t] = Continuation(t)] /\ UNCHANGED <<sess, slot>>
      BY <1>17, <2>2 DEF CompleteTake
    <3>2. Continuation(t) \notin WorkerLabels
      BY DEF Continuation, WorkerLabels
    <3> QED
      BY <1>0, <3>1, <3>2 DEF WorkerInv
  <2> QED
    BY <2>1, <2>2
<1>18. ASSUME NEW t \in Threads, CompletePublish(t) PROVE WorkerInv'
  BY <1>0, <1>18 DEF CompletePublish, WorkerInv, WorkerLabels
<1>19. ASSUME NEW t \in Threads, CompleteCallback(t) PROVE WorkerInv'
  BY <1>0, <1>19 DEF CompleteCallback, WorkerInv, WorkerLabels
<1>20. ASSUME NEW t \in Threads, CompleteFinish(t) PROVE WorkerInv'
  <2>1. /\ sid[t] \in Sessions /\ pc[sid[t]] \notin WorkerLabels
    BY <1>20, FinishedIdle DEF CompleteFinish, Taken
  <2>2. /\ pc' = [pc EXCEPT ![t] = Continuation(t)] /\ UNCHANGED slot
        /\ \A s \in Sessions : s # sid[t] => sess'[s] = sess[s] /\ conv'[s] = conv[s]
    BY <1>0, <1>20, <2>1 DEF CompleteFinish
  <2>3. Continuation(t) \notin WorkerLabels
    BY DEF Continuation, WorkerLabels
  <2> QED
    BY <1>0, <2>1, <2>2, <2>3 DEF WorkerInv
<1>21. ASSUME NEW t \in Sessions, YtdlpExits(t) PROVE WorkerInv'
  BY <1>0, <1>21 DEF YtdlpExits, WorkerInv, WorkerLabels
<1>22. ASSUME NEW t \in Sessions, Progress(t) PROVE WorkerInv'
  BY <1>0, <1>22 DEF Progress, WorkerInv, WorkerLabels
<1>23. ASSUME NEW t \in Sessions, WorkerStep(t) PROVE WorkerInv'
  <2>1. WorkerMoves(t)
    BY <1>23, WorkerStepMoves
  <2>2. PICK label \in WorkerLabels : pc' = [pc EXCEPT ![t] = label]
    BY <2>1 DEF WorkerMoves
  <2>3. pc[t] \in WorkerLabels /\ UNCHANGED slot /\ SessionKept
    BY <2>1 DEF WorkerMoves
  <2> QED
    BY <1>0, <2>2, <2>3 DEF WorkerInv, SessionKept
<1>24. CASE UNCHANGED vars
  BY <1>0, <1>24 DEF vars, WorkerInv, WorkerLabels
<1> QED
  BY <1>1, <1>2, <1>3, <1>4, <1>5, <1>6, <1>7, <1>8, <1>9, <1>10, <1>11, <1>12,
     <1>13, <1>14, <1>15, <1>16, <1>17, <1>18, <1>19, <1>20, <1>21, <1>22, <1>23, <1>24
     DEF Next, StartStep, CancelStep, CompleteStep

\* Every step keeps ConversionInv.
LEMMA ConversionStep == ASSUME IInv, [Next]_vars PROVE ConversionInv'
<1> USE SessionAssumption DEF Goto, locks, procs, locals, history
<1>0. /\ ConversionInv /\ pc \in [Threads -> Labels] /\ sid \in [Threads -> 0 .. MaxSessions]
      /\ sess \in [Sessions -> SessionRec] /\ conv \in [Sessions -> ConversionRec]
      /\ Threads = Starters \cup Cancellers \cup Sessions
      /\ \A s \in Sessions : s \notin Starters \cup Cancellers /\ s \in Nat
  BY Basics DEF IInv, TypeOK
<1>b. \A t \in Starters : pc[t] = "register" => sid[t] \in Sessions
  BY Basics DEF IInv, SidInv

<1>1. ASSUME NEW t \in Starters, StartCall(t) PROVE ConversionInv'
  BY <1>0, <1>1 DEF StartCall, ConversionInv, ConvertingLabels
<1>2. ASSUME NEW t \in Starters, StartConflict(t) PROVE ConversionInv'
  BY <1>0, <1>2 DEF StartConflict, ConversionInv, ConvertingLabels
<1>3. ASSUME NEW t \in Starters, StartExisting(t) PROVE ConversionInv'
  BY <1>0, <1>3 DEF StartExisting, ConversionInv, ConvertingLabels
<1>4. ASSUME NEW t \in Starters, StartReplace(t) PROVE ConversionInv'
  <2>1. CancelLooks(t) /\ UNCHANGED <<slot, finalizing, counter, startup, conv, own,
  called>>
    BY <1>4, StartReplaceLooks
  <2>2. pc[t] = "replace"
    BY <1>4 DEF StartReplace
  <2> QED
    BY <1>0, <2>1, <2>2 DEF CancelLooks, ConversionInv, ConvertingLabels
<1>5. ASSUME NEW t \in Starters, Install(t) PROVE ConversionInv'
  BY <1>0, <1>5 DEF Install, ConversionInv, ConvertingLabels
<1>6. ASSUME NEW t \in Starters, SetupFails(t) PROVE ConversionInv'
  BY <1>0, <1>6 DEF SetupFails, Report, ConversionInv, ConvertingLabels
<1>7. ASSUME NEW t \in Starters, SetupAbandoned(t) PROVE ConversionInv'
  BY <1>0, <1>7 DEF SetupAbandoned, Forget, ConversionInv, ConvertingLabels
<1>8. ASSUME NEW t \in Starters, SpawnYtdlp(t) PROVE ConversionInv'
  BY <1>0, <1>8 DEF SpawnYtdlp, ConversionInv, ConvertingLabels
<1>9. ASSUME NEW t \in Starters, RegisterYtdlp(t) PROVE ConversionInv'
  BY <1>0, <1>b, <1>9 DEF RegisterYtdlp, Forget, ConversionInv, ConvertingLabels
<1>10. ASSUME NEW t \in Starters, RegisterRefused(t) PROVE ConversionInv'
  BY <1>0, <1>10 DEF RegisterRefused, ConversionInv, ConvertingLabels
<1>11. ASSUME NEW t \in Starters, ReapYtdlp(t) PROVE ConversionInv'
  BY <1>0, <1>11 DEF ReapYtdlp, Forget, ConversionInv, ConvertingLabels
<1>12. ASSUME NEW t \in Cancellers, CancelCall(t) PROVE ConversionInv'
  <2>1. CancelLooks(t) /\ UNCHANGED <<slot, finalizing, counter, startup, conv, own,
  called>>
    BY <1>12, CancelCallLooks
  <2>2. pc[t] = "idle"
    BY <1>12 DEF CancelCall
  <2> QED
    BY <1>0, <2>1, <2>2 DEF CancelLooks, ConversionInv, ConvertingLabels
<1>13. ASSUME NEW t \in Cancellers, CancelReturn(t) PROVE ConversionInv'
  BY <1>0, <1>13 DEF CancelReturn, ConversionInv, ConvertingLabels
<1>14. ASSUME NEW t \in Starters \cup Cancellers, CancelKill(t) PROVE ConversionInv'
  BY <1>0, <1>14 DEF CancelKill, ConversionInv, ConvertingLabels
<1>15. ASSUME NEW t \in Starters \cup Cancellers, WaitSlot(t) PROVE ConversionInv'
  BY <1>0, <1>15 DEF WaitSlot, ConversionInv, ConvertingLabels
<1>16. ASSUME NEW t \in Starters \cup Cancellers, WaitFinal(t) PROVE ConversionInv'
  BY <1>0, <1>16 DEF WaitFinal, ConversionInv, ConvertingLabels
<1>17. ASSUME NEW t \in Threads, CompleteTake(t) PROVE ConversionInv'
  BY <1>0, <1>17, ZenonT(60) DEF CompleteTake, Forget, Continuation, ConversionInv, ConvertingLabels
<1>18. ASSUME NEW t \in Threads, CompletePublish(t) PROVE ConversionInv'
  BY <1>0, <1>18 DEF CompletePublish, ConversionInv, ConvertingLabels
<1>19. ASSUME NEW t \in Threads, CompleteCallback(t) PROVE ConversionInv'
  BY <1>0, <1>19 DEF CompleteCallback, ConversionInv, ConvertingLabels
<1>20. ASSUME NEW t \in Threads, CompleteFinish(t) PROVE ConversionInv'
  <2>1. /\ sid[t] \in Sessions /\ pc[sid[t]] \notin WorkerLabels
    BY <1>20, FinishedIdle DEF CompleteFinish, Taken
  <2>2. /\ pc' = [pc EXCEPT ![t] = Continuation(t)] /\ UNCHANGED slot
        /\ \A s \in Sessions : s # sid[t] => sess'[s] = sess[s] /\ conv'[s] = conv[s]
    BY <1>0, <1>20, <2>1 DEF CompleteFinish
  <2>3. Continuation(t) \notin WorkerLabels
    BY DEF Continuation, WorkerLabels
  <2> QED
    BY <1>0, <2>1, <2>2, <2>3 DEF ConversionInv, ConvertingLabels, WorkerLabels
<1>21. ASSUME NEW t \in Sessions, YtdlpExits(t) PROVE ConversionInv'
  BY <1>0, <1>21 DEF YtdlpExits, ConversionInv, ConvertingLabels
<1>22. ASSUME NEW t \in Sessions, Progress(t) PROVE ConversionInv'
  BY <1>0, <1>22 DEF Progress, ConversionInv, ConvertingLabels
<1>23. ASSUME NEW t \in Sessions, WorkerStep(t) PROVE ConversionInv'
  <2>1. WorkerMoves(t)
    BY <1>23, WorkerStepMoves
  <2>2. PICK label \in WorkerLabels : pc' = [pc EXCEPT ![t] = label]
    BY <2>1 DEF WorkerMoves
  <2> QED
    BY <1>0, <2>1, <2>2 DEF WorkerMoves, ConversionInv, ConvertingLabels
<1>24. CASE UNCHANGED vars
  BY <1>0, <1>24 DEF vars, ConversionInv, ConvertingLabels
<1> QED
  BY <1>1, <1>2, <1>3, <1>4, <1>5, <1>6, <1>7, <1>8, <1>9, <1>10, <1>11, <1>12,
     <1>13, <1>14, <1>15, <1>16, <1>17, <1>18, <1>19, <1>20, <1>21, <1>22, <1>23, <1>24
     DEF Next, StartStep, CancelStep, CompleteStep

\* Most steps bring no session into the situations HandoverInv is about.
LEMMA HandoverKept ==
  ASSUME IInv,
         \A u \in Starters : pc'[u] \in {"setup", "register"} =>
           pc[u] \in {"setup", "register"} /\ sid'[u] = sid[u],
         \A t \in Starters \cup Cancellers : pc'[t] \in {"killComplete", "complete"} =>
           pc[t] \in {"killComplete", "complete"} /\ sid'[t] = sid[t],
         \A s \in Sessions : pc'[s] \in WorkerLabels => pc[s] \in WorkerLabels,
         \A s \in Sessions : sess[s].cancelled => sess'[s].cancelled
  PROVE  HandoverInv'
  BY DEF IInv, HandoverInv

\* Every step keeps HandoverInv.
LEMMA HandoverStep == ASSUME IInv, [Next]_vars PROVE HandoverInv'
<1> USE SessionAssumption DEF Goto, locks, procs, locals, history
<1>0. /\ HandoverInv /\ pc \in [Threads -> Labels] /\ sid \in [Threads -> 0 .. MaxSessions]
      /\ sess \in [Sessions -> SessionRec]
      /\ Threads = Starters \cup Cancellers \cup Sessions
      /\ \A s \in Sessions : s \notin Starters \cup Cancellers /\ s \in Nat
  BY Basics DEF IInv, TypeOK
<1>b. \A t \in Starters : pc[t] = "register" => sid[t] \in Sessions
  BY Basics DEF IInv, SidInv
<1>1. ASSUME NEW t \in Starters, StartCall(t) PROVE HandoverInv'
  BY <1>0, <1>1, HandoverKept DEF StartCall, WorkerLabels
<1>2. ASSUME NEW t \in Starters, StartConflict(t) PROVE HandoverInv'
  BY <1>0, <1>2, HandoverKept DEF StartConflict, WorkerLabels
<1>3. ASSUME NEW t \in Starters, StartExisting(t) PROVE HandoverInv'
  BY <1>0, <1>3, HandoverKept DEF StartExisting, WorkerLabels
<1>4. ASSUME NEW t \in Starters, StartReplace(t) PROVE HandoverInv'
  <2>1. CancelLooks(t)
    BY <1>4, StartReplaceLooks
  <2>2. CASE slot = None /\ pc' = [pc EXCEPT ![t] = "waitFinal"] /\ UNCHANGED <<sess,
  sid>>
    BY <1>0, <2>2, HandoverKept DEF WorkerLabels
  <2>3. CASE slot \in Sessions /\ sid' = [sid EXCEPT ![t] = slot]
             /\ pc' = [pc EXCEPT ![t] = "killWait"]
    <3>1. \A s \in Sessions : sess[s].cancelled => sess'[s].cancelled
      BY <2>1 DEF CancelLooks
    <3> QED
      BY <1>0, <2>3, <3>1, HandoverKept DEF WorkerLabels
  <2>4. CASE /\ slot \in Sessions /\ sid' = [sid EXCEPT ![t] = slot] /\ sess'[slot].cancelled
             /\ pc' = [pc EXCEPT ![t] = "killComplete"]
             /\ ~(sess[slot].exitPending \/ sess[slot].convPending)
    <3>1. \A s \in Sessions : sess[s].cancelled => sess'[s].cancelled
      BY <2>1 DEF CancelLooks
    <3>2. pc[slot] \notin WorkerLabels
      BY <2>4 DEF IInv, WorkerInv
    <3>3. /\ pc'[t] = "killComplete" /\ sid'[t] = slot
          /\ \A u \in Threads : u # t => pc'[u] = pc[u] /\ sid'[u] = sid[u]
          /\ \A s \in Sessions : s # t
      BY <1>0, <2>4
    <3> QED
      BY <1>0, <2>4, <3>1, <3>2, <3>3 DEF HandoverInv
  <2> QED
    BY <2>1, <2>2, <2>3, <2>4 DEF CancelLooks
<1>5. ASSUME NEW t \in Starters, Install(t) PROVE HandoverInv'
  <2>1. /\ pc' = [pc EXCEPT ![t] = "setup"] /\ sid' = [sid EXCEPT ![t] = counter']
        /\ sess' = [sess EXCEPT ![counter'] = NewSession(own)] /\ counter' = counter + 1
    BY <1>5 DEF Install
  <2>2. /\ \A s \in Sessions : pc[s] \notin WorkerLabels
        /\ \A u \in Threads : sid[u] # counter'
    BY <1>0, <1>5, <2>1, Basics DEF Install, IInv, StartupInv, StartLabels, WorkerInv,
         SidInv
  <2>3. /\ sid'[t] = counter' /\ pc'[t] = "setup"
        /\ \A u \in Threads : u # t => pc'[u] = pc[u] /\ sid'[u] = sid[u]
        /\ \A s \in Sessions : s # t /\ (s # counter' => sess'[s] = sess[s])
    BY <1>0, <2>1
  <2>4. \A s \in Sessions : pc'[s] \notin WorkerLabels
    BY <1>0, <2>2, <2>3
  <2> QED
    BY <1>0, <2>2, <2>3, <2>4 DEF HandoverInv
<1>6. ASSUME NEW t \in Starters, SetupFails(t) PROVE HandoverInv'
  <2>1. /\ pc[t] = "setup" /\ pc' = [pc EXCEPT ![t] = "complete"] /\ sess' = sess
        /\ sid' = [sid EXCEPT ![t] = sid[t]]
    BY <1>6 DEF SetupFails, Report
  <2>2. \A u \in Starters : pc[u] \in {"setup", "register"} => u = t
    BY <2>1 DEF IInv, StartupInv, StartLabels
  <2>3. /\ pc'[t] = "complete" /\ sid' = sid
        /\ \A u \in Threads : u # t => pc'[u] = pc[u]
        /\ \A s \in Sessions : s # t
    BY <1>0, <2>1
  <2> QED
    BY <1>0, <2>1, <2>2, <2>3 DEF HandoverInv
<1>7. ASSUME NEW t \in Starters, SetupAbandoned(t) PROVE HandoverInv'
  BY <1>0, <1>7, HandoverKept DEF SetupAbandoned, Forget, WorkerLabels
<1>8. ASSUME NEW t \in Starters, SpawnYtdlp(t) PROVE HandoverInv'
  BY <1>0, <1>8, HandoverKept DEF SpawnYtdlp, WorkerLabels
<1>9. ASSUME NEW t \in Starters, RegisterYtdlp(t) PROVE HandoverInv'
  <2>1. /\ sid[t] \in Sessions /\ t \notin Sessions /\ pc[t] = "register"
        /\ pc' = [pc EXCEPT ![t] = "idle", ![sid[t]] = "waiting"]
        /\ sess' = [sess EXCEPT ![sid[t]].ytdlp = TRUE, ![sid[t]].exitPending = TRUE]
        /\ ~sess[sid[t]].cancelled
    BY <1>0, <1>b, <1>9 DEF RegisterYtdlp, ActiveNotCancelled
  <2>2. \A u \in Starters : pc[u] \in {"setup", "register"} => u = t
    BY <2>1 DEF IInv, StartupInv, StartLabels
  <2>3. \A s \in Sessions : sess'[s].cancelled = sess[s].cancelled
    BY <1>0, <2>1 DEF SessionRec
  <2>4. /\ pc'[t] = "idle" /\ pc'[sid[t]] = "waiting"
        /\ \A u \in Threads : u \notin {t, sid[t]} => pc'[u] = pc[u] /\ sid'[u] = sid[u]
    BY <1>0, <1>9, <2>1 DEF RegisterYtdlp, Forget
  <2>5. \A u \in Starters : pc'[u] \notin {"setup", "register"}
    BY <1>0, <2>1, <2>2, <2>4
  <2>6. \A u \in Starters \cup Cancellers : pc[u] \in {"killComplete",
  "complete"} => sid[u] # sid[t]
    BY <1>0, <2>1 DEF HandoverInv
  <2> QED
    BY <1>0, <2>1, <2>4, <2>5, <2>6 DEF HandoverInv
<1>10. ASSUME NEW t \in Starters, RegisterRefused(t) PROVE HandoverInv'
  BY <1>0, <1>10, HandoverKept DEF RegisterRefused, WorkerLabels
<1>11. ASSUME NEW t \in Starters, ReapYtdlp(t) PROVE HandoverInv'
  BY <1>0, <1>11, HandoverKept DEF ReapYtdlp, Forget, WorkerLabels
<1>12. ASSUME NEW t \in Cancellers, CancelCall(t) PROVE HandoverInv'
  <2>1. CancelLooks(t)
    BY <1>12, CancelCallLooks
  <2>2. CASE slot = None /\ pc' = [pc EXCEPT ![t] = "waitFinal"] /\ UNCHANGED <<sess,
  sid>>
    BY <1>0, <2>2, HandoverKept DEF WorkerLabels
  <2>3. CASE slot \in Sessions /\ sid' = [sid EXCEPT ![t] = slot]
             /\ pc' = [pc EXCEPT ![t] = "killWait"]
    <3>1. \A s \in Sessions : sess[s].cancelled => sess'[s].cancelled
      BY <2>1 DEF CancelLooks
    <3> QED
      BY <1>0, <2>3, <3>1, HandoverKept DEF WorkerLabels
  <2>4. CASE /\ slot \in Sessions /\ sid' = [sid EXCEPT ![t] = slot] /\ sess'[slot].cancelled
             /\ pc' = [pc EXCEPT ![t] = "killComplete"]
             /\ ~(sess[slot].exitPending \/ sess[slot].convPending)
    <3>1. \A s \in Sessions : sess[s].cancelled => sess'[s].cancelled
      BY <2>1 DEF CancelLooks
    <3>2. pc[slot] \notin WorkerLabels
      BY <2>4 DEF IInv, WorkerInv
    <3>3. /\ pc'[t] = "killComplete" /\ sid'[t] = slot
          /\ \A u \in Threads : u # t => pc'[u] = pc[u] /\ sid'[u] = sid[u]
          /\ \A s \in Sessions : s # t
      BY <1>0, <2>4
    <3> QED
      BY <1>0, <2>4, <3>1, <3>2, <3>3 DEF HandoverInv
  <2> QED
    BY <2>1, <2>2, <2>3, <2>4 DEF CancelLooks
<1>13. ASSUME NEW t \in Cancellers, CancelReturn(t) PROVE HandoverInv'
  BY <1>0, <1>13, HandoverKept DEF CancelReturn, WorkerLabels
<1>14. ASSUME NEW t \in Starters \cup Cancellers, CancelKill(t) PROVE HandoverInv'
  BY <1>0, <1>14, HandoverKept DEF CancelKill, WorkerLabels
<1>15. ASSUME NEW t \in Starters \cup Cancellers, WaitSlot(t) PROVE HandoverInv'
  BY <1>0, <1>15, HandoverKept DEF WaitSlot, WorkerLabels
<1>16. ASSUME NEW t \in Starters \cup Cancellers, WaitFinal(t) PROVE HandoverInv'
  BY <1>0, <1>16, HandoverKept DEF WaitFinal, WorkerLabels
<1>17. ASSUME NEW t \in Threads, CompleteTake(t) PROVE HandoverInv'
  <2>1. /\ pc[t] = "complete" /\ sess' = sess
        /\ pc' = [pc EXCEPT ![t] = "publish"] \/ pc' = [pc EXCEPT ![t] = Continuation(t)]
        /\ \A u \in Threads : u # t => sid'[u] = sid[u]
    BY <1>0, <1>17 DEF CompleteTake, Forget
  <2> QED
    BY <1>0, <2>1, HandoverKept DEF Continuation, WorkerLabels
<1>18. ASSUME NEW t \in Threads, CompletePublish(t) PROVE HandoverInv'
  BY <1>0, <1>18, HandoverKept DEF CompletePublish, WorkerLabels
<1>19. ASSUME NEW t \in Threads, CompleteCallback(t) PROVE HandoverInv'
  BY <1>0, <1>19, HandoverKept DEF CompleteCallback, WorkerLabels
<1>20. ASSUME NEW t \in Threads, CompleteFinish(t) PROVE HandoverInv'
  <2>1. sid[t] \in Sessions
    BY <1>20, FinishedIdle DEF CompleteFinish, Taken
  <2>2. /\ pc' = [pc EXCEPT ![t] = Continuation(t)]
        /\ \A u \in Threads : u # t => sid'[u] = sid[u]
        /\ \A s \in Sessions : s # sid[t] => sess'[s] = sess[s]
    BY <1>0, <1>20, <2>1 DEF CompleteFinish, Forget
  <2>3. sess'[sid[t]].cancelled = sess[sid[t]].cancelled
    BY <1>0, <1>20, <2>1 DEF CompleteFinish, NewSession
  <2> QED
    BY <1>0, <2>2, <2>3, HandoverKept DEF Continuation, WorkerLabels
<1>21. ASSUME NEW t \in Sessions, YtdlpExits(t) PROVE HandoverInv'
  BY <1>0, <1>21, HandoverKept DEF YtdlpExits
<1>22. ASSUME NEW t \in Sessions, Progress(t) PROVE HandoverInv'
  BY <1>0, <1>22, HandoverKept DEF Progress
<1>23. ASSUME NEW t \in Sessions, WorkerStep(t) PROVE HandoverInv'
  <2>1. WorkerMoves(t)
    BY <1>23, WorkerStepMoves
  <2>2. PICK label \in WorkerLabels : pc' = [pc EXCEPT ![t] = label]
    BY <2>1 DEF WorkerMoves
  <2>3. /\ pc[t] \in WorkerLabels /\ SessionKept
        /\ sid' = sid \/ sid' = [sid EXCEPT ![t] = t]
    BY <2>1 DEF WorkerMoves
  <2> QED
    BY <1>0, <2>2, <2>3, HandoverKept DEF SessionKept
<1>24. CASE UNCHANGED vars
  BY <1>0, <1>24, HandoverKept DEF vars
<1> QED
  BY <1>1, <1>2, <1>3, <1>4, <1>5, <1>6, <1>7, <1>8, <1>9, <1>10, <1>11, <1>12,
     <1>13, <1>14, <1>15, <1>16, <1>17, <1>18, <1>19, <1>20, <1>21, <1>22, <1>23, <1>24
     DEF Next, StartStep, CancelStep, CompleteStep

\* Most steps leave the completions in progress alone.
LEMMA CallbackKept ==
  ASSUME IInv, UNCHANGED <<slot, counter, finalizing, called>>,
         \A t \in Threads : pc[t] \in Taken \/ pc'[t] \in Taken =>
           pc'[t] = pc[t] /\ sid'[t] = sid[t]
  PROVE  CallbackInv'
<1>1. /\ \A s \in Sessions :
           /\ slot' = s \/ s > counter' => called'[s] = 0 /\ s \notin finalizing'
           /\ s <= counter' /\ slot' # s /\ s \notin finalizing' => called'[s] = 1
  BY DEF IInv, CallbackInv
<1>2. \A t \in Threads : pc'[t] \in Taken =>
        /\ sid'[t] \in finalizing'
        /\ called'[sid'[t]] = IF pc'[t] = "calling" THEN 1 ELSE 0
  BY DEF IInv, CallbackInv
<1>3. \A s \in finalizing' : \E t \in Threads : pc'[t] \in Taken /\ sid'[t] = s
  BY DEF IInv, CallbackInv
<1>4. \A t, u \in Threads :
        pc'[t] \in Taken /\ pc'[u] \in Taken /\ sid'[t] = sid'[u] => t = u
  BY DEF IInv, CallbackInv
<1> QED
  BY <1>1, <1>2, <1>3, <1>4 DEF CallbackInv

\* Every step keeps CallbackInv.
LEMMA CallbackStep == ASSUME IInv, [Next]_vars PROVE CallbackInv'
<1> USE SessionAssumption DEF Goto, locks, procs, locals, history
<1>0. /\ CallbackInv /\ pc \in [Threads -> Labels] /\ sid \in [Threads -> 0 .. MaxSessions]
      /\ called \in [Sessions -> Nat]
      /\ Threads = Starters \cup Cancellers \cup Sessions
      /\ \A s \in Sessions : s \notin Starters \cup Cancellers /\ s \in Nat
      /\ counter \in Nat /\ slot \in Nat /\ finalizing \subseteq Sessions
  BY Basics DEF IInv, TypeOK
<1>b. \A t \in Starters : pc[t] = "register" =>
        /\ sid[t] \in Sessions /\ pc[sid[t]] \notin WorkerLabels
        /\ slot = sid[t] => pc[sid[t]] \notin Taken
  <2>1. \A t \in Starters : pc[t] = "register" => sid[t] \in Sessions
    BY Basics DEF IInv, SidInv
  <2>2. \A t \in Starters : pc[t] = "register" => pc[sid[t]] \notin WorkerLabels
    BY <2>1 DEF IInv, HandoverInv
  <2>3. \A s \in Sessions : pc[s] \in Taken => slot # s
    BY <1>0, FinishedIdle DEF IInv, SidInv
  <2> QED
    BY <2>1, <2>2, <2>3
<1>1. ASSUME NEW t \in Starters, StartCall(t) PROVE CallbackInv'
  BY <1>0, <1>1, CallbackKept DEF StartCall, Taken
<1>2. ASSUME NEW t \in Starters, StartConflict(t) PROVE CallbackInv'
  BY <1>0, <1>2, CallbackKept DEF StartConflict, Taken
<1>3. ASSUME NEW t \in Starters, StartExisting(t) PROVE CallbackInv'
  BY <1>0, <1>3, CallbackKept DEF StartExisting, Taken
<1>4. ASSUME NEW t \in Starters, StartReplace(t) PROVE CallbackInv'
  <2>1. CancelLooks(t) /\ UNCHANGED <<slot, finalizing, counter, startup, conv, own,
  called>>
    BY <1>4, StartReplaceLooks
  <2>2. pc[t] = "replace"
    BY <1>4 DEF StartReplace
  <2>3. /\ pc'[t] \in {"waitFinal", "killWait", "killComplete"}
        /\ \A u \in Threads : u # t => pc'[u] = pc[u] /\ sid'[u] = sid[u]
    BY <1>0, <2>1 DEF CancelLooks
  <2> QED
    BY <2>1, <2>2, <2>3, CallbackKept DEF Taken
<1>5. ASSUME NEW t \in Starters, Install(t) PROVE CallbackInv'
  <2>1. /\ slot = None /\ slot' = counter + 1 /\ counter' = counter + 1
        /\ pc[t] = "install" /\ pc' = [pc EXCEPT ![t] = "setup"]
        /\ sid' = [sid EXCEPT ![t] = counter'] /\ UNCHANGED <<called, finalizing>>
    BY <1>5 DEF Install, IInv, StartupInv, StartLabels
  <2>2. \A u \in Threads : pc'[u] \in Taken => pc[u] \in Taken /\ pc'[u] = pc[u] /\ sid'[u] = sid[u]
    BY <1>0, <2>1 DEF Taken
  <2>3. \A u \in Threads : pc[u] \in Taken => pc'[u] \in Taken /\ sid'[u] = sid[u]
    BY <1>0, <2>1 DEF Taken
  <2>4. \A s \in Sessions :
          /\ slot' = s \/ s > counter' => called'[s] = 0 /\ s \notin finalizing'
          /\ s <= counter' /\ slot' # s /\ s \notin finalizing' => called'[s] = 1
    BY <1>0, <2>1, Basics DEF CallbackInv, None
  <2>5. \A u \in Threads : pc'[u] \in Taken =>
          /\ sid'[u] \in finalizing'
          /\ called'[sid'[u]] = IF pc'[u] = "calling" THEN 1 ELSE 0
    BY <1>0, <2>1, <2>2 DEF CallbackInv
  <2>6. \A s \in finalizing' : \E u \in Threads : pc'[u] \in Taken /\ sid'[u] = s
    BY <1>0, <2>1, <2>3 DEF CallbackInv
  <2>7. \A v, u \in Threads :
          pc'[v] \in Taken /\ pc'[u] \in Taken /\ sid'[v] = sid'[u] => v = u
    BY <1>0, <2>2 DEF CallbackInv
  <2> QED
    BY <2>4, <2>5, <2>6, <2>7 DEF CallbackInv
<1>6. ASSUME NEW t \in Starters, SetupFails(t) PROVE CallbackInv'
  BY <1>0, <1>6, CallbackKept DEF SetupFails, Report, Taken
<1>7. ASSUME NEW t \in Starters, SetupAbandoned(t) PROVE CallbackInv'
  BY <1>0, <1>7, CallbackKept DEF SetupAbandoned, Forget, Taken
<1>8. ASSUME NEW t \in Starters, SpawnYtdlp(t) PROVE CallbackInv'
  BY <1>0, <1>8, CallbackKept DEF SpawnYtdlp, Taken
<1>9. ASSUME NEW t \in Starters, RegisterYtdlp(t) PROVE CallbackInv'
  <2>1. /\ sid[t] \in Sessions /\ t \notin Sessions /\ pc[t] = "register"
        /\ pc' = [pc EXCEPT ![t] = "idle", ![sid[t]] = "waiting"]
        /\ pc[sid[t]] \notin Taken
        /\ UNCHANGED <<slot, counter, finalizing, called>>
    BY <1>0, <1>b, <1>9 DEF RegisterYtdlp, ActiveNotCancelled
  <2>2. /\ pc'[t] = "idle" /\ pc'[sid[t]] = "waiting"
        /\ \A u \in Threads : u \notin {t, sid[t]} => pc'[u] = pc[u] /\ sid'[u] = sid[u]
    BY <1>0, <1>9, <2>1 DEF RegisterYtdlp, Forget
  <2> QED
    BY <2>1, <2>2, CallbackKept DEF Taken
<1>10. ASSUME NEW t \in Starters, RegisterRefused(t) PROVE CallbackInv'
  BY <1>0, <1>10, CallbackKept DEF RegisterRefused, Taken
<1>11. ASSUME NEW t \in Starters, ReapYtdlp(t) PROVE CallbackInv'
  BY <1>0, <1>11, CallbackKept DEF ReapYtdlp, Forget, Taken
<1>12. ASSUME NEW t \in Cancellers, CancelCall(t) PROVE CallbackInv'
  <2>1. CancelLooks(t) /\ UNCHANGED <<slot, finalizing, counter, startup, conv, own,
  called>>
    BY <1>12, CancelCallLooks
  <2>2. pc[t] = "idle"
    BY <1>12 DEF CancelCall
  <2>3. /\ pc'[t] \in {"waitFinal", "killWait", "killComplete"}
        /\ \A u \in Threads : u # t => pc'[u] = pc[u] /\ sid'[u] = sid[u]
    BY <1>0, <2>1 DEF CancelLooks
  <2> QED
    BY <2>1, <2>2, <2>3, CallbackKept DEF Taken
<1>13. ASSUME NEW t \in Cancellers, CancelReturn(t) PROVE CallbackInv'
  BY <1>0, <1>13, CallbackKept DEF CancelReturn, Taken
<1>14. ASSUME NEW t \in Starters \cup Cancellers, CancelKill(t) PROVE CallbackInv'
  BY <1>0, <1>14, CallbackKept DEF CancelKill, Taken
<1>15. ASSUME NEW t \in Starters \cup Cancellers, WaitSlot(t) PROVE CallbackInv'
  BY <1>0, <1>15, CallbackKept DEF WaitSlot, Taken
<1>16. ASSUME NEW t \in Starters \cup Cancellers, WaitFinal(t) PROVE CallbackInv'
  BY <1>0, <1>16, CallbackKept DEF WaitFinal, Taken
<1>17. ASSUME NEW t \in Threads, CompleteTake(t) PROVE CallbackInv'
  <2>1. CASE slot = sid[t]
    <3>1. /\ pc[t] = "complete" /\ pc' = [pc EXCEPT ![t] = "publish"] /\ sid' = sid
          /\ slot' = None /\ finalizing' = finalizing \cup {slot}
          /\ UNCHANGED <<counter, called>>
      BY <1>17, <2>1 DEF CompleteTake
    <3>2. slot \in Sessions /\ called[slot] = 0 /\ slot \notin finalizing
      BY <1>0, <2>1, <3>1, Basics DEF IInv, SidInv, CallbackInv
    <3>3. /\ pc'[t] = "publish"
          /\ \A u \in Threads : u # t => pc'[u] = pc[u]
      BY <1>0, <3>1
    <3>4. \A s \in Sessions :
            /\ slot' = s \/ s > counter' => called'[s] = 0 /\ s \notin finalizing'
            /\ s <= counter' /\ slot' # s /\ s \notin finalizing' => called'[s] = 1
      BY <1>0, <3>1, <3>2, Basics DEF CallbackInv, None
    <3>5. \A u \in Threads : pc'[u] \in Taken =>
            /\ sid'[u] \in finalizing'
            /\ called'[sid'[u]] = IF pc'[u] = "calling" THEN 1 ELSE 0
      BY <1>0, <2>1, <3>1, <3>2, <3>3 DEF CallbackInv
    <3>6. \A s \in finalizing' : \E u \in Threads : pc'[u] \in Taken /\ sid'[u] = s
      BY <1>0, <2>1, <3>1, <3>3 DEF CallbackInv, Taken
    <3>7. \A v, u \in Threads :
            pc'[v] \in Taken /\ pc'[u] \in Taken /\ sid'[v] = sid'[u] => v = u
      BY <1>0, <2>1, <3>1, <3>2, <3>3 DEF CallbackInv
    <3> QED
      BY <3>4, <3>5, <3>6, <3>7 DEF CallbackInv
  <2>2. CASE slot # sid[t]
    <3>1. /\ pc[t] = "complete" /\ pc' = [pc EXCEPT ![t] = Continuation(t)]
          /\ \A u \in Threads : u # t => sid'[u] = sid[u]
          /\ UNCHANGED <<slot, counter, finalizing, called>>
      BY <1>0, <1>17, <2>2 DEF CompleteTake, Forget
    <3> QED
      BY <1>0, <3>1, CallbackKept DEF Continuation, Taken
  <2> QED
    BY <2>1, <2>2
<1>18. ASSUME NEW t \in Threads, CompletePublish(t) PROVE CallbackInv'
  <2>1. /\ pc[t] = "publish" /\ pc' = [pc EXCEPT ![t] = "callback"] /\ sid' = sid
        /\ UNCHANGED <<slot, counter, finalizing, called>>
    BY <1>18 DEF CompletePublish
  <2>2. /\ pc'[t] = "callback" /\ "callback" \in Taken /\ "publish" \in Taken
        /\ \A u \in Threads : u # t => pc'[u] = pc[u]
    BY <1>0, <2>1 DEF Taken
  <2> QED
    BY <1>0, <2>1, <2>2 DEF CallbackInv
<1>19. ASSUME NEW t \in Threads, CompleteCallback(t) PROVE CallbackInv'
  <2>1. /\ pc[t] = "callback" /\ pc' = [pc EXCEPT ![t] = "calling"] /\ sid' = sid
        /\ called' = [called EXCEPT ![sid[t]] = called[sid[t]] + 1]
        /\ UNCHANGED <<slot, counter, finalizing>>
    BY <1>19 DEF CompleteCallback
  <2>2. /\ pc'[t] = "calling" /\ "callback" \in Taken /\ "calling" \in Taken
        /\ \A u \in Threads : u # t => pc'[u] = pc[u]
    BY <1>0, <2>1 DEF Taken
  <2>3. /\ sid[t] \in Sessions /\ sid[t] \in finalizing /\ slot # sid[t]
        /\ called[sid[t]] = 0 /\ ~(sid[t] > counter)
    BY <1>0, <2>1, <2>2, FinishedIdle DEF CallbackInv
  <2>4. /\ called'[sid[t]] = 1
        /\ \A s \in Sessions : s # sid[t] => called'[s] = called[s]
    BY <1>0, <2>1, <2>3
  <2>5. \A s \in Sessions :
          /\ slot' = s \/ s > counter' => called'[s] = 0 /\ s \notin finalizing'
          /\ s <= counter' /\ slot' # s /\ s \notin finalizing' => called'[s] = 1
    BY <1>0, <2>1, <2>3, <2>4 DEF CallbackInv
  <2>6. \A u \in Threads : pc'[u] \in Taken =>
          /\ sid'[u] \in finalizing'
          /\ called'[sid'[u]] = IF pc'[u] = "calling" THEN 1 ELSE 0
    BY <1>0, <2>1, <2>2, <2>3, <2>4 DEF CallbackInv
  <2>7. /\ \A s \in finalizing' : \E u \in Threads : pc'[u] \in Taken /\ sid'[u] = s
        /\ \A v, u \in Threads :
             pc'[v] \in Taken /\ pc'[u] \in Taken /\ sid'[v] = sid'[u] => v = u
    BY <1>0, <2>1, <2>2 DEF CallbackInv
  <2> QED
    BY <2>5, <2>6, <2>7 DEF CallbackInv
<1>20. ASSUME NEW t \in Threads, CompleteFinish(t) PROVE CallbackInv'
  <2>1. /\ pc[t] = "calling" /\ pc' = [pc EXCEPT ![t] = Continuation(t)]
        /\ finalizing' = finalizing \ {sid[t]}
        /\ \A u \in Threads : u # t => sid'[u] = sid[u]
        /\ UNCHANGED <<slot, counter, called>>
    BY <1>0, <1>20 DEF CompleteFinish, Forget
  <2>2. /\ pc'[t] \notin Taken /\ "calling" \in Taken
        /\ \A u \in Threads : u # t => pc'[u] = pc[u]
    BY <1>0, <2>1 DEF Taken, Continuation
  <2>3. sid[t] \in Sessions /\ called[sid[t]] = 1
    BY <1>0, <2>1, <2>2, FinishedIdle DEF CallbackInv
  <2>4. \A s \in Sessions :
          /\ slot' = s \/ s > counter' => called'[s] = 0 /\ s \notin finalizing'
          /\ s <= counter' /\ slot' # s /\ s \notin finalizing' => called'[s] = 1
    BY <1>0, <2>1, <2>3 DEF CallbackInv
  <2>5. \A u \in Threads : pc'[u] \in Taken =>
          /\ sid'[u] \in finalizing'
          /\ called'[sid'[u]] = IF pc'[u] = "calling" THEN 1 ELSE 0
    BY <1>0, <2>1, <2>2 DEF CallbackInv
  <2>6. \A s \in finalizing' : \E u \in Threads : pc'[u] \in Taken /\ sid'[u] = s
    BY <1>0, <2>1, <2>2 DEF CallbackInv
  <2>7. \A v, u \in Threads :
          pc'[v] \in Taken /\ pc'[u] \in Taken /\ sid'[v] = sid'[u] => v = u
    BY <1>0, <2>1, <2>2 DEF CallbackInv
  <2> QED
    BY <2>4, <2>5, <2>6, <2>7 DEF CallbackInv
<1>21. ASSUME NEW t \in Sessions, YtdlpExits(t) PROVE CallbackInv'
  BY <1>0, <1>21, CallbackKept DEF YtdlpExits
<1>22. ASSUME NEW t \in Sessions, Progress(t) PROVE CallbackInv'
  BY <1>0, <1>22, CallbackKept DEF Progress
<1>23. ASSUME NEW t \in Sessions, WorkerStep(t) PROVE CallbackInv'
  <2>1. WorkerMoves(t)
    BY <1>23, WorkerStepMoves
  <2>2. PICK label \in WorkerLabels : pc' = [pc EXCEPT ![t] = label]
    BY <2>1 DEF WorkerMoves
  <2>3. /\ pc[t] \notin Taken /\ pc'[t] \notin Taken
        /\ \A u \in Threads : u # t => pc'[u] = pc[u] /\ sid'[u] = sid[u]
    BY <1>0, <2>1, <2>2 DEF WorkerMoves, WorkerLabels, Taken
  <2> QED
    BY <2>1, <2>3, CallbackKept DEF WorkerMoves
<1>24. CASE UNCHANGED vars
  BY <1>0, <1>24, CallbackKept DEF vars
<1> QED
  BY <1>1, <1>2, <1>3, <1>4, <1>5, <1>6, <1>7, <1>8, <1>9, <1>10, <1>11, <1>12,
     <1>13, <1>14, <1>15, <1>16, <1>17, <1>18, <1>19, <1>20, <1>21, <1>22, <1>23, <1>24
     DEF Next, StartStep, CancelStep, CompleteStep

-----------------------------------------------------------------------------
\* Every step keeps the invariant.
LEMMA IInvStep == IInv /\ [Next]_vars => IInv'
  BY TypeStep, LabelStep, SidStep, StartupStep, WorkerInvStep, ConversionStep,
       HandoverStep,
     CallbackStep DEF IInv

\* In every reachable state the invariant behind the three theorems holds.
THEOREM Invariant == Spec => []IInv
  BY InitIInv, IInvStep, PTL DEF Spec

\* Every variable keeps its type: no thread gets lost between two labels, and
\* the slot holds nothing or an id that COUNTER has handed out.
THEOREM TypeCorrect == Spec => []TypeOK
<1>1. IInv => TypeOK
  BY DEF IInv
<1> QED
  BY <1>1, Invariant, PTL

\* The completion callback of a session runs at most once, never while the
\* session is in the slot, and has run as soon as complete_session is done
\* with the session, whoever completed it.
THEOREM ExactlyOnce == Spec => []CallbackExactlyOnce
<1>1. IInv => CallbackExactlyOnce
  <2> SUFFICES ASSUME IInv, NEW s \in Sessions
               PROVE  /\ called[s] <= 1
                      /\ called[s] = 1 => slot # s
                      /\ s <= counter /\ slot # s /\ s \notin finalizing => called[s] = 1
    BY DEF CallbackExactlyOnce
  <2>0. s \in Nat /\ counter \in Nat /\ CallbackInv
    BY Basics DEF IInv
  <2>1. called[s] = 0 \/ called[s] = 1
    <3>1. CASE s \in finalizing
      BY <2>0, <3>1 DEF CallbackInv
    <3>2. CASE s \notin finalizing
      BY <2>0, <3>2 DEF CallbackInv
    <3> QED
      BY <3>1, <3>2
  <2>2. called[s] = 1 => slot # s
    BY <2>0 DEF CallbackInv
  <2>3. s <= counter /\ slot # s /\ s \notin finalizing => called[s] = 1
    BY <2>0 DEF CallbackInv
  <2> QED
    BY <2>1, <2>2, <2>3
<1> QED
  BY <1>1, Invariant, PTL

\* From the registration of yt-dlp to complete_session a worker finds its own
\* session in the slot: no cancel and no other start takes it away, not even
\* between the download and the conversion.
THEOREM WorkerOwns == Spec => []WorkerOwnsSession
<1>1. IInv => WorkerOwnsSession
  BY DEF IInv, WorkerInv, WorkerOwnsSession
<1> QED
  BY <1>1, Invariant, PTL

-----------------------------------------------------------------------------
(* The slot and its outcomes                                               *)

Completing == {"complete", "killComplete"}

\* A report that complete_session may still make true of the session in the
\* slot.
Honest(t) ==
  /\ report[t].oc \in Outcomes
  /\ report[t].oc = "Cancelled" /\ sid[t] = slot => sess[slot].cancelled

OutcomeInv ==
  /\ \A s \in Sessions : s > counter \/ slot = s => result[s].oc = "none"
  /\ \A t \in Threads : pc[t] \in Completing => Honest(t)

SlotInv == IInv /\ OutcomeInv

-----------------------------------------------------------------------------
(* What the steps do to the sessions their clients see                     *)

\* Owner and cancel flag of every session stay; so do reports on the way.
SeenKept ==
  \A u \in Sessions :
    sess'[u].owner = sess[u].owner /\ sess'[u].cancelled = sess[u].cancelled

\* The steps whose completing threads stay honest because nothing they rely on
\* goes away.
LEMMA HonestKept ==
  ASSUME IInv, OutcomeInv, UNCHANGED <<slot, counter, result>>,
         \A u \in Sessions : sess[u].cancelled => sess'[u].cancelled,
         \A t \in Threads : pc'[t] \in Completing =>
           \/ pc[t] \in Completing /\ sid'[t] = sid[t] /\ report'[t] = report[t]
           \/ /\ report'[t].oc \in Outcomes
              /\ report'[t].oc = "Cancelled" =>
                   sid'[t] \in Sessions /\ sess'[sid'[t]].cancelled
  PROVE  OutcomeInv'
<1>1. \A s \in Sessions : s > counter' \/ slot' = s => result'[s].oc = "none"
  BY DEF OutcomeInv
<1>2. ASSUME NEW t \in Threads, pc'[t] \in Completing PROVE Honest(t)'
  <2>1. CASE pc[t] \in Completing /\ sid'[t] = sid[t] /\ report'[t] = report[t]
    <3>1. sid[t] # None
      BY <2>1 DEF IInv, SidInv, Completing
    <3>2. sid[t] = slot => slot \in Sessions
      BY <3>1, Basics
    <3>3. QED
      BY <2>1, <3>2 DEF OutcomeInv, Honest
  <2>2. CASE /\ report'[t].oc \in Outcomes
             /\ report'[t].oc = "Cancelled" =>
                  sid'[t] \in Sessions /\ sess'[sid'[t]].cancelled
    BY <2>2 DEF Honest
  <2>3. QED
    BY <1>2, <2>1, <2>2
<1>3. QED
  BY <1>1, <1>2 DEF OutcomeInv

\* A worker reports an outcome of its own session, a cancelled one only if it
\* read the flag.
WorkerReports(s) ==
  /\ SeenKept /\ UNCHANGED result
  /\ \A t \in Threads : t # s => pc'[t] = pc[t] /\ sid'[t] = sid[t] /\ report'[t] = report[t]
  /\ pc'[s] = "complete" =>
       /\ sid'[s] = s /\ report'[s].oc \in Outcomes
       /\ report'[s].oc = "Cancelled" => sess'[s].cancelled
  /\ pc'[s] # "killComplete"

\* The fourteen worker actions report like that.
LEMMA WorkerStepReports ==
  ASSUME IInv, NEW s \in Sessions, WorkerStep(s)
  PROVE  WorkerReports(s)
<1> USE DEF Goto, locks, procs, locals, history, SeenKept
<1>0. /\ s \in Threads /\ pc \in [Threads -> Labels] /\ sid \in [Threads -> 0 .. MaxSessions]
      /\ sess \in [Sessions -> SessionRec] /\ report \in [Threads -> ReportRec]
  BY DEF IInv, TypeOK, Threads
<1>1. /\ \A b \in BOOLEAN :
           /\ [sess[s] EXCEPT !.ytdlp = b].owner = sess[s].owner
           /\ [sess[s] EXCEPT !.ytdlp = b].cancelled = sess[s].cancelled
           /\ [sess[s] EXCEPT !.ffmpeg = b].owner = sess[s].owner
           /\ [sess[s] EXCEPT !.ffmpeg = b].cancelled = sess[s].cancelled
           /\ [sess[s] EXCEPT !.partial = b].owner = sess[s].owner
           /\ [sess[s] EXCEPT !.partial = b].cancelled = sess[s].cancelled
      /\ [sess[s] EXCEPT !.exitPending = FALSE, !.convPending = TRUE].owner = sess[s].owner
      /\ [sess[s] EXCEPT !.exitPending = FALSE, !.convPending = TRUE].cancelled
           = sess[s].cancelled
  BY <1>0 DEF SessionRec
<1>2. ASSUME NEW oc \in Outcomes, NEW show, Report(s, s, oc, show), SeenKept, UNCHANGED result,
             oc = "Cancelled" => sess[s].cancelled
      PROVE  WorkerReports(s)
  BY <1>0, <1>2 DEF Report, WorkerReports
<1>3. ASSUME BatchCancelled(s), sess[s].cancelled, SeenKept, UNCHANGED result
      PROVE  WorkerReports(s)
  BY <1>2, <1>3 DEF BatchCancelled, Outcomes
<1>4. ASSUME NEW label, label \notin Completing, Goto(s, label), SeenKept, UNCHANGED result,
             \A t \in Threads : t # s => report'[t] = report[t], UNCHANGED sid
      PROVE  WorkerReports(s)
  BY <1>0, <1>4 DEF WorkerReports, Completing
<1>5. ASSUME NEW failed \in BOOLEAN, NextFile(s, failed), SeenKept,
             UNCHANGED <<result, report, sid>>
      PROVE  WorkerReports(s)
  BY <1>4, <1>5 DEF NextFile, Completing
<1>6. ASSUME ExitSeen(s) PROVE WorkerReports(s)
  <2>1. SeenKept
    BY <1>0, <1>1, <1>6 DEF ExitSeen
  <2>2. UNCHANGED result
    BY <1>6 DEF ExitSeen
  <2>3. CASE sess[s].cancelled
    BY <1>2, <1>6, <2>1, <2>2, <2>3 DEF ExitSeen, Outcomes
  <2>4. CASE ~sess[s].cancelled
    <3>1. /\ Goto(s, "inspect") /\ UNCHANGED sid
          /\ \A t \in Threads : t # s => report'[t] = report[t]
      BY <1>0, <1>6, <2>4 DEF ExitSeen
    <3>2. QED
      BY <1>4, <2>1, <2>2, <3>1 DEF Completing
  <2>5. QED
    BY <2>3, <2>4
<1>7. ASSUME ExitFailed(s) PROVE WorkerReports(s)
  BY <1>2, <1>7 DEF ExitFailed, Outcomes
<1>8. ASSUME ExitUsable(s) PROVE WorkerReports(s)
  <2>1. SeenKept
    BY <1>0, <1>1, <1>8 DEF ExitUsable
  <2>2. QED
    BY <1>4, <1>8, <2>1 DEF ExitUsable, Completing
<1>9. ASSUME InstallFiles(s) PROVE WorkerReports(s)
  BY <1>2, <1>9 DEF InstallFiles, Outcomes
<1>10. ASSUME Handoff(s) PROVE WorkerReports(s)
  <2>1. CASE sess[s].cancelled
    BY <1>2, <1>10, <2>1 DEF Handoff, Outcomes
  <2>2. CASE ~sess[s].cancelled
    <3>1. SeenKept
      BY <1>0, <1>1, <1>10, <2>2 DEF Handoff
    <3>2. QED
      BY <1>4, <1>10, <2>2, <3>1 DEF Handoff, Completing
  <2>3. QED
    BY <2>1, <2>2
<1>11. ASSUME ConvertNext(s) PROVE WorkerReports(s)
  <2>1. SeenKept /\ UNCHANGED result
    BY <1>11 DEF ConvertNext
  <2>2. CASE conv[s].left = 0 /\ Report(s, s, IF conv[s].failed THEN "Failed" ELSE "Success", TRUE)
    BY <1>2, <2>1, <2>2 DEF Outcomes
  <2>3. CASE sess[s].cancelled /\ BatchCancelled(s)
    BY <1>3, <2>1, <2>3
  <2>4. CASE /\ Goto(s, "publish same") \/ Goto(s, "spawn helper")
             /\ UNCHANGED <<sid, report>>
    BY <1>4, <2>1, <2>4 DEF Completing
  <2>5. QED
    BY <1>11, <2>2, <2>3, <2>4 DEF ConvertNext
<1>12. ASSUME PublishSame(s) PROVE WorkerReports(s)
  BY <1>3, <1>5, <1>12 DEF PublishSame
<1>13. ASSUME SpawnHelper(s) PROVE WorkerReports(s)
  BY <1>3, <1>4, <1>13 DEF SpawnHelper, Completing
<1>14. ASSUME SpawnHelperFails(s) PROVE WorkerReports(s)
  <2>1. SeenKept /\ UNCHANGED <<result, report, sid>>
    BY <1>14 DEF SpawnHelperFails
  <2>2. CASE pc' = pc
    BY <1>14, <2>1, <2>2 DEF SpawnHelperFails, WorkerReports
  <2>3. CASE NextFile(s, TRUE)
    BY <1>5, <2>1, <2>3
  <2>4. QED
    BY <1>14, <2>2, <2>3 DEF SpawnHelperFails
<1>15. ASSUME RegisterHelper(s) PROVE WorkerReports(s)
  <2>1. SeenKept
    BY <1>0, <1>1, <1>15 DEF RegisterHelper
  <2>2. QED
    BY <1>3, <1>4, <1>15, <2>1 DEF RegisterHelper, Completing
<1>16. ASSUME HelperExits(s) PROVE WorkerReports(s)
  BY <1>16 DEF HelperExits, WorkerReports
<1>17. ASSUME HelperDone(s) PROVE WorkerReports(s)
  <2>1. SeenKept /\ UNCHANGED result
    BY <1>0, <1>1, <1>17 DEF HelperDone
  <2>2. CASE sess[s].cancelled
    BY <1>3, <1>17, <2>1, <2>2 DEF HelperDone
  <2>3. CASE NextFile(s, TRUE) /\ UNCHANGED <<sid, report>>
    BY <1>5, <2>1, <2>3
  <2>4. CASE /\ Goto(s, "spawn helper") \/ Goto(s, "publish output")
             /\ UNCHANGED <<sid, report>>
    BY <1>4, <2>1, <2>4 DEF Completing
  <2>5. QED
    BY <1>17, <2>2, <2>3, <2>4 DEF HelperDone
<1>18. ASSUME PublishOutput(s) PROVE WorkerReports(s)
  BY <1>3, <1>4, <1>5, <1>18 DEF PublishOutput, Completing
<1>19. ASSUME PublishSource(s) PROVE WorkerReports(s)
  BY <1>3, <1>5, <1>19 DEF PublishSource
<1>20. QED
  BY <1>6, <1>7, <1>8, <1>9, <1>10, <1>11, <1>12, <1>13, <1>14, <1>15, <1>16, <1>17,
     <1>18, <1>19 DEF WorkerStep

\* What a cancel does to the session in the slot, seen from outside.
CancelSeen(t) ==
  /\ \/ slot = None /\ UNCHANGED <<sess, sid, report>> /\ pc'[t] = "waitFinal"
     \/ /\ slot \in Sessions
        /\ sid'[t] = slot /\ report'[t].oc = "Cancelled"
        /\ sess'[slot].cancelled /\ sess'[slot].owner = sess[slot].owner
        /\ \A u \in Sessions : u # slot => sess'[u] = sess[u]
  /\ \A u \in Threads : u # t => pc'[u] = pc[u] /\ sid'[u] = sid[u] /\ report'[u] = report[u]

\* CancelBegin does that in each of its cases.
LEMMA CancelBeginSeen ==
  ASSUME IInv, NEW t \in Starters \cup Cancellers, NEW n, NEW m, CancelBegin(t, n, m)
  PROVE  CancelSeen(t)
<1>0. /\ t \in Threads /\ pc \in [Threads -> Labels] /\ sid \in [Threads -> 0 .. MaxSessions]
      /\ sess \in [Sessions -> SessionRec] /\ report \in [Threads -> ReportRec]
  BY DEF IInv, TypeOK, Threads
<1>1. CASE slot = None
  BY <1>0, <1>1 DEF CancelBegin, CancelSeen, Goto
<1>2. CASE slot # None
  <2>0. slot \in Sessions
    BY <1>2, Basics
  <2> DEFINE show == n \/ (m /\ sess[slot].owner = "Manual")
             exit == WorkerCompletes(slot) \/ sess[slot].exitPending
  <2>1. /\ sess' = [sess EXCEPT ![slot].cancelled = TRUE, ![slot].notify = show,
                                ![slot].exitPending = exit,
                                ![slot].ytdlp = FALSE, ![slot].ffmpeg = FALSE]
        /\ sid' = [sid EXCEPT ![t] = slot]
        /\ report' = [report EXCEPT ![t] = [oc |-> "Cancelled", show |-> show]]
        /\ \E label : pc' = [pc EXCEPT ![t] = label]
    BY <1>2 DEF CancelBegin, Goto
  <2> HIDE DEF show, exit
  <2>2. \A u \in Sessions : u # slot => sess'[u] = sess[u]
    BY <1>0, <2>0, <2>1
  <2>3. sess'[slot].cancelled /\ sess'[slot].owner = sess[slot].owner
    BY <1>0, <2>0, <2>1 DEF SessionRec
  <2>4. sid'[t] = slot /\ report'[t].oc = "Cancelled"
    BY <1>0, <2>1
  <2>5. \A u \in Threads : u # t => pc'[u] = pc[u] /\ sid'[u] = sid[u] /\ report'[u] = report[u]
    BY <1>0, <2>1
  <2>6. QED
    BY <2>0, <2>2, <2>3, <2>4, <2>5 DEF CancelSeen
<1>3. QED
  BY <1>1, <1>2

\* The session a finished callback gives back is one nobody else sees.
LEMMA FinishSeen ==
  ASSUME IInv, NEW t \in Threads, CompleteFinish(t)
  PROVE  /\ sid[t] \in finalizing /\ sid[t] \in Sessions
         /\ sid[t] # slot /\ sid[t] <= counter /\ called[sid[t]] = 1
         /\ SeenKept
<1>0. sess \in [Sessions -> SessionRec]
  BY DEF IInv, TypeOK
<1>1. pc[t] = "calling" /\ pc[t] \in Taken
  BY DEF CompleteFinish, Taken
<1>2. /\ sid[t] \in finalizing /\ sid[t] \in Sessions /\ sid[t] # slot
      /\ called[sid[t]] = 1 /\ sid[t] <= counter
  BY <1>1, FinishedIdle DEF IInv, CallbackInv, SidInv
<1>3. sess[sid[t]].cancelled \in BOOLEAN
  BY <1>0, <1>2, SessionTypes
<1>4. /\ [NewSession(sess[sid[t]].owner) EXCEPT !.cancelled = sess[sid[t]].cancelled].owner
           = sess[sid[t]].owner
      /\ [NewSession(sess[sid[t]].owner) EXCEPT !.cancelled = sess[sid[t]].cancelled].cancelled
           = sess[sid[t]].cancelled
  BY <1>3 DEF NewSession
<1>5. SeenKept
  <2>1. sess' = [sess EXCEPT ![sid[t]] = [NewSession(sess[sid[t]].owner)
                                            EXCEPT !.cancelled = sess[sid[t]].cancelled]]
    BY <1>0, <1>2 DEF CompleteFinish
  <2> DEFINE rest == [NewSession(sess[sid[t]].owner) EXCEPT !.cancelled = sess[sid[t]].cancelled]
  <2>2. /\ sess'[sid[t]] = rest
        /\ \A u \in Sessions : u # sid[t] => sess'[u] = sess[u]
    BY <1>0, <1>2, <2>1
  <2>3. rest.owner = sess[sid[t]].owner /\ rest.cancelled = sess[sid[t]].cancelled
    BY <1>4
  <2> HIDE DEF rest
  <2>4. QED
    BY <2>2, <2>3 DEF SeenKept
<1>6. QED
  BY <1>2, <1>5

\* What complete_session writes when it takes a session out of the slot.
LEMMA TakeSeen ==
  ASSUME IInv, OutcomeInv, NEW t \in Threads, CompleteTake(t), slot = sid[t]
  PROVE  /\ slot \in Sessions /\ slot' = None
         /\ finalizing' = finalizing \cup {slot}
         /\ \A u \in Sessions : u # slot => result'[u] = result[u]
         /\ result'[slot].oc \in Outcomes
         /\ result'[slot].oc = "Cancelled" => sess[slot].cancelled
         /\ UNCHANGED <<counter, sess, called>>
<1>1. slot \in Sessions /\ result \in [Sessions -> ReportRec] /\ report[t] \in ReportRec
  BY Basics DEF IInv, SidInv, TypeOK, CompleteTake
<1>2. Honest(t)
  BY DEF OutcomeInv, CompleteTake, Completing
<1> DEFINE oc == IF sess[slot].partial /\ report[t].oc = "Success" THEN "Failed" ELSE report[t].oc
           taken == [report[t] EXCEPT !.oc = oc]
<1>3. /\ result' = [result EXCEPT ![slot] = taken]
      /\ slot' = None /\ finalizing' = finalizing \cup {slot}
      /\ UNCHANGED <<counter, sess, called>>
  BY <1>1 DEF CompleteTake
<1>4. oc \in Outcomes /\ (oc = "Cancelled" => sess[slot].cancelled)
  BY <1>2 DEF Honest, Outcomes
<1>5. taken.oc = oc
  BY <1>1 DEF ReportRec
<1> HIDE DEF oc, taken
<1>6. result'[slot] = taken /\ \A u \in Sessions : u # slot => result'[u] = result[u]
  BY <1>1, <1>3
<1>7. QED
  BY <1>1, <1>3, <1>4, <1>5, <1>6

-----------------------------------------------------------------------------
(* OutcomeInv                                                              *)

\* Every step keeps OutcomeInv.
LEMMA OutcomeStep ==
  ASSUME IInv, OutcomeInv, [Next]_vars
  PROVE  OutcomeInv'
<1> USE DEF Goto, locks, procs, locals, history, Completing
<1>0. /\ pc \in [Threads -> Labels] /\ sid \in [Threads -> 0 .. MaxSessions]
      /\ sess \in [Sessions -> SessionRec] /\ report \in [Threads -> ReportRec]
      /\ Starters \subseteq Threads /\ Cancellers \subseteq Threads /\ Sessions \subseteq Threads
  BY DEF IInv, TypeOK, Threads
<1>1. ASSUME NEW t \in Starters, StartCall(t) PROVE OutcomeInv'
  BY <1>0, <1>1, HonestKept DEF StartCall
<1>2. ASSUME NEW t \in Starters, StartConflict(t) PROVE OutcomeInv'
  BY <1>0, <1>2, HonestKept DEF StartConflict
<1>3. ASSUME NEW t \in Starters, StartExisting(t) PROVE OutcomeInv'
  BY <1>0, <1>3, HonestKept DEF StartExisting
<1>4. ASSUME NEW t \in Starters, SetupAbandoned(t) PROVE OutcomeInv'
  BY <1>0, <1>4, HonestKept DEF SetupAbandoned, Forget
<1>5. ASSUME NEW t \in Starters, SpawnYtdlp(t) PROVE OutcomeInv'
  BY <1>0, <1>5, HonestKept DEF SpawnYtdlp
<1>6. ASSUME NEW t \in Starters, RegisterRefused(t) PROVE OutcomeInv'
  BY <1>0, <1>6, HonestKept DEF RegisterRefused
<1>7. ASSUME NEW t \in Starters, ReapYtdlp(t) PROVE OutcomeInv'
  BY <1>0, <1>7, HonestKept DEF ReapYtdlp, Forget
<1>8. ASSUME NEW t \in Cancellers, CancelReturn(t) PROVE OutcomeInv'
  BY <1>0, <1>8, HonestKept DEF CancelReturn
<1>9. ASSUME NEW t \in Starters \cup Cancellers, CancelKill(t) PROVE OutcomeInv'
  BY <1>0, <1>9, HonestKept DEF CancelKill
<1>10. ASSUME NEW t \in Starters \cup Cancellers, WaitSlot(t) PROVE OutcomeInv'
  BY <1>0, <1>10, HonestKept DEF WaitSlot
<1>11. ASSUME NEW t \in Starters \cup Cancellers, WaitFinal(t) PROVE OutcomeInv'
  BY <1>0, <1>11, HonestKept DEF WaitFinal
<1>12. ASSUME NEW t \in Threads, CompletePublish(t) PROVE OutcomeInv'
  BY <1>0, <1>12, HonestKept DEF CompletePublish
<1>13. ASSUME NEW t \in Threads, CompleteCallback(t) PROVE OutcomeInv'
  BY <1>0, <1>13, HonestKept DEF CompleteCallback
<1>14. ASSUME NEW t \in Sessions, YtdlpExits(t) PROVE OutcomeInv'
  BY <1>0, <1>14, HonestKept DEF YtdlpExits
<1>15. ASSUME NEW t \in Sessions, Progress(t) PROVE OutcomeInv'
  BY <1>0, <1>15, HonestKept DEF Progress
<1>16. ASSUME NEW t \in Starters, StartReplace(t) PROVE OutcomeInv'
  <2>1. CancelSeen(t) /\ UNCHANGED <<slot, counter, result>>
    BY <1>16, CancelBeginSeen DEF StartReplace
  <2>2. QED
    BY <1>0, <2>1, HonestKept DEF CancelSeen, Outcomes
<1>17. ASSUME NEW t \in Cancellers, CancelCall(t) PROVE OutcomeInv'
  <2>1. CancelSeen(t) /\ UNCHANGED <<slot, counter, result>>
    BY <1>17, CancelBeginSeen DEF CancelCall
  <2>2. QED
    BY <1>0, <2>1, HonestKept DEF CancelSeen, Outcomes
<1>18. ASSUME NEW t \in Starters, Install(t) PROVE OutcomeInv'
  <2>1. /\ slot' = counter + 1 /\ counter' = counter + 1 /\ UNCHANGED result
        /\ pc' = [pc EXCEPT ![t] = "setup"]
        /\ \A u \in Threads : u # t => sid'[u] = sid[u] /\ report'[u] = report[u]
    BY <1>0, <1>18 DEF Install
  <2>2. \A s \in Sessions : s > counter' \/ slot' = s => result'[s].oc = "none"
    BY <2>1, Basics DEF OutcomeInv
  <2>3. ASSUME NEW u \in Threads, pc'[u] \in Completing PROVE Honest(u)'
    <3>1. u # t /\ pc[u] \in Completing
      BY <1>0, <2>1, <2>3
    <3>2. sid'[u] # slot'
      BY <2>1, <3>1, Basics DEF IInv, SidInv
    <3>3. QED
      BY <2>1, <3>1, <3>2 DEF OutcomeInv, Honest
  <2>4. QED
    BY <2>2, <2>3 DEF OutcomeInv
<1>19. ASSUME NEW t \in Starters, SetupFails(t) PROVE OutcomeInv'
  <2>1. /\ report'[t].oc = "Failed"
        /\ \A u \in Threads : u # t => pc'[u] = pc[u] /\ sid'[u] = sid[u] /\ report'[u] = report[u]
    BY <1>0, <1>19 DEF SetupFails, Report
  <2>2. UNCHANGED <<slot, counter, result, sess>>
    BY <1>19 DEF SetupFails
  <2>3. QED
    BY <2>1, <2>2, HonestKept DEF Outcomes
<1>20. ASSUME NEW t \in Starters, RegisterYtdlp(t) PROVE OutcomeInv'
  <2>0. sid[t] \in Sessions
    BY <1>20, <1>0, Basics DEF RegisterYtdlp, IInv, SidInv
  <2>1. \A u \in Sessions : sess'[u].cancelled = sess[u].cancelled
    BY <1>0, <1>20, <2>0 DEF RegisterYtdlp, SessionRec
  <2>2. \A u \in Threads : pc'[u] \in Completing => u # t /\ pc'[u] = pc[u]
    BY <1>0, <1>20, <2>0 DEF RegisterYtdlp
  <2>3. \A u \in Threads : u # t => sid'[u] = sid[u] /\ report'[u] = report[u]
    BY <1>0, <1>20 DEF RegisterYtdlp, Forget
  <2>4. UNCHANGED <<slot, counter, result>>
    BY <1>20 DEF RegisterYtdlp
  <2>5. QED
    BY <2>1, <2>2, <2>3, <2>4, HonestKept
<1>21. ASSUME NEW t \in Threads, CompleteTake(t) PROVE OutcomeInv'
  <2>1. CASE slot = sid[t]
    <3>1. /\ slot \in Sessions /\ slot' = None
          /\ \A u \in Sessions : u # slot => result'[u] = result[u]
          /\ UNCHANGED counter
      BY <1>21, <2>1, TakeSeen
    <3>2. \A s \in Sessions : s > counter' \/ slot' = s => result'[s].oc = "none"
      BY <3>1, Basics DEF OutcomeInv
    <3>3. /\ pc' = [pc EXCEPT ![t] = "publish"] /\ UNCHANGED <<sid, report>>
      BY <1>21, <2>1 DEF CompleteTake
    <3>4. \A u \in Threads : pc'[u] \in Completing => pc[u] \in Completing /\ sid[u] # None
      BY <1>0, <3>3 DEF IInv, SidInv
    <3>5. QED
      BY <3>1, <3>2, <3>3, <3>4 DEF OutcomeInv, Honest
  <2>2. CASE slot # sid[t]
    <3>1. UNCHANGED <<slot, counter, result, sess>>
      BY <1>21, <2>2 DEF CompleteTake
    <3>2. \A u \in Threads : u # t => pc'[u] = pc[u] /\ sid'[u] = sid[u] /\ report'[u] = report[u]
      BY <1>0, <1>21, <2>2 DEF CompleteTake, Forget
    <3>3. pc'[t] \notin Completing
      BY <1>0, <1>21, <2>2 DEF CompleteTake, Continuation
    <3>4. QED
      BY <3>1, <3>2, <3>3, HonestKept
  <2>3. QED
    BY <2>1, <2>2
<1>22. ASSUME NEW t \in Threads, CompleteFinish(t) PROVE OutcomeInv'
  <2>1. SeenKept
    BY <1>22, FinishSeen
  <2>2. \A u \in Threads : u # t => pc'[u] = pc[u] /\ sid'[u] = sid[u] /\ report'[u] = report[u]
    BY <1>0, <1>22 DEF CompleteFinish, Forget
  <2>3. pc'[t] \notin Completing
    BY <1>0, <1>22 DEF CompleteFinish, Continuation
  <2>4. UNCHANGED <<slot, counter, result>>
    BY <1>22 DEF CompleteFinish
  <2>5. QED
    BY <2>1, <2>2, <2>3, <2>4, HonestKept DEF SeenKept
<1>23. ASSUME NEW s \in Sessions, WorkerStep(s) PROVE OutcomeInv'
  <2>1. WorkerReports(s) /\ UNCHANGED <<slot, counter>>
    BY <1>23, WorkerStepReports, WorkerStepMoves DEF WorkerMoves
  <2>2. QED
    BY <1>0, <2>1, HonestKept DEF WorkerReports, SeenKept
<1>24. ASSUME UNCHANGED vars PROVE OutcomeInv'
  BY <1>24, HonestKept DEF vars
<1>25. QED
  BY <1>1, <1>2, <1>3, <1>4, <1>5, <1>6, <1>7, <1>8, <1>9, <1>10, <1>11, <1>12, <1>13,
     <1>14, <1>15, <1>16, <1>17, <1>18, <1>19, <1>20, <1>21, <1>22, <1>23, <1>24
  DEF Next, StartStep, CancelStep, CompleteStep

-----------------------------------------------------------------------------
(* The steps of the slot                                                   *)

\* The slot's variables as DownloadSession maps them.
Phase     == [s \in Sessions |-> SlotPhase(s)]
Owner     == [s \in Sessions |-> ClientSees(s, sess[s].owner, "none")]
Cancelled == [s \in Sessions |-> ClientSees(s, sess[s].cancelled, FALSE)]
Outcome   == [s \in Sessions |-> ClientSees(s, result[s].oc, "none")]

\* Which phase a session is in.
LEMMA Phases ==
  ASSUME IInv, NEW s \in Sessions
  PROVE  /\ SlotPhase(s) = "unused" <=> s > counter
         /\ SlotPhase(s) = "active" <=> slot = s
         /\ SlotPhase(s) = "finalizing" <=> s \in finalizing /\ called[s] = 0
         /\ SlotPhase(s) = "calling" <=> s \in finalizing /\ called[s] # 0
         /\ s \in finalizing => s <= counter /\ slot # s
<1>1. s \in Nat /\ counter \in Nat /\ slot \in Nat /\ slot <= counter
  BY Basics
<1>2. s \in finalizing => ~(s > counter) /\ slot # s
  BY DEF IInv, CallbackInv
<1>3. QED
  BY <1>1, <1>2 DEF SlotPhase

\* A step its clients do not see.
LEMMA Stutter ==
  ASSUME UNCHANGED <<slot, counter, finalizing, called, result>>, SeenKept
  PROVE  UNCHANGED Slot!slotVars
<1>1. \A s \in Sessions : SlotPhase(s)' = SlotPhase(s)
  BY DEF SlotPhase
<1>2. UNCHANGED <<Phase, Owner, Cancelled, Outcome>>
  BY <1>1 DEF Phase, Owner, Cancelled, Outcome, ClientSees, SeenKept
<1>3. QED
  BY <1>2 DEF Slot!slotVars, Phase, Owner, Cancelled, Outcome

\* Installing a session starts it for its clients.
LEMMA SlotInstall ==
  ASSUME IInv, OutcomeInv, NEW t \in Starters, Install(t)
  PROVE  Slot!SlotNext
<1>1. slot = None /\ own \in Owners /\ counter < MaxSessions
  BY DEF Install, IInv, StartupInv, StartLabels
<1>13. counter + 1 \in Sessions
  BY <1>1, Basics, SessionAssumption DEF Sessions
<1> PICK n \in Sessions : n = counter + 1
  BY <1>13
<1>14. PICK o \in Owners : o = own
  BY <1>1
<1>2. n > counter /\ ~(n > n)
  BY Basics
<1>3. /\ slot' = n /\ counter' = n /\ UNCHANGED <<finalizing, called, result>>
      /\ sess' = [sess EXCEPT ![n] = NewSession(o)]
  BY <1>14 DEF Install, history
<1>4. /\ sess'[n].owner = o /\ sess'[n].cancelled = FALSE
      /\ \A s \in Sessions : s # n => sess'[s] = sess[s]
  BY <1>2, <1>3 DEF IInv, TypeOK, NewSession
<1>5. \A s \in Sessions : s # n => SlotPhase(s)' = SlotPhase(s)
  <2> SUFFICES ASSUME NEW s \in Sessions, s # n PROVE SlotPhase(s)' = SlotPhase(s)
    OBVIOUS
  <2>1. (s > n) <=> (s > counter)
    BY Basics
  <2>2. slot # s
    BY <1>1, Basics
  <2>3. QED
    BY <1>3, <2>1, <2>2 DEF SlotPhase
<1>6. SlotPhase(n) = "unused" /\ SlotPhase(n)' = "active"
  <2>1. n \notin finalizing /\ slot # n
    BY <1>1, <1>2, Basics DEF IInv, CallbackInv
  <2>2. QED
    BY <1>2, <1>3, <2>1 DEF SlotPhase
<1>7. result[n].oc = "none"
  BY <1>2 DEF OutcomeInv
<1>8. /\ Phase[n] = "unused" /\ Phase' = [Phase EXCEPT ![n] = "active"]
      /\ \A s \in Sessions : Phase[s] # "active"
  BY <1>1, <1>2, <1>5, <1>6, Phases, Basics DEF Phase
<1>9. /\ Owner' = [Owner EXCEPT ![n] = o]
      /\ UNCHANGED <<Cancelled, Outcome>>
  <2>1. Owner' = [Owner EXCEPT ![n] = o]
    <3>1. \A s \in Sessions : s # n =>
            ClientSees(s, sess[s].owner, "none")' = ClientSees(s, sess[s].owner, "none")
      BY <1>4, <1>5 DEF ClientSees
    <3>2. ClientSees(n, sess[n].owner, "none")' = o
      BY <1>4, <1>6 DEF ClientSees
    <3>3. QED
      BY <3>1, <3>2 DEF Owner
  <2>2. \A s \in Sessions :
          ClientSees(s, sess[s].cancelled, FALSE)' = ClientSees(s, sess[s].cancelled, FALSE)
    <3>1. /\ ClientSees(n, sess[n].cancelled, FALSE)' = FALSE
          /\ ClientSees(n, sess[n].cancelled, FALSE) = FALSE
      BY <1>4, <1>6 DEF ClientSees
    <3>2. QED
      BY <1>4, <1>5, <3>1 DEF ClientSees
  <2>3. \A s \in Sessions :
          ClientSees(s, result[s].oc, "none")' = ClientSees(s, result[s].oc, "none")
    BY <1>3, <1>5, <1>6, <1>7 DEF ClientSees
  <2>4. QED
    BY <2>1, <2>2, <2>3 DEF Cancelled, Outcome
<1>10. Slot!Install(n, o)
  BY <1>8, <1>9 DEF Slot!Install, Slot!Active, Phase, Owner, Cancelled, Outcome
<1>11. o \in Slot!Owners
  BY DEF Slot!Owners, Owners
<1>12. QED
  BY <1>10, <1>11 DEF Slot!SlotNext

\* A cancel that finds a session requests its cancellation.
LEMMA SlotRequestCancel ==
  ASSUME IInv, IInv', NEW t \in Starters \cup Cancellers, CancelSeen(t), slot # None,
         UNCHANGED <<slot, counter, finalizing, called, result>>
  PROVE  Slot!SlotNext
<1>1. /\ slot \in Sessions /\ sess'[slot].owner = sess[slot].owner
      /\ \A u \in Sessions : u # slot => sess'[u] = sess[u]
      /\ sess'[slot].cancelled = TRUE
  <2>1. /\ slot \in Sessions /\ sess'[slot].cancelled /\ sess'[slot].owner = sess[slot].owner
        /\ \A u \in Sessions : u # slot => sess'[u] = sess[u]
    BY DEF CancelSeen
  <2>2. sess'[slot].cancelled \in BOOLEAN
    <3>1. sess' \in [Sessions -> SessionRec]
      BY DEF IInv, TypeOK
    <3>2. QED
      BY <2>1, <3>1, SessionTypes
  <2>3. QED
    BY <2>1, <2>2
<1>2. \A s \in Sessions : SlotPhase(s)' = SlotPhase(s)
  BY DEF SlotPhase
<1>3. SlotPhase(slot) = "active"
  BY <1>1, Phases
<1>4. Phase[slot] = "active" /\ UNCHANGED <<Phase, Owner, Outcome>>
  BY <1>1, <1>2, <1>3 DEF Phase, Owner, Outcome, ClientSees
<1>5. Cancelled' = [Cancelled EXCEPT ![slot] = TRUE]
  BY <1>1, <1>2, <1>3 DEF Cancelled, ClientSees
<1>6. Slot!RequestCancel(slot)
  BY <1>4, <1>5 DEF Slot!RequestCancel, Phase, Owner, Cancelled, Outcome
<1>7. QED
  BY <1>1, <1>6 DEF Slot!SlotNext

\* Taking a session out of the slot completes it.
LEMMA SlotComplete ==
  ASSUME IInv, OutcomeInv, NEW t \in Threads, CompleteTake(t), slot = sid[t]
  PROVE  Slot!SlotNext
<1>12. slot \in Sessions /\ result'[slot].oc \in Outcomes
  BY TakeSeen
<1>13. PICK s \in Sessions, oc \in Outcomes : s = slot /\ oc = result'[slot].oc
  BY <1>12
<1>1. /\ slot' = None /\ finalizing' = finalizing \cup {s}
      /\ \A u \in Sessions : u # s => result'[u] = result[u]
      /\ result'[s].oc = oc /\ (oc = "Cancelled" => sess[s].cancelled)
      /\ UNCHANGED <<counter, sess, called>>
  BY <1>13, TakeSeen
<1>2. /\ called[s] = 0 /\ ~(s > counter) /\ s # None
  BY <1>13, <1>1, Basics DEF IInv, CallbackInv
<1>3. \A u \in Sessions : u # s => SlotPhase(u)' = SlotPhase(u)
  BY <1>1, <1>13, Basics DEF SlotPhase
<1>4. SlotPhase(s) = "active" /\ SlotPhase(s)' = "finalizing"
  <2>1. SlotPhase(s) = "active"
    BY <1>13, Phases
  <2>2. s # slot' /\ s \in finalizing' /\ ~(s > counter') /\ called'[s] = 0
    BY <1>1, <1>2
  <2>3. SlotPhase(s)' = "finalizing"
    BY <2>2 DEF SlotPhase
  <2>4. QED
    BY <2>1, <2>3
<1>5. result[s].oc = "none"
  BY <1>13 DEF OutcomeInv
<1>6. Phase[s] = "active" /\ Phase' = [Phase EXCEPT ![s] = "finalizing"]
  BY <1>1, <1>3, <1>4 DEF Phase
<1>7. UNCHANGED <<Owner, Cancelled>> /\ Outcome' = [Outcome EXCEPT ![s] = oc]
  BY <1>1, <1>3, <1>4 DEF Owner, Cancelled, Outcome, ClientSees
<1>8. oc = "Cancelled" => Cancelled[s]
  BY <1>1, <1>4 DEF Cancelled, ClientSees
<1>9. Slot!Complete(s, oc)
  BY <1>6, <1>7, <1>8 DEF Slot!Complete, Phase, Owner, Cancelled, Outcome
<1>10. oc \in Slot!Outcomes
  BY DEF Slot!Outcomes, Outcomes
<1>11. QED
  BY <1>9, <1>10 DEF Slot!SlotNext

\* Calling on_complete delivers the outcome.
LEMMA SlotDeliver ==
  ASSUME IInv, NEW t \in Threads, CompleteCallback(t)
  PROVE  Slot!SlotNext
<1>1. pc[t] = "callback" /\ pc[t] \in Taken
  BY DEF CompleteCallback, Taken
<1>11. sid[t] \in Sessions
  BY <1>1, FinishedIdle
<1>12. PICK s \in Sessions : s = sid[t]
  BY <1>11
<1>2. s \in finalizing /\ called[s] = 0
  BY <1>1, <1>12, FinishedIdle DEF IInv, CallbackInv
<1>3. /\ called' = [called EXCEPT ![s] = 1]
      /\ UNCHANGED <<slot, counter, finalizing, sess, result>>
  BY <1>2, <1>12 DEF CompleteCallback, history, IInv, TypeOK
<1>4. called'[s] = 1 /\ \A u \in Sessions : u # s => called'[u] = called[u]
  BY <1>2, <1>3 DEF IInv, TypeOK
<1>5. \A u \in Sessions : u # s => SlotPhase(u)' = SlotPhase(u)
  BY <1>3, <1>4 DEF SlotPhase
<1>6. SlotPhase(s) = "finalizing" /\ SlotPhase(s)' = "calling"
  <2>1. ~(s > counter) /\ slot # s /\ SlotPhase(s) = "finalizing"
    BY <1>2, Phases, Basics
  <2>2. QED
    BY <1>2, <1>3, <1>4, <2>1 DEF SlotPhase
<1>7. Phase[s] = "finalizing" /\ Phase' = [Phase EXCEPT ![s] = "calling"]
  BY <1>2, <1>5, <1>6 DEF Phase
<1>8. UNCHANGED <<Owner, Cancelled, Outcome>>
  BY <1>3, <1>5, <1>6 DEF Owner, Cancelled, Outcome, ClientSees
<1>9. Slot!Deliver(s)
  BY <1>7, <1>8 DEF Slot!Deliver, Phase, Owner, Cancelled, Outcome
<1>10. QED
  BY <1>9 DEF Slot!SlotNext

\* The return of the callback finishes the session.
LEMMA SlotFinish ==
  ASSUME IInv, NEW t \in Threads, CompleteFinish(t)
  PROVE  Slot!SlotNext
<1>8. sid[t] \in Sessions
  BY FinishSeen
<1>9. PICK s \in Sessions : s = sid[t]
  BY <1>8
<1>1. /\ s \in finalizing /\ s # slot /\ ~(s > counter)
      /\ called[s] = 1 /\ SeenKept
  BY <1>9, FinishSeen, Basics
<1>2. /\ finalizing' = finalizing \ {s}
      /\ UNCHANGED <<slot, counter, called, result>>
  BY <1>9 DEF CompleteFinish, history
<1>3. \A u \in Sessions : u # s => SlotPhase(u)' = SlotPhase(u)
  BY <1>2 DEF SlotPhase
<1>4. SlotPhase(s) = "calling" /\ SlotPhase(s)' = "done"
  BY <1>1, <1>2 DEF SlotPhase
<1>5. Phase[s] = "calling" /\ Phase' = [Phase EXCEPT ![s] = "done"]
  BY <1>1, <1>3, <1>4 DEF Phase
<1>6. /\ Owner' = [Owner EXCEPT ![s] = "none"]
      /\ Cancelled' = [Cancelled EXCEPT ![s] = FALSE]
      /\ Outcome' = [Outcome EXCEPT ![s] = "none"]
  BY <1>1, <1>2, <1>3, <1>4 DEF Owner, Cancelled, Outcome, ClientSees, SeenKept
<1>7. Slot!Finish(s)
  BY <1>5, <1>6 DEF Slot!Finish, Phase, Owner, Cancelled, Outcome
<1>10. QED
  BY <1>7 DEF Slot!SlotNext

\* Every step is one of those for the clients, or invisible to them.
LEMMA SlotStep ==
  ASSUME IInv, IInv', OutcomeInv, [Next]_vars
  PROVE  [Slot!SlotNext]_(Slot!slotVars)
<1> USE DEF locks, procs, locals, history
<1>1. ASSUME NEW t \in Starters, StartCall(t) PROVE UNCHANGED Slot!slotVars
  BY <1>1, Stutter DEF StartCall, SeenKept
<1>2. ASSUME NEW t \in Starters, StartConflict(t) PROVE UNCHANGED Slot!slotVars
  BY <1>2, Stutter DEF StartConflict, SeenKept
<1>3. ASSUME NEW t \in Starters, StartExisting(t) PROVE UNCHANGED Slot!slotVars
  BY <1>3, Stutter DEF StartExisting, SeenKept
<1>4. ASSUME NEW t \in Starters, SetupFails(t) PROVE UNCHANGED Slot!slotVars
  BY <1>4, Stutter DEF SetupFails, SeenKept
<1>5. ASSUME NEW t \in Starters, SetupAbandoned(t) PROVE UNCHANGED Slot!slotVars
  BY <1>5, Stutter DEF SetupAbandoned, SeenKept
<1>6. ASSUME NEW t \in Starters, SpawnYtdlp(t) PROVE UNCHANGED Slot!slotVars
  BY <1>6, Stutter DEF SpawnYtdlp, SeenKept
<1>7. ASSUME NEW t \in Starters, RegisterRefused(t) PROVE UNCHANGED Slot!slotVars
  BY <1>7, Stutter DEF RegisterRefused, SeenKept
<1>8. ASSUME NEW t \in Starters, ReapYtdlp(t) PROVE UNCHANGED Slot!slotVars
  BY <1>8, Stutter DEF ReapYtdlp, SeenKept
<1>9. ASSUME NEW t \in Cancellers, CancelReturn(t) PROVE UNCHANGED Slot!slotVars
  BY <1>9, Stutter DEF CancelReturn, SeenKept
<1>10. ASSUME NEW t \in Starters \cup Cancellers, CancelKill(t)
       PROVE  UNCHANGED Slot!slotVars
  BY <1>10, Stutter DEF CancelKill, SeenKept
<1>11. ASSUME NEW t \in Starters \cup Cancellers, WaitSlot(t)
       PROVE  UNCHANGED Slot!slotVars
  BY <1>11, Stutter DEF WaitSlot, SeenKept
<1>12. ASSUME NEW t \in Starters \cup Cancellers, WaitFinal(t)
       PROVE  UNCHANGED Slot!slotVars
  BY <1>12, Stutter DEF WaitFinal, SeenKept
<1>13. ASSUME NEW t \in Threads, CompletePublish(t) PROVE UNCHANGED Slot!slotVars
  BY <1>13, Stutter DEF CompletePublish, SeenKept
<1>14. ASSUME NEW t \in Sessions, YtdlpExits(t) PROVE UNCHANGED Slot!slotVars
  BY <1>14, Stutter DEF YtdlpExits, SeenKept
<1>15. ASSUME NEW t \in Sessions, Progress(t) PROVE UNCHANGED Slot!slotVars
  BY <1>15, Stutter DEF Progress, SeenKept
<1>16. ASSUME NEW t \in Starters, StartReplace(t) PROVE [Slot!SlotNext]_(Slot!slotVars)
  <2>1. CancelSeen(t) /\ UNCHANGED <<slot, counter, finalizing, called, result>>
    BY <1>16, CancelBeginSeen DEF StartReplace
  <2>2. CASE slot = None
    <3>1. SeenKept
      BY <2>1, <2>2, Basics DEF CancelSeen, SeenKept
    <3>2. QED
      BY <2>1, <3>1, Stutter
  <2>3. CASE slot # None
    BY <2>1, <2>3, SlotRequestCancel
  <2>4. QED
    BY <2>2, <2>3
<1>17. ASSUME NEW t \in Cancellers, CancelCall(t) PROVE [Slot!SlotNext]_(Slot!slotVars)
  <2>1. CancelSeen(t) /\ UNCHANGED <<slot, counter, finalizing, called, result>>
    BY <1>17, CancelBeginSeen DEF CancelCall
  <2>2. CASE slot = None
    <3>1. SeenKept
      BY <2>1, <2>2, Basics DEF CancelSeen, SeenKept
    <3>2. QED
      BY <2>1, <3>1, Stutter
  <2>3. CASE slot # None
    BY <2>1, <2>3, SlotRequestCancel
  <2>4. QED
    BY <2>2, <2>3
<1>18. ASSUME NEW t \in Starters, Install(t) PROVE Slot!SlotNext
  BY <1>18, SlotInstall
<1>19. ASSUME NEW t \in Starters, RegisterYtdlp(t) PROVE UNCHANGED Slot!slotVars
  <2>0. sid[t] \in Sessions
    BY <1>19, Basics DEF RegisterYtdlp, IInv, SidInv, Threads
  <2>1. SeenKept
    BY <1>19, <2>0 DEF RegisterYtdlp, IInv, TypeOK, SessionRec, SeenKept
  <2>2. QED
    BY <1>19, <2>1, Stutter DEF RegisterYtdlp
<1>20. ASSUME NEW t \in Threads, CompleteTake(t) PROVE [Slot!SlotNext]_(Slot!slotVars)
  <2>1. CASE slot = sid[t]
    BY <1>20, <2>1, SlotComplete
  <2>2. CASE slot # sid[t]
    BY <1>20, <2>2, Stutter DEF CompleteTake, SeenKept
  <2>3. QED
    BY <2>1, <2>2
<1>21. ASSUME NEW t \in Threads, CompleteCallback(t) PROVE Slot!SlotNext
  BY <1>21, SlotDeliver
<1>22. ASSUME NEW t \in Threads, CompleteFinish(t) PROVE Slot!SlotNext
  BY <1>22, SlotFinish
<1>23. ASSUME NEW s \in Sessions, WorkerStep(s) PROVE UNCHANGED Slot!slotVars
  BY <1>23, WorkerStepReports, WorkerStepMoves, Stutter DEF WorkerReports, WorkerMoves
<1>24. ASSUME UNCHANGED vars PROVE UNCHANGED Slot!slotVars
  BY <1>24, Stutter DEF vars, SeenKept
<1>25. QED
  BY <1>1, <1>2, <1>3, <1>4, <1>5, <1>6, <1>7, <1>8, <1>9, <1>10, <1>11, <1>12, <1>13,
     <1>14, <1>15, <1>16, <1>17, <1>18, <1>19, <1>20, <1>21, <1>22, <1>23, <1>24
  DEF Next, StartStep, CancelStep, CompleteStep

-----------------------------------------------------------------------------
(* The theorems                                                            *)

\* The initial states are initial states of SessionSlot.
LEMMA InitSlot ==
  ASSUME Init
  PROVE  OutcomeInv /\ Slot!SlotInit
<1> USE SessionAssumption DEF Init
<1>1. OutcomeInv
  BY DEF OutcomeInv, Completing, NoReport
<1>2. \A s \in Sessions : SlotPhase(s) = "unused"
  <2>1. \A s \in Sessions : s > counter /\ slot # s /\ s \notin finalizing
    BY DEF Sessions, None
  <2>2. QED
    BY <2>1 DEF SlotPhase
<1>3. QED
  BY <1>1, <1>2 DEF Slot!SlotInit, ClientSees

\* An outcome is chosen once, when the session leaves the slot, and nobody
\* reports a cancel that did not reach it.
THEOREM OutcomesHonest == Spec => []SlotInv
<1>1. Init => SlotInv
  BY InitIInv, InitSlot DEF SlotInv
<1>2. SlotInv /\ [Next]_vars => SlotInv'
  BY IInvStep, OutcomeStep DEF SlotInv
<1>3. QED
  BY <1>1, <1>2, PTL DEF Spec

\* To its clients the download session behaves as SessionSlot says: one active
\* session, an outcome chosen once, "Cancelled" only after a cancel, and one
\* callback after the slot is free.
THEOREM Implements == Spec => ImplementsSlot
<1>1. Init => Slot!SlotInit
  BY InitSlot
<1>2. SlotInv /\ SlotInv' /\ [Next]_vars => [Slot!SlotNext]_(Slot!slotVars)
  BY SlotStep DEF SlotInv
<1>3. QED
  BY <1>1, <1>2, OutcomesHonest, PTL DEF Spec, ImplementsSlot, Slot!SlotSafety

-----------------------------------------------------------------------------
(* No process outlives its session                                         *)

\* A running helper has a worker that will wait for it or kill it, and a
\* running yt-dlp one, or a starter that still has the handle.
ProcessInv ==
  /\ \A s \in Sessions : helper[s] = "running" => pc[s] \in {"register helper", "helping"}
  /\ \A s \in Sessions : ytdlp[s] = "running" =>
       \/ pc[s] = "waiting"
       \/ \E t \in Starters : pc[t] \in {"register", "reap"} /\ sid[t] = s

\* Most steps touch neither a process nor a thread that has one.
LEMMA ProcessKept ==
  ASSUME ProcessInv,
         \A s \in Sessions : helper'[s] = "running" => helper[s] = "running",
         \A s \in Sessions : ytdlp'[s] = "running" => ytdlp[s] = "running",
         \A s \in Sessions :
           pc[s] \in {"register helper", "helping", "waiting"} => pc'[s] = pc[s],
         \A t \in Starters : pc[t] \in {"register", "reap"} =>
           pc'[t] \in {"register", "reap"} /\ sid'[t] = sid[t]
  PROVE  ProcessInv'
<1>1. ASSUME NEW s \in Sessions, helper'[s] = "running"
      PROVE  pc'[s] \in {"register helper", "helping"}
  BY <1>1 DEF ProcessInv
<1>2. ASSUME NEW s \in Sessions, ytdlp'[s] = "running"
      PROVE  \/ pc'[s] = "waiting"
             \/ \E t \in Starters : pc'[t] \in {"register", "reap"} /\ sid'[t] = s
  <2>1. CASE pc[s] = "waiting"
    BY <2>1
  <2>2. ASSUME NEW t \in Starters, pc[t] \in {"register", "reap"}, sid[t] = s
        PROVE  \E u \in Starters : pc'[u] \in {"register", "reap"} /\ sid'[u] = s
    BY <2>2
  <2>3. ytdlp[s] = "running"
    BY <1>2
  <2>4. pc[s] = "waiting" \/ \E t \in Starters : pc[t] \in {"register", "reap"} /\ sid[t] = s
    BY <2>3 DEF ProcessInv
  <2>5. QED
    BY <2>1, <2>2, <2>4
<1>3. QED
  BY <1>1, <1>2 DEF ProcessInv

\* A worker that changes no other thread and has no running yt-dlp.
LEMMA ProcessWorker ==
  ASSUME IInv, ProcessInv, NEW t \in Sessions,
         \A u \in Threads : u # t => pc'[u] = pc[u] /\ sid'[u] = sid[u],
         UNCHANGED ytdlp,
         ytdlp[t] = "running" => pc[t] # "waiting",
         \A s \in Sessions : helper'[s] = "running" =>
           pc'[s] \in {"register helper", "helping"}
  PROVE  ProcessInv'
<1>1. \A u \in Starters : u \in Threads /\ u # t
  BY Basics
<1>2. ASSUME NEW s \in Sessions, ytdlp'[s] = "running"
      PROVE  \/ pc'[s] = "waiting"
             \/ \E u \in Starters : pc'[u] \in {"register", "reap"} /\ sid'[u] = s
  <2>1. CASE pc[s] = "waiting"
    BY <1>2, <2>1, Basics
  <2>2. ASSUME NEW u \in Starters, pc[u] \in {"register", "reap"}, sid[u] = s
        PROVE  \E v \in Starters : pc'[v] \in {"register", "reap"} /\ sid'[v] = s
    BY <1>1, <2>2
  <2>3. QED
    BY <1>2, <2>1, <2>2 DEF ProcessInv
<1>3. QED
  BY <1>2 DEF ProcessInv

\* Every step keeps ProcessInv.
LEMMA ProcessStep ==
  ASSUME IInv, ProcessInv, [Next]_vars
  PROVE  ProcessInv'
<1> USE DEF Goto, locks, procs, locals, history
<1>0. /\ pc \in [Threads -> Labels] /\ sid \in [Threads -> 0 .. MaxSessions]
      /\ Threads = Starters \cup Cancellers \cup Sessions
      /\ Starters \cap Cancellers = {}
      /\ \A s \in Sessions : s \notin Starters \cup Cancellers
  BY Basics, SessionAssumption
<1>1. ASSUME NEW t \in Starters, StartCall(t) PROVE ProcessInv'
  BY <1>0, <1>1, ProcessKept DEF StartCall
<1>2. ASSUME NEW t \in Starters, StartConflict(t) PROVE ProcessInv'
  BY <1>0, <1>2, ProcessKept DEF StartConflict
<1>3. ASSUME NEW t \in Starters, StartExisting(t) PROVE ProcessInv'
  BY <1>0, <1>3, ProcessKept DEF StartExisting
<1>4. ASSUME NEW t \in Starters, StartReplace(t) PROVE ProcessInv'
  <2>1. CancelSeen(t) /\ UNCHANGED procs /\ pc[t] = "replace"
    BY <1>4, CancelBeginSeen DEF StartReplace
  <2>2. QED
    BY <1>0, <2>1, ProcessKept DEF CancelSeen
<1>5. ASSUME NEW t \in Starters, Install(t) PROVE ProcessInv'
  BY <1>0, <1>5, ProcessKept DEF Install
<1>6. ASSUME NEW t \in Starters, SetupFails(t) PROVE ProcessInv'
  BY <1>0, <1>6, ProcessKept DEF SetupFails, Report
<1>7. ASSUME NEW t \in Starters, SetupAbandoned(t) PROVE ProcessInv'
  BY <1>0, <1>7, ProcessKept DEF SetupAbandoned, Forget
<1>8. ASSUME NEW t \in Starters, SpawnYtdlp(t) PROVE ProcessInv'
  <2>1. /\ pc[t] = "setup" /\ pc' = [pc EXCEPT ![t] = "register"]
        /\ ytdlp' = [ytdlp EXCEPT ![sid[t]] = "running"] /\ UNCHANGED <<helper, sid>>
    BY <1>8 DEF SpawnYtdlp
  <2>2. ASSUME NEW s \in Sessions, ytdlp'[s] = "running"
        PROVE  \/ pc'[s] = "waiting"
               \/ \E u \in Starters : pc'[u] \in {"register", "reap"} /\ sid'[u] = s
    <3>1. CASE s = sid[t]
      BY <1>0, <2>1, <3>1
    <3>2. CASE s # sid[t]
      <4>1. ytdlp[s] = "running"
        BY <1>0, <2>1, <2>2, <3>2 DEF IInv, TypeOK
      <4>2. \A u \in Threads : pc[u] \in {"register", "reap", "waiting"} => pc'[u] = pc[u]
        BY <1>0, <2>1
      <4>3. QED
        BY <1>0, <2>1, <4>1, <4>2 DEF ProcessInv
    <3>3. QED
      BY <3>1, <3>2
  <2>3. \A s \in Sessions : helper'[s] = "running" =>
          pc'[s] \in {"register helper", "helping"}
    BY <1>0, <2>1 DEF ProcessInv
  <2>4. QED
    BY <2>2, <2>3 DEF ProcessInv
<1>9. ASSUME NEW t \in Starters, RegisterYtdlp(t) PROVE ProcessInv'
  <2>1. /\ sid[t] \in Sessions /\ pc[t] = "register"
        /\ pc[sid[t]] \notin WorkerLabels
    BY <1>9, <1>0, Basics DEF RegisterYtdlp, IInv, SidInv, HandoverInv
  <2>2. /\ pc' = [pc EXCEPT ![t] = "idle", ![sid[t]] = "waiting"]
        /\ UNCHANGED <<helper, ytdlp>>
        /\ \A u \in Threads : u # t => sid'[u] = sid[u]
    BY <1>0, <1>9 DEF RegisterYtdlp, Forget
  <2>3. \A s \in Sessions : helper'[s] = "running" =>
          pc'[s] \in {"register helper", "helping"}
    BY <1>0, <2>1, <2>2 DEF ProcessInv, WorkerLabels
  <2>4. ASSUME NEW s \in Sessions, ytdlp'[s] = "running"
        PROVE  \/ pc'[s] = "waiting"
               \/ \E u \in Starters : pc'[u] \in {"register", "reap"} /\ sid'[u] = s
    <3>1. CASE s = sid[t]
      BY <1>0, <2>1, <2>2, <3>1
    <3>2. CASE pc[s] = "waiting"
      BY <1>0, <2>1, <2>2, <3>2 DEF WorkerLabels
    <3>3. ASSUME NEW u \in Starters, pc[u] \in {"register", "reap"}, sid[u] = s, s # sid[t]
          PROVE  \E v \in Starters : pc'[v] \in {"register", "reap"} /\ sid'[v] = s
      BY <1>0, <2>1, <2>2, <3>3
    <3>4. QED
      BY <2>2, <2>4, <3>1, <3>2, <3>3 DEF ProcessInv
  <2>5. QED
    BY <2>3, <2>4 DEF ProcessInv
<1>10. ASSUME NEW t \in Starters, RegisterRefused(t) PROVE ProcessInv'
  BY <1>0, <1>10, ProcessKept DEF RegisterRefused
<1>11. ASSUME NEW t \in Starters, ReapYtdlp(t) PROVE ProcessInv'
  <2>1. /\ pc[t] = "reap" /\ pc' = [pc EXCEPT ![t] = "idle"]
        /\ ytdlp' = [ytdlp EXCEPT ![sid[t]] = "dead"] /\ UNCHANGED helper
        /\ \A u \in Threads : u # t => sid'[u] = sid[u]
    BY <1>0, <1>11 DEF ReapYtdlp, Forget
  <2>2. ASSUME NEW s \in Sessions, ytdlp'[s] = "running"
        PROVE  \/ pc'[s] = "waiting"
               \/ \E u \in Starters : pc'[u] \in {"register", "reap"} /\ sid'[u] = s
    <3>1. s # sid[t] /\ ytdlp[s] = "running"
      BY <2>1, <2>2 DEF IInv, TypeOK
    <3>2. \A u \in Threads : u # t => pc'[u] = pc[u]
      BY <1>0, <2>1
    <3>3. QED
      BY <1>0, <2>1, <3>1, <3>2 DEF ProcessInv
  <2>3. \A s \in Sessions : helper'[s] = "running" =>
          pc'[s] \in {"register helper", "helping"}
    BY <1>0, <2>1 DEF ProcessInv
  <2>4. QED
    BY <2>2, <2>3 DEF ProcessInv
<1>12. ASSUME NEW t \in Cancellers, CancelCall(t) PROVE ProcessInv'
  <2>1. CancelSeen(t) /\ UNCHANGED procs /\ pc[t] = "idle"
    BY <1>12, CancelBeginSeen DEF CancelCall
  <2>2. QED
    BY <1>0, <2>1, ProcessKept DEF CancelSeen
<1>13. ASSUME NEW t \in Cancellers, CancelReturn(t) PROVE ProcessInv'
  BY <1>0, <1>13, ProcessKept DEF CancelReturn
<1>14. ASSUME NEW t \in Starters \cup Cancellers, CancelKill(t) PROVE ProcessInv'
  <2>1. \A s \in Sessions : /\ helper'[s] = "running" => helper[s] = "running"
                            /\ ytdlp'[s] = "running" => ytdlp[s] = "running"
    BY <1>14 DEF CancelKill, IInv, TypeOK
  <2>2. \A u \in Threads : u # t => pc'[u] = pc[u] /\ sid'[u] = sid[u]
    BY <1>0, <1>14 DEF CancelKill
  <2>3. pc[t] \in {"killWait", "killComplete"}
    BY <1>14 DEF CancelKill
  <2>4. QED
    BY <1>0, <2>1, <2>2, <2>3, ProcessKept
<1>15. ASSUME NEW t \in Starters \cup Cancellers, WaitSlot(t) PROVE ProcessInv'
  BY <1>0, <1>15, ProcessKept DEF WaitSlot
<1>16. ASSUME NEW t \in Starters \cup Cancellers, WaitFinal(t) PROVE ProcessInv'
  BY <1>0, <1>16, ProcessKept DEF WaitFinal
<1>17. ASSUME NEW t \in Threads, CompleteTake(t) PROVE ProcessInv'
  BY <1>0, <1>17, ProcessKept DEF CompleteTake, Forget, Continuation
<1>18. ASSUME NEW t \in Threads, CompletePublish(t) PROVE ProcessInv'
  BY <1>0, <1>18, ProcessKept DEF CompletePublish
<1>19. ASSUME NEW t \in Threads, CompleteCallback(t) PROVE ProcessInv'
  BY <1>0, <1>19, ProcessKept DEF CompleteCallback
<1>20. ASSUME NEW t \in Threads, CompleteFinish(t) PROVE ProcessInv'
  BY <1>0, <1>20, ProcessKept DEF CompleteFinish, Forget, Continuation
<1>21. ASSUME NEW t \in Sessions, YtdlpExits(t) PROVE ProcessInv'
  <2>1. \A s \in Sessions : /\ helper'[s] = "running" => helper[s] = "running"
                            /\ ytdlp'[s] = "running" => ytdlp[s] = "running"
    BY <1>21 DEF YtdlpExits, IInv, TypeOK
  <2>2. QED
    BY <1>21, <2>1, ProcessKept DEF YtdlpExits
<1>22. ASSUME NEW t \in Sessions, Progress(t) PROVE ProcessInv'
  BY <1>0, <1>22, ProcessKept DEF Progress
<1>23. ASSUME NEW t \in Sessions, ExitSeen(t) PROVE ProcessInv'
  <2>1. /\ pc[t] = "waiting" /\ ytdlp[t] = "dead" /\ UNCHANGED <<helper, ytdlp>>
    BY <1>23 DEF ExitSeen
  <2>2. \A u \in Threads : u # t => pc'[u] = pc[u] /\ sid'[u] = sid[u]
    BY <1>0, <1>23 DEF ExitSeen, Report
  <2>3. \A s \in Sessions : helper'[s] = "running" =>
          pc'[s] \in {"register helper", "helping"}
    BY <1>0, <2>1, <2>2 DEF ProcessInv
  <2>4. QED
    BY <2>1, <2>2, <2>3, ProcessWorker
<1>24. ASSUME NEW t \in Sessions, ExitFailed(t) PROVE ProcessInv'
  BY <1>0, <1>24, ProcessKept DEF ExitFailed, Report
<1>25. ASSUME NEW t \in Sessions, ExitUsable(t) PROVE ProcessInv'
  BY <1>0, <1>25, ProcessKept DEF ExitUsable
<1>26. ASSUME NEW t \in Sessions, InstallFiles(t) PROVE ProcessInv'
  BY <1>0, <1>26, ProcessKept DEF InstallFiles, Report
<1>27. ASSUME NEW t \in Sessions, Handoff(t) PROVE ProcessInv'
  BY <1>0, <1>27, ProcessKept DEF Handoff, Report
<1>28. ASSUME NEW t \in Sessions, ConvertNext(t) PROVE ProcessInv'
  BY <1>0, <1>28, ProcessKept DEF ConvertNext, BatchCancelled, Report
<1>29. ASSUME NEW t \in Sessions, PublishSame(t) PROVE ProcessInv'
  BY <1>0, <1>29, ProcessKept DEF PublishSame, BatchCancelled, Report, NextFile
<1>30. ASSUME NEW t \in Sessions, SpawnHelper(t) PROVE ProcessInv'
  <2>1. CASE UNCHANGED helper
    BY <1>0, <1>30, <2>1, ProcessKept DEF SpawnHelper, BatchCancelled, Report
  <2>2. CASE /\ helper' = [helper EXCEPT ![t] = "running"]
             /\ pc' = [pc EXCEPT ![t] = "register helper"]
    <3>0. pc'[t] = "register helper"
      BY <1>0, <2>2
    <3>1. pc[t] = "spawn helper" /\ UNCHANGED <<sid, ytdlp>>
      BY <1>0, <1>30, <3>0 DEF SpawnHelper, BatchCancelled, Report
    <3>2. ASSUME NEW s \in Sessions, helper'[s] = "running"
          PROVE  pc'[s] \in {"register helper", "helping"}
      <4>1. CASE s = t
        BY <3>0, <4>1
      <4>2. CASE s # t
        <5>1. helper'[s] = helper[s]
          <6>1. helper \in [Sessions -> {"none", "running", "dead"}]
            BY DEF IInv, TypeOK
          <6>2. QED
            BY <2>2, <4>2, <6>1
        <5>2. pc'[s] = pc[s]
          BY <1>0, <2>2, <4>2
        <5>3. QED
          BY <3>2, <5>1, <5>2 DEF ProcessInv
      <4>3. QED
        BY <4>1, <4>2
    <3>3. ASSUME NEW s \in Sessions, ytdlp'[s] = "running"
          PROVE  \/ pc'[s] = "waiting"
                 \/ \E u \in Starters : pc'[u] \in {"register", "reap"} /\ sid'[u] = s
      BY <1>0, <2>2, <3>1, <3>3 DEF ProcessInv
    <3>4. QED
      BY <3>2, <3>3 DEF ProcessInv
  <2>3. QED
    BY <1>30, <2>1, <2>2 DEF SpawnHelper
<1>31. ASSUME NEW t \in Sessions, SpawnHelperFails(t) PROVE ProcessInv'
  BY <1>0, <1>31, ProcessKept DEF SpawnHelperFails, NextFile
<1>32. ASSUME NEW t \in Sessions, RegisterHelper(t) PROVE ProcessInv'
  <2>1. CASE helper' = [helper EXCEPT ![t] = "dead"]
    <3>1. /\ pc[t] = "register helper" /\ UNCHANGED ytdlp
          /\ \A u \in Threads : u # t => pc'[u] = pc[u] /\ sid'[u] = sid[u]
      BY <1>0, <1>32 DEF RegisterHelper, BatchCancelled, Report
    <3>2. \A s \in Sessions : helper'[s] = "running" => s # t /\ helper[s] = "running"
      BY <2>1 DEF IInv, TypeOK
    <3>3. \A s \in Sessions : helper'[s] = "running" =>
            pc'[s] \in {"register helper", "helping"}
      BY <1>0, <3>1, <3>2 DEF ProcessInv
    <3>4. QED
      BY <3>1, <3>3, ProcessWorker
  <2>2. CASE UNCHANGED helper /\ pc' = [pc EXCEPT ![t] = "helping"]
    <3>0. pc'[t] = "helping"
      BY <1>0, <2>2
    <3>1. pc[t] = "register helper" /\ UNCHANGED <<ytdlp, sid>>
      BY <1>0, <1>32, <3>0 DEF RegisterHelper, BatchCancelled, Report
    <3>2. \A s \in Sessions : helper'[s] = "running" =>
            pc'[s] \in {"register helper", "helping"}
      BY <1>0, <2>2 DEF ProcessInv
    <3>3. ASSUME NEW s \in Sessions, ytdlp'[s] = "running"
          PROVE  \/ pc'[s] = "waiting"
                 \/ \E u \in Starters : pc'[u] \in {"register", "reap"} /\ sid'[u] = s
      BY <1>0, <2>2, <3>1, <3>3 DEF ProcessInv
    <3>4. QED
      BY <3>2, <3>3 DEF ProcessInv
  <2>3. QED
    BY <1>32, <2>1, <2>2 DEF RegisterHelper
<1>33. ASSUME NEW t \in Sessions, HelperExits(t) PROVE ProcessInv'
  <2>1. \A s \in Sessions : /\ helper'[s] = "running" => helper[s] = "running"
                            /\ ytdlp'[s] = "running" => ytdlp[s] = "running"
    BY <1>33 DEF HelperExits, IInv, TypeOK
  <2>2. QED
    BY <1>33, <2>1, ProcessKept DEF HelperExits
<1>34. ASSUME NEW t \in Sessions, HelperDone(t) PROVE ProcessInv'
  <2>1. /\ pc[t] = "helping" /\ helper[t] = "dead" /\ UNCHANGED <<helper, ytdlp>>
    BY <1>34 DEF HelperDone
  <2>2. \A u \in Threads : u # t => pc'[u] = pc[u] /\ sid'[u] = sid[u]
    BY <1>0, <1>34 DEF HelperDone, BatchCancelled, Report, NextFile
  <2>3. \A s \in Sessions : helper'[s] = "running" =>
          pc'[s] \in {"register helper", "helping"}
    BY <1>0, <2>1, <2>2 DEF ProcessInv
  <2>4. QED
    BY <2>1, <2>2, <2>3, ProcessWorker
<1>35. ASSUME NEW t \in Sessions, PublishOutput(t) PROVE ProcessInv'
  BY <1>0, <1>35, ProcessKept DEF PublishOutput, BatchCancelled, Report, NextFile
<1>36. ASSUME NEW t \in Sessions, PublishSource(t) PROVE ProcessInv'
  BY <1>0, <1>36, ProcessKept DEF PublishSource, BatchCancelled, Report, NextFile
<1>37. ASSUME UNCHANGED vars PROVE ProcessInv'
  BY <1>0, <1>37, ProcessKept DEF vars
<1>38. QED
  BY <1>1, <1>2, <1>3, <1>4, <1>5, <1>6, <1>7, <1>8, <1>9, <1>10, <1>11, <1>12, <1>13,
     <1>14, <1>15, <1>16, <1>17, <1>18, <1>19, <1>20, <1>21, <1>22, <1>23, <1>24, <1>25,
     <1>26, <1>27, <1>28, <1>29, <1>30, <1>31, <1>32, <1>33, <1>34, <1>35, <1>36, <1>37
  DEF Next, StartStep, CancelStep, CompleteStep, WorkerStep

-----------------------------------------------------------------------------
(* Whoever waits is answered                                               *)

\* A session that a cancel leaves to its worker has one, and so has the session
\* a cancel waits for.
WaitInv ==
  /\ slot # None /\ WorkerCompletes(slot) => pc[slot] \in WorkerLabels
  /\ \A t \in Starters \cup Cancellers :
       pc[t] \in {"killWait", "waitSlot"} /\ slot = sid[t] => pc[slot] \in WorkerLabels

\* Most steps give the session in the slot no new flag and take no worker away.
LEMMA WaitKept ==
  ASSUME WaitInv, slot' = slot,
         slot # None => /\ WorkerCompletes(slot)' => WorkerCompletes(slot)
                        /\ pc[slot] \in WorkerLabels => pc'[slot] \in WorkerLabels,
         \A t \in Starters \cup Cancellers :
           pc'[t] \in {"killWait", "waitSlot"} =>
             pc[t] \in {"killWait", "waitSlot"} /\ sid'[t] = sid[t] /\ sid[t] # None
  PROVE  WaitInv'
<1>1. slot' # None /\ WorkerCompletes(slot)' => pc'[slot'] \in WorkerLabels
  BY DEF WaitInv
<1>2. ASSUME NEW t \in Starters \cup Cancellers,
             pc'[t] \in {"killWait", "waitSlot"}, slot' = sid'[t]
      PROVE  pc'[slot'] \in WorkerLabels
  BY <1>2 DEF WaitInv
<1>3. QED
  BY <1>1, <1>2 DEF WaitInv

\* A cancel only waits for the slot if it found a worker's flag.
LEMMA CancelBeginWaits ==
  ASSUME IInv, NEW t \in Starters \cup Cancellers, NEW n, NEW m, CancelBegin(t, n, m), slot' = slot
  PROVE  /\ slot # None => /\ WorkerCompletes(slot)' => WorkerCompletes(slot)
                           /\ pc'[t] = "killWait" => WorkerCompletes(slot)
         /\ pc'[t] # "waitSlot" /\ (slot = None => pc'[t] = "waitFinal")
         /\ \A u \in Threads : u # t => pc'[u] = pc[u] /\ sid'[u] = sid[u]
<1>0. /\ t \in Threads /\ pc \in [Threads -> Labels] /\ sid \in [Threads -> 0 .. MaxSessions]
      /\ sess \in [Sessions -> SessionRec]
  BY DEF IInv, TypeOK, Threads
<1>1. CASE slot = None
  BY <1>0, <1>1 DEF CancelBegin, Goto
<1>2. CASE slot # None
  <2>0. slot \in Sessions
    BY <1>2, Basics
  <2> DEFINE show == n \/ (m /\ sess[slot].owner = "Manual")
             exit == WorkerCompletes(slot) \/ sess[slot].exitPending
  <2>1. /\ sess' = [sess EXCEPT ![slot].cancelled = TRUE, ![slot].notify = show,
                                ![slot].exitPending = exit,
                                ![slot].ytdlp = FALSE, ![slot].ffmpeg = FALSE]
        /\ sid' = [sid EXCEPT ![t] = slot]
        /\ pc' = [pc EXCEPT ![t] = IF WorkerCompletes(slot) THEN "killWait" ELSE "killComplete"]
    BY <1>2 DEF CancelBegin, Goto
  <2>2. exit => WorkerCompletes(slot)
    BY DEF WorkerCompletes
  <2> HIDE DEF show, exit
  <2>3. /\ sess'[slot].exitPending = exit
        /\ sess'[slot].convPending = sess[slot].convPending
        /\ sess'[slot].ytdlp = FALSE
    BY <1>0, <2>0, <2>1 DEF SessionRec
  <2>4. WorkerCompletes(slot)' => WorkerCompletes(slot)
    BY <2>2, <2>3 DEF WorkerCompletes
  <2>5. /\ pc'[t] = "killWait" => WorkerCompletes(slot)
        /\ pc'[t] # "waitSlot"
        /\ \A u \in Threads : u # t => pc'[u] = pc[u] /\ sid'[u] = sid[u]
    BY <1>0, <2>1
  <2>6. QED
    BY <1>2, <2>4, <2>5
<1>3. QED
  BY <1>1, <1>2

\* Every step keeps WaitInv.
LEMMA WaitStep ==
  ASSUME IInv, WaitInv, [Next]_vars
  PROVE  WaitInv'
<1> USE DEF Goto, locks, procs, locals, history
<1>0. /\ pc \in [Threads -> Labels] /\ sid \in [Threads -> 0 .. MaxSessions]
      /\ Threads = Starters \cup Cancellers \cup Sessions
      /\ Starters \cap Cancellers = {}
      /\ \A s \in Sessions : s \notin Starters \cup Cancellers
  BY Basics, SessionAssumption
<1>1. ASSUME NEW t \in Starters, StartCall(t) PROVE WaitInv'
  BY <1>0, <1>1, WaitKept, Basics
  DEF StartCall, WorkerCompletes, WorkerLabels, IInv, SidInv
<1>2. ASSUME NEW t \in Starters, StartConflict(t) PROVE WaitInv'
  BY <1>0, <1>2, WaitKept, Basics
  DEF StartConflict, WorkerCompletes, WorkerLabels, IInv, SidInv
<1>3. ASSUME NEW t \in Starters, StartExisting(t) PROVE WaitInv'
  BY <1>0, <1>3, WaitKept, Basics
  DEF StartExisting, WorkerCompletes, WorkerLabels, IInv, SidInv
<1>4. ASSUME NEW t \in Starters, StartReplace(t) PROVE WaitInv'
  <2>1. PICK n \in BOOLEAN, m \in BOOLEAN : CancelBegin(t, n, m)
    BY <1>4 DEF StartReplace
  <2>2. UNCHANGED slot
    BY <1>4 DEF StartReplace
  <2>3. /\ slot # None => /\ WorkerCompletes(slot)' => WorkerCompletes(slot)
                          /\ pc'[t] = "killWait" => WorkerCompletes(slot)
        /\ pc'[t] # "waitSlot" /\ (slot = None => pc'[t] = "waitFinal")
        /\ \A u \in Threads : u # t => pc'[u] = pc[u] /\ sid'[u] = sid[u]
    BY <2>1, <2>2, CancelBeginWaits
  <2>4. slot # None => slot \in Sessions /\ slot # t
    BY <1>0, Basics
  <2>5. slot # None /\ WorkerCompletes(slot)' => pc'[slot] \in WorkerLabels
    BY <1>0, <2>3, <2>4 DEF WaitInv
  <2>6. ASSUME NEW u \in Starters \cup Cancellers,
               pc'[u] \in {"killWait", "waitSlot"}, slot = sid'[u]
        PROVE  pc'[slot] \in WorkerLabels
    <3>1. slot # None
      BY <1>0, <2>3, <2>6, Basics DEF IInv, SidInv
    <3>2. pc[slot] \in WorkerLabels
      BY <1>0, <2>3, <2>6, <3>1 DEF WaitInv
    <3>3. QED
      BY <1>0, <2>3, <2>4, <3>1, <3>2
  <2>7. QED
    BY <2>2, <2>5, <2>6 DEF WaitInv
<1>5. ASSUME NEW t \in Starters, Install(t) PROVE WaitInv'
  <2>1. /\ slot' = counter + 1 /\ counter + 1 \in Sessions
        /\ sess' = [sess EXCEPT ![counter + 1] = NewSession(own)]
        /\ pc' = [pc EXCEPT ![t] = "setup"]
        /\ \A u \in Threads : u # t => sid'[u] = sid[u]
    BY <1>0, <1>5, Basics, SessionAssumption
    DEF Install, IInv, StartupInv, StartLabels, Sessions
  <2>2. sess'[counter + 1] = NewSession(own)
    BY <2>1 DEF IInv, TypeOK
  <2>3. ~WorkerCompletes(slot)'
    BY <2>1, <2>2 DEF WorkerCompletes, NewSession
  <2>4. \A u \in Threads : u # t => sid'[u] # slot'
    BY <2>1, Basics DEF IInv, SidInv
  <2>5. QED
    BY <1>0, <2>1, <2>3, <2>4 DEF WaitInv
<1>6. ASSUME NEW t \in Starters, SetupFails(t) PROVE WaitInv'
  BY <1>0, <1>6, WaitKept, Basics
  DEF SetupFails, Report, WorkerCompletes, WorkerLabels, IInv, SidInv
<1>7. ASSUME NEW t \in Starters, SetupAbandoned(t) PROVE WaitInv'
  BY <1>0, <1>7, WaitKept, Basics
  DEF SetupAbandoned, Forget, WorkerCompletes, WorkerLabels, IInv, SidInv
<1>8. ASSUME NEW t \in Starters, SpawnYtdlp(t) PROVE WaitInv'
  BY <1>0, <1>8, WaitKept, Basics
  DEF SpawnYtdlp, WorkerCompletes, WorkerLabels, IInv, SidInv
<1>9. ASSUME NEW t \in Starters, RegisterYtdlp(t) PROVE WaitInv'
  <2>1. /\ slot = sid[t] /\ slot' = slot /\ slot \in Sessions
        /\ pc' = [pc EXCEPT ![t] = "idle", ![slot] = "waiting"]
    BY <1>0, <1>9, Basics DEF RegisterYtdlp, ActiveNotCancelled, IInv, SidInv
  <2>2. pc'[slot'] \in WorkerLabels
    BY <1>0, <2>1 DEF WorkerLabels
  <2>3. QED
    BY <2>2 DEF WaitInv
<1>10. ASSUME NEW t \in Starters, RegisterRefused(t) PROVE WaitInv'
  BY <1>0, <1>10, WaitKept, Basics
  DEF RegisterRefused, WorkerCompletes, WorkerLabels, IInv, SidInv
<1>11. ASSUME NEW t \in Starters, ReapYtdlp(t) PROVE WaitInv'
  BY <1>0, <1>11, WaitKept, Basics
  DEF ReapYtdlp, Forget, WorkerCompletes, WorkerLabels, IInv, SidInv
<1>12. ASSUME NEW t \in Cancellers, CancelCall(t) PROVE WaitInv'
  <2>1. PICK n \in BOOLEAN, m \in BOOLEAN : CancelBegin(t, n, m)
    BY <1>12 DEF CancelCall
  <2>2. UNCHANGED slot
    BY <1>12 DEF CancelCall
  <2>3. /\ slot # None => /\ WorkerCompletes(slot)' => WorkerCompletes(slot)
                          /\ pc'[t] = "killWait" => WorkerCompletes(slot)
        /\ pc'[t] # "waitSlot" /\ (slot = None => pc'[t] = "waitFinal")
        /\ \A u \in Threads : u # t => pc'[u] = pc[u] /\ sid'[u] = sid[u]
    BY <2>1, <2>2, CancelBeginWaits
  <2>4. slot # None => slot \in Sessions /\ slot # t
    BY <1>0, Basics
  <2>5. slot # None /\ WorkerCompletes(slot)' => pc'[slot] \in WorkerLabels
    BY <1>0, <2>3, <2>4 DEF WaitInv
  <2>6. ASSUME NEW u \in Starters \cup Cancellers,
               pc'[u] \in {"killWait", "waitSlot"}, slot = sid'[u]
        PROVE  pc'[slot] \in WorkerLabels
    <3>1. slot # None
      BY <1>0, <2>3, <2>6, Basics DEF IInv, SidInv
    <3>2. pc[slot] \in WorkerLabels
      BY <1>0, <2>3, <2>6, <3>1 DEF WaitInv
    <3>3. QED
      BY <1>0, <2>3, <2>4, <3>1, <3>2
  <2>7. QED
    BY <2>2, <2>5, <2>6 DEF WaitInv
<1>13. ASSUME NEW t \in Cancellers, CancelReturn(t) PROVE WaitInv'
  BY <1>0, <1>13, WaitKept, Basics
  DEF CancelReturn, WorkerCompletes, WorkerLabels, IInv, SidInv
<1>14. ASSUME NEW t \in Starters \cup Cancellers, CancelKill(t) PROVE WaitInv'
  <2>1. /\ pc[t] \in {"killWait", "killComplete"} /\ UNCHANGED <<slot, sess, sid>>
        /\ pc' = [pc EXCEPT ![t] = IF pc[t] = "killWait" THEN "waitSlot" ELSE "complete"]
    BY <1>14 DEF CancelKill
  <2>2. QED
    BY <1>0, <2>1, Basics, WaitKept DEF WorkerCompletes, IInv, SidInv
<1>15. ASSUME NEW t \in Starters \cup Cancellers, WaitSlot(t) PROVE WaitInv'
  BY <1>0, <1>15, WaitKept, Basics
  DEF WaitSlot, WorkerCompletes, WorkerLabels, IInv, SidInv
<1>16. ASSUME NEW t \in Starters \cup Cancellers, WaitFinal(t) PROVE WaitInv'
  BY <1>0, <1>16, WaitKept, Basics
  DEF WaitFinal, WorkerCompletes, WorkerLabels, IInv, SidInv
<1>17. ASSUME NEW t \in Threads, CompleteTake(t) PROVE WaitInv'
  <2>1. CASE slot' = None
    <3>1. \A u \in Starters \cup Cancellers :
            pc'[u] \in {"killWait", "waitSlot"} => sid'[u] # None
      BY <1>0, <1>17 DEF CompleteTake, Continuation, Forget, IInv, SidInv
    <3>2. QED
      BY <2>1, <3>1 DEF WaitInv
  <2>2. CASE slot' # None
    <3>1. /\ slot # sid[t] /\ UNCHANGED <<slot, sess>> /\ pc[t] = "complete"
          /\ pc' = [pc EXCEPT ![t] = Continuation(t)]
      BY <1>0, <1>17, <2>2 DEF CompleteTake
    <3>2. slot # t
      BY <1>0, <2>2, <3>1, Basics DEF IInv, SidInv
    <3>3. \A u \in Threads : u # t => sid'[u] = sid[u]
      BY <1>0, <1>17 DEF CompleteTake, Forget
    <3>4. Continuation(t) \notin {"killWait", "waitSlot"}
      BY DEF Continuation
    <3>5. QED
      BY <1>0, <3>1, <3>2, <3>3, <3>4, WaitKept DEF WorkerCompletes, IInv, SidInv
  <2>3. QED
    BY <2>1, <2>2
<1>18. ASSUME NEW t \in Threads, CompletePublish(t) PROVE WaitInv'
  BY <1>0, <1>18, WaitKept, Basics
  DEF CompletePublish, WorkerCompletes, WorkerLabels, IInv, SidInv
<1>19. ASSUME NEW t \in Threads, CompleteCallback(t) PROVE WaitInv'
  BY <1>0, <1>19, WaitKept, Basics
  DEF CompleteCallback, WorkerCompletes, WorkerLabels, IInv, SidInv
<1>20. ASSUME NEW t \in Threads, CompleteFinish(t) PROVE WaitInv'
  <2>1. /\ pc[t] = "calling" /\ slot' = slot
        /\ sess' = [sess EXCEPT ![sid[t]] =
             [NewSession(@.owner) EXCEPT !.cancelled = sess[sid[t]].cancelled]]
        /\ pc' = [pc EXCEPT ![t] = Continuation(t)]
        /\ \A u \in Threads : u # t => sid'[u] = sid[u]
    BY <1>0, <1>20 DEF CompleteFinish, Forget
  <2>2. slot # sid[t]
    BY <1>20, <2>1, FinishedIdle DEF Taken
  <2>3. slot # None => slot \in Sessions /\ sess'[slot] = sess[slot]
    BY <2>1, <2>2, Basics DEF IInv, TypeOK
  <2>4. Continuation(t) \notin {"killWait", "waitSlot"}
    BY DEF Continuation
  <2>5. QED
    BY <1>0, <2>1, <2>3, <2>4, WaitKept DEF WorkerCompletes, WorkerLabels, IInv, SidInv
<1>21. ASSUME NEW t \in Sessions, YtdlpExits(t) PROVE WaitInv'
  BY <1>0, <1>21, WaitKept, Basics
  DEF YtdlpExits, WorkerCompletes, WorkerLabels, IInv, SidInv
<1>22. ASSUME NEW t \in Sessions, Progress(t) PROVE WaitInv'
  BY <1>0, <1>22, WaitKept, Basics
  DEF Progress, WorkerCompletes, WorkerLabels, IInv, SidInv
<1>23. ASSUME NEW t \in Sessions, WorkerStep(t) PROVE WaitInv'
  <2>1. WorkerMoves(t)
    BY <1>23, WorkerStepMoves
  <2>2. PICK label \in WorkerLabels : pc' = [pc EXCEPT ![t] = label]
    BY <2>1 DEF WorkerMoves
  <2>3. slot = t /\ slot' = t
    BY <2>1 DEF WorkerMoves, IInv, WorkerInv
  <2>4. pc'[slot'] \in WorkerLabels
    BY <1>0, <2>2, <2>3
  <2>5. QED
    BY <2>4 DEF WaitInv
<1>24. ASSUME UNCHANGED vars PROVE WaitInv'
  BY <1>0, <1>24, WaitKept, Basics DEF vars, WorkerCompletes, WorkerLabels, IInv, SidInv
<1>25. QED
  BY <1>1, <1>2, <1>3, <1>4, <1>5, <1>6, <1>7, <1>8, <1>9, <1>10, <1>11, <1>12, <1>13,
     <1>14, <1>15, <1>16, <1>17, <1>18, <1>19, <1>20, <1>21, <1>22, <1>23, <1>24
  DEF Next, StartStep, CancelStep, CompleteStep

-----------------------------------------------------------------------------
(* Events and sessions follow each other in order                          *)

\* A worker leaves alone what cancels and completions have of their own.
LEMMA WorkerStepLeaves ==
  ASSUME NEW s \in Sessions, WorkerStep(s)
  PROVE  UNCHANGED <<publish, ytdlp, kids, pend, result, event>>
<1> USE DEF locks, procs, locals, history
<1>1. CASE ExitSeen(s)
  BY <1>1 DEF ExitSeen
<1>2. CASE ExitFailed(s)
  BY <1>2 DEF ExitFailed
<1>3. CASE ExitUsable(s)
  BY <1>3 DEF ExitUsable
<1>4. CASE InstallFiles(s)
  BY <1>4 DEF InstallFiles
<1>5. CASE Handoff(s)
  BY <1>5 DEF Handoff
<1>6. CASE ConvertNext(s)
  BY <1>6 DEF ConvertNext
<1>7. CASE PublishSame(s)
  BY <1>7 DEF PublishSame
<1>8. CASE SpawnHelper(s)
  BY <1>8 DEF SpawnHelper
<1>9. CASE SpawnHelperFails(s)
  BY <1>9 DEF SpawnHelperFails
<1>10. CASE RegisterHelper(s)
  BY <1>10 DEF RegisterHelper
<1>11. CASE HelperExits(s)
  BY <1>11 DEF HelperExits
<1>12. CASE HelperDone(s)
  BY <1>12 DEF HelperDone
<1>13. CASE PublishOutput(s)
  BY <1>13 DEF PublishOutput
<1>14. CASE PublishSource(s)
  BY <1>14 DEF PublishSource
<1>15. QED
  BY <1>1, <1>2, <1>3, <1>4, <1>5, <1>6, <1>7, <1>8, <1>9, <1>10, <1>11, <1>12, <1>13,
     <1>14
  DEF WorkerStep

\* EVENT_PUBLISH is held from the moment a session leaves the slot to its last
\* event, and the session in the slot is the newest.
EventInv ==
  /\ slot \in {None, counter}
  /\ \A t \in Threads : pc[t] = "publish" => publish = t
  /\ publish # NoThread =>
       slot = None /\ sid[publish] = counter /\ pc[publish] = "publish"
  /\ \A s \in Sessions :
       /\ s > counter => event[s] = "none"
       /\ s <= counter /\ slot # s =>
            event[s] = "complete" \/ (s = counter /\ publish # NoThread)

\* Most steps neither publish nor touch the slot.
LEMMA EventKept ==
  ASSUME IInv, EventInv, UNCHANGED <<slot, counter, publish, event>>,
         \A t \in Threads : (pc[t] = "publish") = (pc'[t] = "publish"),
         \A t \in Threads : pc[t] = "publish" => sid'[t] = sid[t]
  PROVE  EventInv'
<1>1. publish # NoThread => publish \in Threads
  BY DEF IInv, TypeOK
<1>2. QED
  BY <1>1 DEF EventInv

\* Every step keeps EventInv.
LEMMA EventStep ==
  ASSUME IInv, EventInv, [Next]_vars
  PROVE  EventInv'
<1> USE DEF Goto, locks, procs, locals, history
<1>0. /\ pc \in [Threads -> Labels] /\ sid \in [Threads -> 0 .. MaxSessions]
      /\ Threads = Starters \cup Cancellers \cup Sessions
      /\ Starters \cap Cancellers = {}
      /\ \A s \in Sessions : s \notin Starters \cup Cancellers
  BY Basics, SessionAssumption
<1>1. ASSUME NEW t \in Starters, StartCall(t) PROVE EventInv'
  <2>1. /\ UNCHANGED <<slot, counter, publish, event, sid>> /\ pc[t] = "idle"
        /\ pc' = [pc EXCEPT ![t] = "existing"]
    BY <1>1 DEF StartCall
  <2>2. QED
    BY <1>0, <2>1, EventKept
<1>2. ASSUME NEW t \in Starters, StartConflict(t) PROVE EventInv'
  BY <1>0, <1>2, EventKept DEF StartConflict
<1>3. ASSUME NEW t \in Starters, StartExisting(t) PROVE EventInv'
  BY <1>0, <1>3, EventKept DEF StartExisting
<1>4. ASSUME NEW t \in Starters, StartReplace(t) PROVE EventInv'
  <2>1. /\ CancelLooks(t) /\ UNCHANGED <<slot, counter, publish, event>>
        /\ pc[t] # "publish"
    BY <1>4, StartReplaceLooks DEF StartReplace
  <2>2. QED
    BY <1>0, <2>1, EventKept DEF CancelLooks
<1>5. ASSUME NEW t \in Starters, Install(t) PROVE EventInv'
  <2>1. /\ slot' = counter' /\ counter' = counter + 1 /\ publish = NoThread
        /\ pc' = [pc EXCEPT ![t] = "setup"] /\ UNCHANGED <<publish, event>>
    BY <1>0, <1>5 DEF Install
  <2>2. slot = None /\ counter \in Nat
    BY <1>0, <1>5, Basics DEF Install, IInv, StartupInv, StartLabels
  <2>3. \A u \in Threads : pc'[u] # "publish"
    BY <1>0, <2>1, SessionAssumption DEF EventInv
  <2>4. ASSUME NEW s \in Sessions
        PROVE  /\ s > counter' => event'[s] = "none"
               /\ s <= counter' /\ slot' # s => event'[s] = "complete"
    <3>1. s \in Nat /\ s # None
      BY Basics
    <3>2. s > counter' => s > counter
      BY <2>1, <2>2, <3>1
    <3>3. s <= counter' /\ slot' # s => s <= counter /\ slot # s
      BY <2>1, <2>2, <3>1
    <3>4. QED
      BY <2>1, <3>2, <3>3 DEF EventInv
  <2>5. QED
    BY <2>1, <2>3, <2>4 DEF EventInv
<1>6. ASSUME NEW t \in Starters, SetupFails(t) PROVE EventInv'
  BY <1>0, <1>6, EventKept DEF SetupFails, Report
<1>7. ASSUME NEW t \in Starters, SetupAbandoned(t) PROVE EventInv'
  BY <1>0, <1>7, EventKept DEF SetupAbandoned, Forget
<1>8. ASSUME NEW t \in Starters, SpawnYtdlp(t) PROVE EventInv'
  BY <1>0, <1>8, EventKept DEF SpawnYtdlp
<1>9. ASSUME NEW t \in Starters, RegisterYtdlp(t) PROVE EventInv'
  <2>1. /\ UNCHANGED <<slot, counter, publish, event>> /\ pc[t] = "register"
        /\ pc' = [pc EXCEPT ![t] = "idle", ![sid[t]] = "waiting"]
        /\ \A u \in Threads : u # t => sid'[u] = sid[u]
    BY <1>0, <1>9 DEF RegisterYtdlp, Forget
  <2>2. slot = sid[t] /\ sid[t] \in Sessions
    BY <1>0, <1>9, Basics DEF RegisterYtdlp, ActiveNotCancelled, IInv, SidInv
  <2>3. pc[sid[t]] # "publish"
    BY <1>0, <2>2, FinishedIdle, Basics DEF Taken, EventInv, IInv, SidInv
  <2>4. QED
    BY <1>0, <2>1, <2>2, <2>3, EventKept
<1>10. ASSUME NEW t \in Starters, RegisterRefused(t) PROVE EventInv'
  BY <1>0, <1>10, EventKept DEF RegisterRefused
<1>11. ASSUME NEW t \in Starters, ReapYtdlp(t) PROVE EventInv'
  BY <1>0, <1>11, EventKept DEF ReapYtdlp, Forget
<1>12. ASSUME NEW t \in Cancellers, CancelCall(t) PROVE EventInv'
  <2>1. /\ CancelLooks(t) /\ UNCHANGED <<slot, counter, publish, event>>
        /\ pc[t] # "publish"
    BY <1>12, CancelCallLooks DEF CancelCall
  <2>2. QED
    BY <1>0, <2>1, EventKept DEF CancelLooks
<1>13. ASSUME NEW t \in Cancellers, CancelReturn(t) PROVE EventInv'
  BY <1>0, <1>13, EventKept DEF CancelReturn
<1>14. ASSUME NEW t \in Starters \cup Cancellers, CancelKill(t) PROVE EventInv'
  BY <1>0, <1>14, EventKept DEF CancelKill
<1>15. ASSUME NEW t \in Starters \cup Cancellers, WaitSlot(t) PROVE EventInv'
  BY <1>0, <1>15, EventKept DEF WaitSlot
<1>16. ASSUME NEW t \in Starters \cup Cancellers, WaitFinal(t) PROVE EventInv'
  BY <1>0, <1>16, EventKept DEF WaitFinal
<1>17. ASSUME NEW t \in Threads, CompleteTake(t) PROVE EventInv'
  <2>1. CASE slot = sid[t]
    <3>1. /\ slot' = None /\ publish' = t /\ publish = NoThread /\ t # NoThread
          /\ pc' = [pc EXCEPT ![t] = "publish"]
          /\ UNCHANGED <<counter, event, sid>>
      BY <1>0, <1>17, <2>1, SessionAssumption DEF CompleteTake
    <3>2. slot = counter /\ pc'[t] = "publish"
      BY <1>0, <1>17, <2>1, <3>1 DEF EventInv, IInv, SidInv, CompleteTake
    <3>3. \A u \in Threads : pc'[u] = "publish" => u = t
      BY <1>0, <3>1, SessionAssumption DEF EventInv
    <3>4. \A s \in Sessions : s # None
      BY Basics
    <3>5. QED
      BY <2>1, <3>1, <3>2, <3>3, <3>4 DEF EventInv
  <2>2. CASE slot # sid[t]
    <3>1. /\ UNCHANGED <<slot, counter, publish, event>> /\ pc[t] = "complete"
          /\ pc' = [pc EXCEPT ![t] = Continuation(t)]
      BY <1>0, <1>17, <2>2 DEF CompleteTake
    <3>2. \A u \in Threads : u # t => sid'[u] = sid[u]
      BY <1>0, <1>17 DEF CompleteTake, Forget
    <3>3. Continuation(t) # "publish"
      BY DEF Continuation
    <3>4. QED
      BY <1>0, <3>1, <3>2, <3>3, EventKept
  <2>3. QED
    BY <2>1, <2>2
<1>18. ASSUME NEW t \in Threads, CompletePublish(t) PROVE EventInv'
  <2>1. /\ pc[t] = "publish" /\ publish' = NoThread
        /\ event' = [event EXCEPT ![sid[t]] = "complete"]
        /\ pc' = [pc EXCEPT ![t] = "callback"]
        /\ UNCHANGED <<slot, counter, sid>>
    BY <1>0, <1>18 DEF CompletePublish
  <2>2. publish = t /\ t # NoThread
    BY <2>1, SessionAssumption DEF EventInv
  <2>3. slot = None /\ sid[t] = counter /\ counter \in Sessions /\ counter \in Nat
    BY <1>0, <2>1, <2>2, Basics DEF EventInv, IInv, SidInv, Taken
  <2>4. \A u \in Threads : pc'[u] # "publish"
    BY <1>0, <2>1, <2>2 DEF EventInv
  <2>5. /\ event'[counter] = "complete"
        /\ \A s \in Sessions : s # counter => event'[s] = event[s]
    BY <2>1, <2>3 DEF IInv, TypeOK
  <2>6. QED
    BY <2>1, <2>3, <2>4, <2>5, Basics DEF EventInv
<1>19. ASSUME NEW t \in Threads, CompleteCallback(t) PROVE EventInv'
  <2>1. /\ pc[t] = "callback" /\ UNCHANGED <<slot, counter, publish, event, sid>>
        /\ pc' = [pc EXCEPT ![t] = "calling"]
    BY <1>19 DEF CompleteCallback
  <2>2. QED
    BY <1>0, <2>1, EventKept
<1>20. ASSUME NEW t \in Threads, CompleteFinish(t) PROVE EventInv'
  <2>1. /\ pc[t] = "calling" /\ UNCHANGED <<slot, counter, publish, event>>
        /\ pc' = [pc EXCEPT ![t] = Continuation(t)]
        /\ \A u \in Threads : u # t => sid'[u] = sid[u]
    BY <1>0, <1>20 DEF CompleteFinish, Forget
  <2>2. Continuation(t) # "publish"
    BY DEF Continuation
  <2>3. QED
    BY <1>0, <2>1, <2>2, EventKept
<1>21. ASSUME NEW t \in Sessions, YtdlpExits(t) PROVE EventInv'
  BY <1>0, <1>21, EventKept DEF YtdlpExits
<1>22. ASSUME NEW t \in Sessions, Progress(t) PROVE EventInv'
  <2>1. /\ slot = t /\ event' = [event EXCEPT ![t] = "progress"]
        /\ UNCHANGED <<slot, counter, publish, pc, sid>>
    BY <1>22 DEF Progress
  <2>2. \A s \in Sessions : s # slot => event'[s] = event[s]
    BY <2>1 DEF IInv, TypeOK
  <2>3. slot <= counter /\ slot \in Nat /\ counter \in Nat
    BY Basics
  <2>4. QED
    BY <1>0, <2>1, <2>2, <2>3 DEF EventInv
<1>23. ASSUME NEW t \in Sessions, WorkerStep(t) PROVE EventInv'
  <2>1. WorkerMoves(t) /\ UNCHANGED <<publish, event>>
    BY <1>23, WorkerStepMoves, WorkerStepLeaves
  <2>2. PICK label \in WorkerLabels : pc' = [pc EXCEPT ![t] = label]
    BY <2>1 DEF WorkerMoves
  <2>3. pc[t] \in WorkerLabels /\ UNCHANGED <<slot, counter>>
    BY <2>1 DEF WorkerMoves
  <2>4. \A u \in Threads : u # t => sid'[u] = sid[u]
    BY <1>0, <2>1 DEF WorkerMoves
  <2>5. pc'[t] # "publish" /\ pc[t] # "publish"
    BY <1>0, <2>2, <2>3 DEF WorkerLabels
  <2>6. QED
    BY <1>0, <2>1, <2>2, <2>3, <2>4, <2>5, EventKept
<1>24. ASSUME UNCHANGED vars PROVE EventInv'
  BY <1>0, <1>24, EventKept DEF vars
<1>25. QED
  BY <1>1, <1>2, <1>3, <1>4, <1>5, <1>6, <1>7, <1>8, <1>9, <1>10, <1>11, <1>12, <1>13,
     <1>14, <1>15, <1>16, <1>17, <1>18, <1>19, <1>20, <1>21, <1>22, <1>23, <1>24
  DEF Next, StartStep, CancelStep, CompleteStep

\* What start_download knows of the session it is about to replace.
LEMMA ReplaceKept ==
  ASSUME IInv, ReplacesOwnSessionOnly, UNCHANGED <<slot, own>>, SeenKept,
         \A t \in Starters : pc'[t] = "replace" => pc[t] = "replace"
  PROVE  ReplacesOwnSessionOnly'
<1>1. slot # None => slot \in Sessions
  BY Basics
<1>2. QED
  BY <1>1 DEF ReplacesOwnSessionOnly, SeenKept

\* Nobody replaces a session and another thread has STARTUP.
LEMMA ReplaceHolds ==
  ASSUME IInv, NEW t \in Starters, startup = t,
         NEW u \in Starters, pc[u] = "replace"
  PROVE  u = t
BY DEF IInv, StartupInv, StartLabels

\* Every step keeps ReplacesOwnSessionOnly.
LEMMA ReplaceStep ==
  ASSUME IInv, ReplacesOwnSessionOnly, [Next]_vars
  PROVE  ReplacesOwnSessionOnly'
<1> USE DEF Goto, locks, procs, locals, history
<1>0. /\ pc \in [Threads -> Labels] /\ sid \in [Threads -> 0 .. MaxSessions]
      /\ Threads = Starters \cup Cancellers \cup Sessions
      /\ Starters \cap Cancellers = {}
      /\ \A s \in Sessions : s \notin Starters \cup Cancellers
  BY Basics, SessionAssumption
<1>1. ASSUME NEW t \in Starters, StartCall(t) PROVE ReplacesOwnSessionOnly'
  <2>1. /\ startup = NoThread /\ pc' = [pc EXCEPT ![t] = "existing"]
    BY <1>1 DEF StartCall
  <2>2. \A u \in Starters : pc[u] # "replace"
    BY <1>0, <2>1, SessionAssumption DEF IInv, StartupInv, StartLabels
  <2>3. \A u \in Starters : pc'[u] # "replace"
    BY <1>0, <2>1, <2>2
  <2>4. QED
    BY <2>3 DEF ReplacesOwnSessionOnly
<1>2. ASSUME NEW t \in Starters, StartConflict(t) PROVE ReplacesOwnSessionOnly'
  <2>1. \A u \in Starters : pc'[u] # "replace"
    BY <1>0, <1>2, ReplaceHolds DEF StartConflict, IInv, StartupInv, StartLabels
  <2>2. QED
    BY <2>1 DEF ReplacesOwnSessionOnly
<1>3. ASSUME NEW t \in Starters, StartExisting(t) PROVE ReplacesOwnSessionOnly'
  <2>1. UNCHANGED <<slot, own, sess>> /\ pc[t] = "existing"
    BY <1>3 DEF StartExisting
  <2>2. \A u \in Starters : pc'[u] = "replace" => u = t
    BY <1>0, <1>3, ReplaceHolds DEF StartExisting, IInv, StartupInv, StartLabels
  <2>3. slot # None => sess[slot].owner = own
    BY <1>3 DEF StartExisting
  <2>4. QED
    BY <2>1, <2>2, <2>3 DEF ReplacesOwnSessionOnly
<1>4. ASSUME NEW t \in Starters, StartReplace(t) PROVE ReplacesOwnSessionOnly'
  <2>1. CancelLooks(t) /\ pc[t] = "replace" /\ startup = t
    BY <1>0, <1>4, StartReplaceLooks DEF StartReplace, IInv, StartupInv, StartLabels
  <2>2. \A u \in Starters : pc'[u] # "replace"
    BY <1>0, <2>1, ReplaceHolds DEF CancelLooks
  <2>3. QED
    BY <2>2 DEF ReplacesOwnSessionOnly
<1>5. ASSUME NEW t \in Starters, Install(t) PROVE ReplacesOwnSessionOnly'
  <2>1. \A u \in Starters : pc'[u] # "replace"
    BY <1>0, <1>5, ReplaceHolds DEF Install, IInv, StartupInv, StartLabels
  <2>2. QED
    BY <2>1 DEF ReplacesOwnSessionOnly
<1>6. ASSUME NEW t \in Starters, SetupFails(t) PROVE ReplacesOwnSessionOnly'
  BY <1>0, <1>6, ReplaceKept DEF SetupFails, Report, SeenKept
<1>7. ASSUME NEW t \in Starters, SetupAbandoned(t) PROVE ReplacesOwnSessionOnly'
  BY <1>0, <1>7, ReplaceKept DEF SetupAbandoned, Forget, SeenKept
<1>8. ASSUME NEW t \in Starters, SpawnYtdlp(t) PROVE ReplacesOwnSessionOnly'
  BY <1>0, <1>8, ReplaceKept DEF SpawnYtdlp, SeenKept
<1>9. ASSUME NEW t \in Starters, RegisterYtdlp(t) PROVE ReplacesOwnSessionOnly'
  <2>1. /\ UNCHANGED <<slot, own>> /\ slot = sid[t] /\ slot \in Sessions
        /\ sess' = [sess EXCEPT ![slot].ytdlp = TRUE, ![slot].exitPending = TRUE]
        /\ pc' = [pc EXCEPT ![t] = "idle", ![slot] = "waiting"]
    BY <1>0, <1>9, Basics DEF RegisterYtdlp, ActiveNotCancelled, IInv, SidInv
  <2>2. SeenKept
    BY <2>1 DEF SeenKept, IInv, TypeOK, SessionRec
  <2>3. QED
    BY <1>0, <2>1, <2>2, ReplaceKept
<1>10. ASSUME NEW t \in Starters, RegisterRefused(t) PROVE ReplacesOwnSessionOnly'
  BY <1>0, <1>10, ReplaceKept DEF RegisterRefused, SeenKept
<1>11. ASSUME NEW t \in Starters, ReapYtdlp(t) PROVE ReplacesOwnSessionOnly'
  BY <1>0, <1>11, ReplaceKept DEF ReapYtdlp, Forget, SeenKept
<1>12. ASSUME NEW t \in Cancellers, CancelCall(t) PROVE ReplacesOwnSessionOnly'
  <2>1. CancelLooks(t) /\ UNCHANGED <<slot, own>>
    BY <1>12, CancelCallLooks
  <2>2. \A u \in Sessions : sess'[u].owner = sess[u].owner
    BY <1>0, <1>12, CancelBeginSeen DEF CancelCall, CancelSeen
  <2>3. \A u \in Starters : u \in Threads /\ u # t
    BY <1>0
  <2>4. \A u \in Starters : pc'[u] = pc[u]
    BY <1>0, <2>1, <2>3 DEF CancelLooks
  <2>5. slot # None => slot \in Sessions
    BY Basics
  <2>6. QED
    BY <2>1, <2>2, <2>4, <2>5 DEF ReplacesOwnSessionOnly
<1>13. ASSUME NEW t \in Cancellers, CancelReturn(t) PROVE ReplacesOwnSessionOnly'
  BY <1>0, <1>13, ReplaceKept DEF CancelReturn, SeenKept
<1>14. ASSUME NEW t \in Starters \cup Cancellers, CancelKill(t)
       PROVE  ReplacesOwnSessionOnly'
  BY <1>0, <1>14, ReplaceKept DEF CancelKill, SeenKept
<1>15. ASSUME NEW t \in Starters \cup Cancellers, WaitSlot(t)
       PROVE  ReplacesOwnSessionOnly'
  BY <1>0, <1>15, ReplaceKept DEF WaitSlot, SeenKept
<1>16. ASSUME NEW t \in Starters \cup Cancellers, WaitFinal(t)
       PROVE  ReplacesOwnSessionOnly'
  BY <1>0, <1>16, ReplaceKept DEF WaitFinal, SeenKept
<1>17. ASSUME NEW t \in Threads, CompleteTake(t) PROVE ReplacesOwnSessionOnly'
  <2>1. CASE slot' = None
    BY <2>1 DEF ReplacesOwnSessionOnly
  <2>2. CASE slot' # None
    <3>1. UNCHANGED <<slot, own, sess>> /\ pc' = [pc EXCEPT ![t] = Continuation(t)]
      BY <1>17, <2>2 DEF CompleteTake
    <3>2. Continuation(t) # "replace"
      BY DEF Continuation
    <3>3. QED
      BY <1>0, <3>1, <3>2, ReplaceKept DEF SeenKept
  <2>3. QED
    BY <2>1, <2>2
<1>18. ASSUME NEW t \in Threads, CompletePublish(t) PROVE ReplacesOwnSessionOnly'
  BY <1>0, <1>18, ReplaceKept DEF CompletePublish, SeenKept
<1>19. ASSUME NEW t \in Threads, CompleteCallback(t) PROVE ReplacesOwnSessionOnly'
  BY <1>0, <1>19, ReplaceKept DEF CompleteCallback, SeenKept
<1>20. ASSUME NEW t \in Threads, CompleteFinish(t) PROVE ReplacesOwnSessionOnly'
  <2>1. UNCHANGED <<slot, own>> /\ pc' = [pc EXCEPT ![t] = Continuation(t)]
    BY <1>20 DEF CompleteFinish
  <2>2. Continuation(t) # "replace"
    BY DEF Continuation
  <2>3. SeenKept
    BY <1>20, FinishSeen
  <2>4. QED
    BY <1>0, <2>1, <2>2, <2>3, ReplaceKept
<1>21. ASSUME NEW t \in Sessions, YtdlpExits(t) PROVE ReplacesOwnSessionOnly'
  BY <1>0, <1>21, ReplaceKept DEF YtdlpExits, SeenKept
<1>22. ASSUME NEW t \in Sessions, Progress(t) PROVE ReplacesOwnSessionOnly'
  BY <1>0, <1>22, ReplaceKept DEF Progress, SeenKept
<1>23. ASSUME NEW t \in Sessions, WorkerStep(t) PROVE ReplacesOwnSessionOnly'
  <2>1. WorkerMoves(t) /\ SeenKept
    BY <1>23, WorkerStepMoves, WorkerStepReports DEF WorkerReports
  <2>2. PICK label \in WorkerLabels : pc' = [pc EXCEPT ![t] = label]
    BY <2>1 DEF WorkerMoves
  <2>3. UNCHANGED <<slot, own>>
    BY <2>1 DEF WorkerMoves
  <2>4. QED
    BY <1>0, <2>1, <2>2, <2>3, ReplaceKept
<1>24. ASSUME UNCHANGED vars PROVE ReplacesOwnSessionOnly'
  BY <1>0, <1>24, ReplaceKept DEF vars, SeenKept
<1>25. QED
  BY <1>1, <1>2, <1>3, <1>4, <1>5, <1>6, <1>7, <1>8, <1>9, <1>10, <1>11, <1>12, <1>13,
     <1>14, <1>15, <1>16, <1>17, <1>18, <1>19, <1>20, <1>21, <1>22, <1>23, <1>24
  DEF Next, StartStep, CancelStep, CompleteStep

-----------------------------------------------------------------------------
(* The theorems                                                            *)

SafetyInv ==
  IInv /\ ProcessInv /\ WaitInv /\ EventInv /\ ReplacesOwnSessionOnly

\* The invariant of this module holds initially.
LEMMA InitSafety == Init => SafetyInv
<1> SUFFICES ASSUME Init PROVE SafetyInv
  OBVIOUS
<1>1. IInv
  BY InitIInv
<1>2. ProcessInv /\ WaitInv /\ ReplacesOwnSessionOnly
  BY SessionAssumption DEF Init, ProcessInv, WaitInv, ReplacesOwnSessionOnly, Threads
<1>3. EventInv
  BY SessionAssumption DEF Init, EventInv, Threads, Sessions, None
<1>4. QED
  BY <1>1, <1>2, <1>3 DEF SafetyInv

\* The invariant of this module, for the proofs of its properties.
THEOREM SafetyInvariant == Spec => []SafetyInv
<1>1. SafetyInv /\ [Next]_vars => SafetyInv'
  BY IInvStep, ProcessStep, WaitStep, EventStep, ReplaceStep DEF SafetyInv
<1>2. QED
  BY InitSafety, <1>1, PTL DEF Spec

\* NoOrphanProcess holds: no yt-dlp, ffmpeg or probe process outlives its
\* session, but for the yt-dlp its own starter is about to reap.
THEOREM NoOrphans == Spec => []NoOrphanProcess
<1>1. SafetyInv => NoOrphanProcess
  <2> SUFFICES ASSUME SafetyInv, NEW s \in Sessions, s <= counter, slot # s
               PROVE  /\ helper[s] # "running"
                      /\ ytdlp[s] = "running" =>
                           \E t \in Starters : sid[t] = s /\ pc[t] \in {"register", "reap"}
    BY DEF NoOrphanProcess
  <2>1. pc[s] \notin WorkerLabels
    BY DEF SafetyInv, IInv, WorkerInv
  <2>2. QED
    BY <2>1 DEF SafetyInv, ProcessInv, WorkerLabels
<1>2. QED
  BY SafetyInvariant, <1>1, PTL

\* WaitsAreAnswered holds: what a cancel or a replacing start waits for is in
\* the hands of a thread that needs nothing the waiter holds.
THEOREM WaitsAnswered == Spec => []WaitsAreAnswered
<1>1. SafetyInv => WaitsAreAnswered
  <2> SUFFICES ASSUME SafetyInv, NEW t \in Starters \cup Cancellers
               PROVE  /\ pc[t] = "waitSlot" /\ slot = sid[t] => pc[slot] \in WorkerLabels
                      /\ \A s \in pend[t] \cap finalizing :
                           \E u \in Threads :
                             sid[u] = s /\ pc[u] \in {"publish", "callback", "calling"}
    BY DEF WaitsAreAnswered
  <2>1. pc[t] = "waitSlot" /\ slot = sid[t] => pc[slot] \in WorkerLabels
    BY DEF SafetyInv, WaitInv
  <2>2. \A s \in finalizing : \E u \in Threads : pc[u] \in Taken /\ sid[u] = s
    BY DEF SafetyInv, IInv, CallbackInv
  <2>3. QED
    BY <2>1, <2>2 DEF Taken
<1>2. QED
  BY SafetyInvariant, <1>1, PTL

\* CleanReplacement holds: older terminal events come before a newer session
\* is current, and a start only replaces its own owner's session.
THEOREM Replacement == Spec => []CleanReplacement
<1>1. SafetyInv => EventOrder
  <2> SUFFICES ASSUME SafetyInv, NEW old \in Sessions, NEW new \in Sessions, old < new,
                      slot = new \/ event[new] # "none"
               PROVE  event[old] = "complete"
    BY DEF EventOrder
  <2>1. new <= counter /\ new \in Nat /\ old \in Nat /\ counter \in Nat
    BY Basics DEF SafetyInv, EventInv
  <2>2. old < counter /\ slot # old
    BY <2>1, Basics DEF SafetyInv, EventInv
  <2>3. QED
    BY <2>1, <2>2 DEF SafetyInv, EventInv
<1>2. SafetyInv => CleanReplacement
  BY <1>1 DEF CleanReplacement, SafetyInv
<1>3. QED
  BY SafetyInvariant, <1>2, PTL

-----------------------------------------------------------------------------
(* What a cancel kills is reported as cancelled                            *)

\* A handle in a session has a worker waiting for that process.
HandleInv ==
  \A s \in Sessions :
    /\ sess[s].ytdlp => pc[s] = "waiting"
    /\ sess[s].ffmpeg => pc[s] = "helping"

\* A worker whose process a cancel took reads the cancel flag before anything
\* else, and its report decides the outcome.
Doomed(s) ==
  /\ sess[s].cancelled
  /\ \/ pc[s] \in {"waiting", "helping"}
     \/ pc[s] = "complete" /\ report[s].oc = "Cancelled"

\* The labels of a thread that may have taken handles out of a session.
KidsLabels == {"killWait", "waitSlot", "waitFinal", "returned", "install"}

KillInv ==
  \A t \in Starters \cup Cancellers :
    /\ pc[t] \notin KidsLabels => kids[t] = {}
    /\ kids[t] # {} =>
         /\ sid[t] \in Sessions
         /\ slot = sid[t] => Doomed(slot)
         /\ slot # sid[t] => result[sid[t]].oc = "Cancelled"

\* What the steps of a worker do to handles, and that a cancelled worker goes
\* nowhere but to its report.
WorkerDooms(s) ==
  /\ \A u \in Sessions : u # s => sess'[u] = sess[u]
  /\ sess'[s].ytdlp => pc'[s] = "waiting"
  /\ sess'[s].ffmpeg => pc'[s] = "helping"
  /\ pc[s] # "complete"
  /\ Doomed(s) => Doomed(s)'

\* The fourteen worker actions do that.
LEMMA WorkerStepDooms ==
  ASSUME IInv, HandleInv, NEW s \in Sessions, WorkerStep(s)
  PROVE  WorkerDooms(s)
<1> USE DEF Goto, locks, procs, locals, history
<1>0. /\ s \in Threads /\ pc \in [Threads -> Labels] /\ sess \in [Sessions -> SessionRec]
      /\ report \in [Threads -> ReportRec]
  BY DEF IInv, TypeOK, Threads
<1>1. /\ sess[s].ytdlp => pc[s] = "waiting"
      /\ sess[s].ffmpeg => pc[s] = "helping"
  BY DEF HandleInv
\* ... from anywhere without a process, nothing is at stake ...
<1>2. ASSUME pc[s] \notin {"waiting", "helping", "complete"}, UNCHANGED sess
      PROVE  WorkerDooms(s)
  BY <1>1, <1>2 DEF WorkerDooms, Doomed
<1>3. CASE ExitFailed(s)
  BY <1>2, <1>3 DEF ExitFailed
<1>4. CASE InstallFiles(s)
  BY <1>2, <1>4 DEF InstallFiles
<1>5. CASE ConvertNext(s)
  BY <1>2, <1>5 DEF ConvertNext
<1>6. CASE PublishSame(s)
  BY <1>2, <1>6 DEF PublishSame
<1>7. CASE SpawnHelper(s)
  BY <1>2, <1>7 DEF SpawnHelper
<1>8. CASE SpawnHelperFails(s)
  BY <1>2, <1>8 DEF SpawnHelperFails
<1>9. CASE PublishOutput(s)
  BY <1>2, <1>9 DEF PublishOutput
<1>10. CASE PublishSource(s)
  BY <1>2, <1>10 DEF PublishSource
<1>11. CASE HelperExits(s)
  BY <1>1, <1>11 DEF HelperExits, WorkerDooms, Doomed
<1>12. CASE ExitUsable(s)
  <2>1. /\ pc[s] = "inspect"
        /\ \E partial \in BOOLEAN : sess' = [sess EXCEPT ![s].partial = partial]
    BY <1>12 DEF ExitUsable
  <2>2. /\ \A u \in Sessions : u # s => sess'[u] = sess[u]
        /\ sess'[s].ytdlp = sess[s].ytdlp /\ sess'[s].ffmpeg = sess[s].ffmpeg
    BY <1>0, <2>1 DEF SessionRec
  <2>3. QED
    BY <1>1, <2>1, <2>2 DEF WorkerDooms, Doomed
<1>13. CASE Handoff(s)
  <2>1. /\ pc[s] = "handoff"
        /\ \/ UNCHANGED sess
           \/ sess' = [sess EXCEPT ![s].exitPending = FALSE, ![s].convPending = TRUE]
    BY <1>13 DEF Handoff
  <2>2. /\ \A u \in Sessions : u # s => sess'[u] = sess[u]
        /\ sess'[s].ytdlp = sess[s].ytdlp /\ sess'[s].ffmpeg = sess[s].ffmpeg
    BY <1>0, <2>1 DEF SessionRec
  <2>3. QED
    BY <1>1, <2>1, <2>2 DEF WorkerDooms, Doomed
<1>14. CASE ExitSeen(s)
  <2>1. /\ pc[s] = "waiting" /\ sess' = [sess EXCEPT ![s].ytdlp = FALSE]
    BY <1>14 DEF ExitSeen
  <2>2. /\ \A u \in Sessions : u # s => sess'[u] = sess[u]
        /\ sess'[s].ytdlp = FALSE /\ sess'[s].ffmpeg = sess[s].ffmpeg
        /\ sess'[s].cancelled = sess[s].cancelled
    BY <1>0, <2>1 DEF SessionRec
  <2>3. sess[s].cancelled => pc'[s] = "complete" /\ report'[s].oc = "Cancelled"
    BY <1>0, <1>14 DEF ExitSeen, Report
  <2>4. QED
    BY <1>1, <2>1, <2>2, <2>3 DEF WorkerDooms, Doomed
<1>15. CASE RegisterHelper(s)
  <2>1. CASE sess[s].cancelled
    BY <1>2, <1>15, <2>1 DEF RegisterHelper
  <2>2. CASE ~sess[s].cancelled
    <3>1. /\ pc[s] = "register helper" /\ sess' = [sess EXCEPT ![s].ffmpeg = TRUE]
          /\ pc' = [pc EXCEPT ![s] = "helping"]
      BY <1>15, <2>2 DEF RegisterHelper
    <3>2. /\ \A u \in Sessions : u # s => sess'[u] = sess[u]
          /\ sess'[s].ytdlp = sess[s].ytdlp /\ pc'[s] = "helping"
      BY <1>0, <3>1 DEF SessionRec
    <3>3. QED
      BY <1>1, <2>2, <3>1, <3>2 DEF WorkerDooms, Doomed
  <2>3. QED
    BY <2>1, <2>2
<1>16. CASE HelperDone(s)
  <2>1. /\ pc[s] = "helping" /\ sess' = [sess EXCEPT ![s].ffmpeg = FALSE]
    BY <1>16 DEF HelperDone
  <2>2. /\ \A u \in Sessions : u # s => sess'[u] = sess[u]
        /\ sess'[s].ffmpeg = FALSE /\ sess'[s].ytdlp = sess[s].ytdlp
        /\ sess'[s].cancelled = sess[s].cancelled
    BY <1>0, <2>1 DEF SessionRec
  <2>3. sess[s].cancelled => pc'[s] = "complete" /\ report'[s].oc = "Cancelled"
    BY <1>0, <1>16 DEF HelperDone, BatchCancelled, Report
  <2>4. QED
    BY <1>1, <2>1, <2>2, <2>3 DEF WorkerDooms, Doomed
<1>17. QED
  BY <1>3, <1>4, <1>5, <1>6, <1>7, <1>8, <1>9, <1>10, <1>11, <1>12, <1>13, <1>14, <1>15,
     <1>16
  DEF WorkerStep

\* A cancel takes the handles that are in the session, and leaves none.
LEMMA CancelBeginDooms ==
  ASSUME IInv, HandleInv, NEW t \in Starters \cup Cancellers, NEW n, NEW m,
         CancelBegin(t, n, m)
  PROVE  /\ CancelSeen(t)
         /\ \A s \in Sessions : /\ sess'[s].ytdlp => sess[s].ytdlp
                                /\ sess'[s].ffmpeg => sess[s].ffmpeg
                                /\ s = slot => sess'[s].cancelled
         /\ \A u \in Threads : u # t => kids'[u] = kids[u]
         /\ slot = None => kids'[t] = kids[t]
         /\ slot # None => /\ kids'[t] # {} => pc[slot] \in {"waiting", "helping"}
                           /\ pc'[t] = "killWait" \/ kids'[t] = {}
<1>0. /\ t \in Threads /\ pc \in [Threads -> Labels] /\ sess \in [Sessions -> SessionRec]
      /\ kids \in [Threads -> SUBSET {"ytdlp", "ffmpeg"}]
  BY DEF IInv, TypeOK, Threads
<1>1. CancelSeen(t)
  BY CancelBeginSeen
<1>2. CASE slot = None
  BY <1>0, <1>1, <1>2, Basics DEF CancelBegin
<1>3. CASE slot # None
  <2>0. slot \in Sessions
    BY <1>3, Basics
  <2> DEFINE show == n \/ (m /\ sess[slot].owner = "Manual")
             exit == WorkerCompletes(slot) \/ sess[slot].exitPending
             taken == (IF sess[slot].ytdlp THEN {"ytdlp"} ELSE {})
                        \cup (IF sess[slot].ffmpeg THEN {"ffmpeg"} ELSE {})
  <2>1. /\ sess' = [sess EXCEPT ![slot].cancelled = TRUE, ![slot].notify = show,
                                ![slot].exitPending = exit,
                                ![slot].ytdlp = FALSE, ![slot].ffmpeg = FALSE]
        /\ kids' = [kids EXCEPT ![t] = taken]
        /\ pc' = [pc EXCEPT ![t] = IF WorkerCompletes(slot) THEN "killWait" ELSE "killComplete"]
    BY <1>3 DEF CancelBegin, Goto
  <2>2. taken # {} => sess[slot].ytdlp \/ sess[slot].ffmpeg
    OBVIOUS
  <2>3. sess[slot].ytdlp \/ sess[slot].ffmpeg =>
          pc[slot] \in {"waiting", "helping"} /\ WorkerCompletes(slot)
    BY <2>0 DEF HandleInv, IInv, WorkerInv, WorkerLabels, WorkerCompletes
  <2> HIDE DEF show, exit, taken
  <2>4. \A s \in Sessions : /\ sess'[s].ytdlp => sess[s].ytdlp
                            /\ sess'[s].ffmpeg => sess[s].ffmpeg
                            /\ s = slot => sess'[s].cancelled
    BY <1>0, <2>0, <2>1 DEF SessionRec
  <2>5. /\ kids'[t] = taken /\ \A u \in Threads : u # t => kids'[u] = kids[u]
        /\ WorkerCompletes(slot) => pc'[t] = "killWait"
    BY <1>0, <2>1
  <2>6. QED
    BY <1>1, <1>3, <2>2, <2>3, <2>4, <2>5
<1>4. QED
  BY <1>2, <1>3

\* Most steps give no session a handle and leave its worker where it is.
LEMMA HandleKept ==
  ASSUME HandleInv,
         \A s \in Sessions : /\ sess'[s].ytdlp => sess[s].ytdlp
                             /\ sess'[s].ffmpeg => sess[s].ffmpeg
                             /\ pc[s] \in {"waiting", "helping"} => pc'[s] = pc[s]
  PROVE  HandleInv'
BY DEF HandleInv

\* Every step keeps HandleInv.
LEMMA HandleStep ==
  ASSUME IInv, HandleInv, [Next]_vars
  PROVE  HandleInv'
<1> USE DEF Goto, locks, procs, locals, history
<1>0. /\ pc \in [Threads -> Labels] /\ sid \in [Threads -> 0 .. MaxSessions]
      /\ Threads = Starters \cup Cancellers \cup Sessions
      /\ Starters \cap Cancellers = {}
      /\ \A s \in Sessions : s \notin Starters \cup Cancellers
  BY Basics, SessionAssumption
<1>1. ASSUME NEW t \in Starters, StartCall(t) PROVE HandleInv'
  BY <1>0, <1>1, HandleKept DEF StartCall
<1>2. ASSUME NEW t \in Starters, StartConflict(t) PROVE HandleInv'
  BY <1>0, <1>2, HandleKept DEF StartConflict
<1>3. ASSUME NEW t \in Starters, StartExisting(t) PROVE HandleInv'
  BY <1>0, <1>3, HandleKept DEF StartExisting
<1>4. ASSUME NEW t \in Starters, StartReplace(t) PROVE HandleInv'
  <2>1. PICK n \in BOOLEAN, m \in BOOLEAN : CancelBegin(t, n, m)
    BY <1>4 DEF StartReplace
  <2>2. QED
    BY <1>0, <2>1, CancelBeginDooms, HandleKept DEF CancelSeen
<1>5. ASSUME NEW t \in Starters, Install(t) PROVE HandleInv'
  <2>1. /\ counter + 1 \in Sessions /\ pc' = [pc EXCEPT ![t] = "setup"]
        /\ sess' = [sess EXCEPT ![counter + 1] = NewSession(own)]
    BY <1>0, <1>5, Basics, SessionAssumption
    DEF Install, IInv, StartupInv, StartLabels, Sessions
  <2>2. /\ sess'[counter + 1] = NewSession(own)
        /\ \A s \in Sessions : s # counter + 1 => sess'[s] = sess[s]
    BY <2>1 DEF IInv, TypeOK
  <2>3. ~NewSession(own).ytdlp /\ ~NewSession(own).ffmpeg
    BY DEF NewSession
  <2>4. QED
    BY <1>0, <2>1, <2>2, <2>3, HandleKept
<1>6. ASSUME NEW t \in Starters, SetupFails(t) PROVE HandleInv'
  BY <1>0, <1>6, HandleKept DEF SetupFails, Report
<1>7. ASSUME NEW t \in Starters, SetupAbandoned(t) PROVE HandleInv'
  BY <1>0, <1>7, HandleKept DEF SetupAbandoned, Forget
<1>8. ASSUME NEW t \in Starters, SpawnYtdlp(t) PROVE HandleInv'
  BY <1>0, <1>8, HandleKept DEF SpawnYtdlp
<1>9. ASSUME NEW t \in Starters, RegisterYtdlp(t) PROVE HandleInv'
  <2>1. /\ sid[t] \in Sessions /\ pc[sid[t]] \notin WorkerLabels
        /\ pc' = [pc EXCEPT ![t] = "idle", ![sid[t]] = "waiting"]
        /\ sess' = [sess EXCEPT ![sid[t]].ytdlp = TRUE, ![sid[t]].exitPending = TRUE]
    BY <1>0, <1>9, Basics DEF RegisterYtdlp, IInv, SidInv, HandoverInv
  <2>2. /\ \A s \in Sessions : s # sid[t] => sess'[s] = sess[s]
        /\ sess'[sid[t]].ffmpeg = sess[sid[t]].ffmpeg
    BY <2>1 DEF IInv, TypeOK, SessionRec
  <2>3. ~sess[sid[t]].ffmpeg
    BY <2>1 DEF HandleInv, WorkerLabels
  <2>4. pc'[sid[t]] = "waiting" /\ \A s \in Sessions : s # sid[t] => pc'[s] = pc[s]
    BY <1>0, <2>1
  <2>5. QED
    BY <2>1, <2>2, <2>3, <2>4 DEF HandleInv
<1>10. ASSUME NEW t \in Starters, RegisterRefused(t) PROVE HandleInv'
  BY <1>0, <1>10, HandleKept DEF RegisterRefused
<1>11. ASSUME NEW t \in Starters, ReapYtdlp(t) PROVE HandleInv'
  BY <1>0, <1>11, HandleKept DEF ReapYtdlp, Forget
<1>12. ASSUME NEW t \in Cancellers, CancelCall(t) PROVE HandleInv'
  <2>1. PICK n \in BOOLEAN, m \in BOOLEAN : CancelBegin(t, n, m)
    BY <1>12 DEF CancelCall
  <2>2. QED
    BY <1>0, <2>1, CancelBeginDooms, HandleKept DEF CancelSeen
<1>13. ASSUME NEW t \in Cancellers, CancelReturn(t) PROVE HandleInv'
  BY <1>0, <1>13, HandleKept DEF CancelReturn
<1>14. ASSUME NEW t \in Starters \cup Cancellers, CancelKill(t) PROVE HandleInv'
  BY <1>0, <1>14, HandleKept DEF CancelKill
<1>15. ASSUME NEW t \in Starters \cup Cancellers, WaitSlot(t) PROVE HandleInv'
  BY <1>0, <1>15, HandleKept DEF WaitSlot
<1>16. ASSUME NEW t \in Starters \cup Cancellers, WaitFinal(t) PROVE HandleInv'
  BY <1>0, <1>16, HandleKept DEF WaitFinal
<1>17. ASSUME NEW t \in Threads, CompleteTake(t) PROVE HandleInv'
  BY <1>0, <1>17, HandleKept DEF CompleteTake, Forget, Continuation
<1>18. ASSUME NEW t \in Threads, CompletePublish(t) PROVE HandleInv'
  BY <1>0, <1>18, HandleKept DEF CompletePublish
<1>19. ASSUME NEW t \in Threads, CompleteCallback(t) PROVE HandleInv'
  BY <1>0, <1>19, HandleKept DEF CompleteCallback
<1>20. ASSUME NEW t \in Threads, CompleteFinish(t) PROVE HandleInv'
  <2>1. /\ pc[t] = "calling" /\ sid[t] \in Sessions
        /\ pc' = [pc EXCEPT ![t] = Continuation(t)]
        /\ sess' = [sess EXCEPT ![sid[t]] =
             [NewSession(@.owner) EXCEPT !.cancelled = sess[sid[t]].cancelled]]
    BY <1>20, FinishSeen DEF CompleteFinish
  <2>2. /\ \A s \in Sessions : s # sid[t] => sess'[s] = sess[s]
        /\ ~sess'[sid[t]].ytdlp /\ ~sess'[sid[t]].ffmpeg
    BY <2>1 DEF IInv, TypeOK, NewSession
  <2>3. QED
    BY <1>0, <2>1, <2>2, HandleKept
<1>21. ASSUME NEW t \in Sessions, YtdlpExits(t) PROVE HandleInv'
  BY <1>0, <1>21, HandleKept DEF YtdlpExits
<1>22. ASSUME NEW t \in Sessions, Progress(t) PROVE HandleInv'
  BY <1>0, <1>22, HandleKept DEF Progress
<1>23. ASSUME NEW t \in Sessions, WorkerStep(t) PROVE HandleInv'
  <2>1. WorkerDooms(t) /\ WorkerMoves(t)
    BY <1>23, WorkerStepDooms, WorkerStepMoves
  <2>2. \A s \in Sessions : s # t => pc'[s] = pc[s] /\ sess'[s] = sess[s]
    BY <1>0, <2>1 DEF WorkerDooms, WorkerMoves
  <2>3. QED
    BY <2>1, <2>2 DEF HandleInv, WorkerDooms
<1>24. ASSUME UNCHANGED vars PROVE HandleInv'
  BY <1>0, <1>24, HandleKept DEF vars
<1>25. QED
  BY <1>1, <1>2, <1>3, <1>4, <1>5, <1>6, <1>7, <1>8, <1>9, <1>10, <1>11, <1>12, <1>13,
     <1>14, <1>15, <1>16, <1>17, <1>18, <1>19, <1>20, <1>21, <1>22, <1>23, <1>24
  DEF Next, StartStep, CancelStep, CompleteStep

\* Most steps take no handle, no result and no doomed worker anywhere.
LEMMA KillKept ==
  ASSUME IInv, KillInv, UNCHANGED <<slot, kids, result>>,
         \A s \in Sessions : Doomed(s) /\ slot = s => Doomed(s)',
         \A t \in Starters \cup Cancellers :
           /\ pc[t] \in KidsLabels => pc'[t] \in KidsLabels
           /\ kids[t] # {} => sid'[t] = sid[t]
  PROVE  KillInv'
<1>1. ASSUME NEW t \in Starters \cup Cancellers
      PROVE  /\ pc'[t] \notin KidsLabels => kids'[t] = {}
             /\ kids'[t] # {} =>
                  /\ sid'[t] \in Sessions
                  /\ slot' = sid'[t] => Doomed(slot)'
                  /\ slot' # sid'[t] => result'[sid'[t]].oc = "Cancelled"
  <2>1. pc'[t] \notin KidsLabels => kids'[t] = {}
    BY DEF KillInv
  <2>2. CASE kids[t] # {}
    <3>1. /\ sid'[t] = sid[t] /\ sid[t] \in Sessions
          /\ slot = sid[t] => Doomed(slot)
          /\ slot # sid[t] => result[sid[t]].oc = "Cancelled"
      BY <2>2 DEF KillInv
    <3>2. PICK s \in Sessions : s = sid[t]
      BY <3>1
    <3>3. slot = s => Doomed(s) /\ slot' = s
      BY <3>1, <3>2
    <3>4. slot = s => Doomed(slot)'
      BY <3>3 DEF Doomed
    <3>5. QED
      BY <2>1, <3>1, <3>2, <3>4
  <2>3. QED
    BY <2>1, <2>2
<1>2. QED
  BY <1>1 DEF KillInv

\* Every step keeps KillInv.
LEMMA KillStep ==
  ASSUME IInv, HandleInv, KillInv, [Next]_vars
  PROVE  KillInv'
<1> USE DEF Goto, locks, procs, locals, history
<1>0. /\ pc \in [Threads -> Labels] /\ sid \in [Threads -> 0 .. MaxSessions]
      /\ Threads = Starters \cup Cancellers \cup Sessions
      /\ Starters \cap Cancellers = {}
      /\ \A s \in Sessions : s \notin Starters \cup Cancellers
  BY Basics, SessionAssumption
<1>1. ASSUME NEW t \in Starters, StartCall(t) PROVE KillInv'
  <2>1. /\ UNCHANGED <<slot, kids, result, sess>>
        /\ \A u \in Threads : u # t => /\ pc'[u] = pc[u] /\ sid'[u] = sid[u]
                                       /\ report'[u] = report[u]
    BY <1>0, <1>1 DEF StartCall, IInv, TypeOK
  <2>2. pc[t] \notin KidsLabels /\ kids[t] = {}
    BY <1>0, <1>1 DEF StartCall, KillInv, KidsLabels
  <2>3. \A s \in Sessions : Doomed(s) => Doomed(s)'
    BY <1>0, <2>1 DEF Doomed
  <2>4. QED
    BY <1>0, <2>1, <2>2, <2>3, KillKept
<1>2. ASSUME NEW t \in Starters, StartConflict(t) PROVE KillInv'
  <2>1. /\ UNCHANGED <<slot, kids, result, sess>>
        /\ \A u \in Threads : u # t => /\ pc'[u] = pc[u] /\ sid'[u] = sid[u]
                                       /\ report'[u] = report[u]
    BY <1>0, <1>2 DEF StartConflict, IInv, TypeOK
  <2>2. pc[t] \notin KidsLabels /\ kids[t] = {}
    BY <1>0, <1>2 DEF StartConflict, KillInv, KidsLabels
  <2>3. \A s \in Sessions : Doomed(s) => Doomed(s)'
    BY <1>0, <2>1 DEF Doomed
  <2>4. QED
    BY <1>0, <2>1, <2>2, <2>3, KillKept
<1>3. ASSUME NEW t \in Starters, StartExisting(t) PROVE KillInv'
  <2>1. /\ UNCHANGED <<slot, kids, result, sess>>
        /\ \A u \in Threads : u # t => /\ pc'[u] = pc[u] /\ sid'[u] = sid[u]
                                       /\ report'[u] = report[u]
    BY <1>0, <1>3 DEF StartExisting, IInv, TypeOK
  <2>2. pc[t] \notin KidsLabels /\ kids[t] = {}
    BY <1>0, <1>3 DEF StartExisting, KillInv, KidsLabels
  <2>3. \A s \in Sessions : Doomed(s) => Doomed(s)'
    BY <1>0, <2>1 DEF Doomed
  <2>4. QED
    BY <1>0, <2>1, <2>2, <2>3, KillKept
<1>4. ASSUME NEW t \in Starters, StartReplace(t) PROVE KillInv'
  <2>1. PICK n \in BOOLEAN, m \in BOOLEAN : CancelBegin(t, n, m)
    BY <1>4 DEF StartReplace
  <2>2. UNCHANGED <<slot, result>> /\ pc[t] \in {"idle", "replace"}
    BY <1>4 DEF StartReplace
  <2>3. /\ CancelSeen(t)
        /\ \A s \in Sessions : s = slot => sess'[s].cancelled
        /\ \A u \in Threads : u # t => kids'[u] = kids[u]
        /\ slot = None => kids'[t] = kids[t]
        /\ slot # None => /\ kids'[t] # {} => pc[slot] \in {"waiting", "helping"}
                          /\ pc'[t] = "killWait" \/ kids'[t] = {}
    BY <2>1, CancelBeginDooms
  <2>4. kids[t] = {}
    BY <2>2 DEF KillInv, KidsLabels
  <2>5. \A s \in Sessions : s # t /\ pc'[s] = pc[s] /\ report'[s] = report[s]
    BY <1>0, <2>3 DEF CancelSeen
  <2>6. ASSUME slot \in Sessions, Doomed(slot) \/ pc[slot] \in {"waiting", "helping"}
        PROVE  Doomed(slot)'
    BY <2>2, <2>3, <2>5, <2>6 DEF Doomed
  <2>7. ASSUME NEW u \in Starters \cup Cancellers
        PROVE  /\ pc'[u] \notin KidsLabels => kids'[u] = {}
               /\ kids'[u] # {} =>
                    /\ sid'[u] \in Sessions
                    /\ slot' = sid'[u] => Doomed(slot)'
                    /\ slot' # sid'[u] => result'[sid'[u]].oc = "Cancelled"
    <3>1. CASE u = t
      <4>1. CASE slot = None
        BY <2>3, <2>4, <3>1, <4>1
      <4>2. CASE slot # None
        BY <2>2, <2>3, <2>6, <3>1, <4>2, Basics DEF CancelSeen, KidsLabels
      <4>3. QED
        BY <4>1, <4>2
    <3>2. CASE u # t
      <4>1. pc'[u] = pc[u] /\ sid'[u] = sid[u] /\ kids'[u] = kids[u]
        BY <1>0, <2>3, <3>2 DEF CancelSeen
      <4>2. QED
        BY <2>2, <2>6, <4>1 DEF KillInv
    <3>3. QED
      BY <3>1, <3>2
  <2>8. QED
    BY <2>7 DEF KillInv
<1>5. ASSUME NEW t \in Starters, Install(t) PROVE KillInv'
  <2>1. /\ slot' = counter + 1 /\ UNCHANGED result
        /\ kids' = [kids EXCEPT ![t] = {}] /\ pc' = [pc EXCEPT ![t] = "setup"]
        /\ \A u \in Threads : u # t => sid'[u] = sid[u]
    BY <1>0, <1>5 DEF Install
  <2>2. kids'[t] = {} /\ \A u \in Threads : u # t => kids'[u] = kids[u]
    BY <1>0, <2>1 DEF IInv, TypeOK
  <2>3. slot = None
    BY <1>0, <1>5 DEF Install, IInv, StartupInv, StartLabels
  <2>4. \A u \in Threads : u # t => sid'[u] # slot'
    BY <2>1, Basics DEF IInv, SidInv
  <2>5. QED
    BY <1>0, <2>1, <2>2, <2>3, <2>4, Basics DEF KillInv
<1>6. ASSUME NEW t \in Starters, SetupFails(t) PROVE KillInv'
  <2>1. /\ UNCHANGED <<slot, kids, result, sess>>
        /\ \A u \in Threads : u # t => /\ pc'[u] = pc[u] /\ sid'[u] = sid[u]
                                       /\ report'[u] = report[u]
    BY <1>0, <1>6 DEF SetupFails, Report, IInv, TypeOK
  <2>2. pc[t] \notin KidsLabels /\ kids[t] = {}
    BY <1>0, <1>6 DEF SetupFails, KillInv, KidsLabels
  <2>3. \A s \in Sessions : Doomed(s) => Doomed(s)'
    BY <1>0, <2>1 DEF Doomed
  <2>4. QED
    BY <1>0, <2>1, <2>2, <2>3, KillKept
<1>7. ASSUME NEW t \in Starters, SetupAbandoned(t) PROVE KillInv'
  <2>1. /\ UNCHANGED <<slot, kids, result, sess>>
        /\ \A u \in Threads : u # t => /\ pc'[u] = pc[u] /\ sid'[u] = sid[u]
                                       /\ report'[u] = report[u]
    BY <1>0, <1>7 DEF SetupAbandoned, Forget, IInv, TypeOK
  <2>2. pc[t] \notin KidsLabels /\ kids[t] = {}
    BY <1>0, <1>7 DEF SetupAbandoned, KillInv, KidsLabels
  <2>3. \A s \in Sessions : Doomed(s) => Doomed(s)'
    BY <1>0, <2>1 DEF Doomed
  <2>4. QED
    BY <1>0, <2>1, <2>2, <2>3, KillKept
<1>8. ASSUME NEW t \in Starters, SpawnYtdlp(t) PROVE KillInv'
  <2>1. /\ UNCHANGED <<slot, kids, result, sess>>
        /\ \A u \in Threads : u # t => /\ pc'[u] = pc[u] /\ sid'[u] = sid[u]
                                       /\ report'[u] = report[u]
    BY <1>0, <1>8 DEF SpawnYtdlp, IInv, TypeOK
  <2>2. pc[t] \notin KidsLabels /\ kids[t] = {}
    BY <1>0, <1>8 DEF SpawnYtdlp, KillInv, KidsLabels
  <2>3. \A s \in Sessions : Doomed(s) => Doomed(s)'
    BY <1>0, <2>1 DEF Doomed
  <2>4. QED
    BY <1>0, <2>1, <2>2, <2>3, KillKept
<1>9. ASSUME NEW t \in Starters, RegisterYtdlp(t) PROVE KillInv'
  <2>1. /\ sid[t] \in Sessions /\ pc[sid[t]] \notin WorkerLabels /\ slot = sid[t]
        /\ UNCHANGED <<slot, kids, result>> /\ pc[t] = "register"
        /\ pc' = [pc EXCEPT ![t] = "idle", ![sid[t]] = "waiting"]
        /\ \A u \in Threads : u # t => sid'[u] = sid[u]
    BY <1>0, <1>9, Basics
    DEF RegisterYtdlp, Forget, ActiveNotCancelled, IInv, SidInv, HandoverInv
  <2>2. ~Doomed(slot)
    BY <2>1 DEF Doomed, WorkerLabels
  <2>3. kids[t] = {}
    BY <2>1 DEF KillInv, KidsLabels
  <2>4. QED
    BY <1>0, <2>1, <2>2, <2>3, KillKept DEF KidsLabels
<1>10. ASSUME NEW t \in Starters, RegisterRefused(t) PROVE KillInv'
  <2>1. /\ UNCHANGED <<slot, kids, result, sess>>
        /\ \A u \in Threads : u # t => /\ pc'[u] = pc[u] /\ sid'[u] = sid[u]
                                       /\ report'[u] = report[u]
    BY <1>0, <1>10 DEF RegisterRefused, IInv, TypeOK
  <2>2. pc[t] \notin KidsLabels /\ kids[t] = {}
    BY <1>0, <1>10 DEF RegisterRefused, KillInv, KidsLabels
  <2>3. \A s \in Sessions : Doomed(s) => Doomed(s)'
    BY <1>0, <2>1 DEF Doomed
  <2>4. QED
    BY <1>0, <2>1, <2>2, <2>3, KillKept
<1>11. ASSUME NEW t \in Starters, ReapYtdlp(t) PROVE KillInv'
  <2>1. /\ UNCHANGED <<slot, kids, result, sess>>
        /\ \A u \in Threads : u # t => /\ pc'[u] = pc[u] /\ sid'[u] = sid[u]
                                       /\ report'[u] = report[u]
    BY <1>0, <1>11 DEF ReapYtdlp, Forget, IInv, TypeOK
  <2>2. pc[t] \notin KidsLabels /\ kids[t] = {}
    BY <1>0, <1>11 DEF ReapYtdlp, KillInv, KidsLabels
  <2>3. \A s \in Sessions : Doomed(s) => Doomed(s)'
    BY <1>0, <2>1 DEF Doomed
  <2>4. QED
    BY <1>0, <2>1, <2>2, <2>3, KillKept
<1>12. ASSUME NEW t \in Cancellers, CancelCall(t) PROVE KillInv'
  <2>1. PICK n \in BOOLEAN, m \in BOOLEAN : CancelBegin(t, n, m)
    BY <1>12 DEF CancelCall
  <2>2. UNCHANGED <<slot, result>> /\ pc[t] \in {"idle", "replace"}
    BY <1>12 DEF CancelCall
  <2>3. /\ CancelSeen(t)
        /\ \A s \in Sessions : s = slot => sess'[s].cancelled
        /\ \A u \in Threads : u # t => kids'[u] = kids[u]
        /\ slot = None => kids'[t] = kids[t]
        /\ slot # None => /\ kids'[t] # {} => pc[slot] \in {"waiting", "helping"}
                          /\ pc'[t] = "killWait" \/ kids'[t] = {}
    BY <2>1, CancelBeginDooms
  <2>4. kids[t] = {}
    BY <2>2 DEF KillInv, KidsLabels
  <2>5. \A s \in Sessions : s # t /\ pc'[s] = pc[s] /\ report'[s] = report[s]
    BY <1>0, <2>3 DEF CancelSeen
  <2>6. ASSUME slot \in Sessions, Doomed(slot) \/ pc[slot] \in {"waiting", "helping"}
        PROVE  Doomed(slot)'
    BY <2>2, <2>3, <2>5, <2>6 DEF Doomed
  <2>7. ASSUME NEW u \in Starters \cup Cancellers
        PROVE  /\ pc'[u] \notin KidsLabels => kids'[u] = {}
               /\ kids'[u] # {} =>
                    /\ sid'[u] \in Sessions
                    /\ slot' = sid'[u] => Doomed(slot)'
                    /\ slot' # sid'[u] => result'[sid'[u]].oc = "Cancelled"
    <3>1. CASE u = t
      <4>1. CASE slot = None
        BY <2>3, <2>4, <3>1, <4>1
      <4>2. CASE slot # None
        BY <2>2, <2>3, <2>6, <3>1, <4>2, Basics DEF CancelSeen, KidsLabels
      <4>3. QED
        BY <4>1, <4>2
    <3>2. CASE u # t
      <4>1. pc'[u] = pc[u] /\ sid'[u] = sid[u] /\ kids'[u] = kids[u]
        BY <1>0, <2>3, <3>2 DEF CancelSeen
      <4>2. QED
        BY <2>2, <2>6, <4>1 DEF KillInv
    <3>3. QED
      BY <3>1, <3>2
  <2>8. QED
    BY <2>7 DEF KillInv
<1>13. ASSUME NEW t \in Cancellers, CancelReturn(t) PROVE KillInv'
  <2>1. /\ UNCHANGED <<slot, result, sess>> /\ kids' = [kids EXCEPT ![t] = {}]
        /\ pc' = [pc EXCEPT ![t] = "idle"] /\ report' = [report EXCEPT ![t] = NoReport]
        /\ \A u \in Threads : u # t => sid'[u] = sid[u]
    BY <1>0, <1>13 DEF CancelReturn
  <2>2. kids'[t] = {} /\ \A u \in Threads : u # t => kids'[u] = kids[u]
    BY <1>0, <2>1 DEF IInv, TypeOK
  <2>3. ASSUME slot \in Sessions, Doomed(slot) PROVE Doomed(slot)'
    BY <1>0, <2>1, <2>3 DEF Doomed
  <2>4. QED
    BY <1>0, <2>1, <2>2, <2>3 DEF KillInv
<1>14. ASSUME NEW t \in Starters \cup Cancellers, CancelKill(t) PROVE KillInv'
  <2>1. /\ UNCHANGED <<slot, kids, result, sess, sid, report>>
        /\ \A u \in Threads : u # t => pc'[u] = pc[u]
    BY <1>0, <1>14 DEF CancelKill
  <2>2. pc[t] \in KidsLabels => pc'[t] \in KidsLabels
    BY <1>0, <1>14 DEF CancelKill, KidsLabels
  <2>3. \A s \in Sessions : Doomed(s) => Doomed(s)'
    BY <1>0, <2>1 DEF Doomed
  <2>4. QED
    BY <1>0, <2>1, <2>2, <2>3, KillKept
<1>15. ASSUME NEW t \in Starters \cup Cancellers, WaitSlot(t) PROVE KillInv'
  <2>1. /\ UNCHANGED <<slot, kids, result, sess, sid, report>>
        /\ \A u \in Threads : u # t => pc'[u] = pc[u]
    BY <1>0, <1>15 DEF WaitSlot
  <2>2. pc[t] \in KidsLabels => pc'[t] \in KidsLabels
    BY <1>0, <1>15 DEF WaitSlot, KidsLabels
  <2>3. \A s \in Sessions : Doomed(s) => Doomed(s)'
    BY <1>0, <2>1 DEF Doomed
  <2>4. QED
    BY <1>0, <2>1, <2>2, <2>3, KillKept
<1>16. ASSUME NEW t \in Starters \cup Cancellers, WaitFinal(t) PROVE KillInv'
  <2>1. /\ UNCHANGED <<slot, kids, result, sess, sid, report>>
        /\ \A u \in Threads : u # t => pc'[u] = pc[u]
    BY <1>0, <1>16 DEF WaitFinal
  <2>2. pc[t] \in KidsLabels => pc'[t] \in KidsLabels
    BY <1>0, <1>16 DEF WaitFinal, KidsLabels
  <2>3. \A s \in Sessions : Doomed(s) => Doomed(s)'
    BY <1>0, <2>1 DEF Doomed
  <2>4. QED
    BY <1>0, <2>1, <2>2, <2>3, KillKept
<1>17. ASSUME NEW t \in Threads, CompleteTake(t) PROVE KillInv'
  <2>1. /\ UNCHANGED <<kids, sess>> /\ pc[t] = "complete"
        /\ \A u \in Threads : u # t => /\ pc'[u] = pc[u] /\ sid'[u] = sid[u]
                                       /\ report'[u] = report[u]
    BY <1>0, <1>17 DEF CompleteTake, Forget, IInv, TypeOK
  <2>2. t \in Starters \cup Cancellers => kids[t] = {}
    BY <2>1 DEF KillInv, KidsLabels
  <2>3. CASE slot = sid[t]
    <3>1. /\ slot \in Sessions /\ slot' = None
          /\ result' = [result EXCEPT ![slot] =
               [report[t] EXCEPT !.oc = IF sess[slot].partial /\ @ = "Success"
                                        THEN "Failed" ELSE @]]
      BY <1>17, <2>1, <2>3, Basics DEF CompleteTake, IInv, SidInv
    <3>2. /\ \A s \in Sessions : s # slot => result'[s] = result[s]
          /\ report[t].oc = "Cancelled" => result'[slot].oc = "Cancelled"
      BY <1>0, <3>1 DEF IInv, TypeOK, ReportRec
    <3>3. ASSUME NEW u \in Starters \cup Cancellers, kids[u] # {}, sid[u] = slot
          PROVE  report[t].oc = "Cancelled"
      <4>1. Doomed(slot)
        BY <3>3 DEF KillInv
      <4>2. pc[slot] \in WorkerLabels
        BY <4>1 DEF Doomed, WorkerLabels
      <4>3. t \in Sessions /\ t = slot
        BY <1>0, <2>1, <2>3, <3>1, <4>2 DEF IInv, HandoverInv, SidInv
      <4>4. QED
        BY <2>1, <4>1, <4>3 DEF Doomed
    <3>4. ASSUME NEW u \in Starters \cup Cancellers, kids[u] # {}
          PROVE  sid[u] \in Sessions /\ result'[sid[u]].oc = "Cancelled"
      BY <3>2, <3>3, <3>4 DEF KillInv
    <3>5. QED
      BY <1>0, <2>1, <2>2, <3>1, <3>4, Basics DEF KillInv
  <2>4. CASE slot # sid[t]
    <3>1. UNCHANGED <<slot, result>>
      BY <1>17, <2>4 DEF CompleteTake
    <3>2. slot \in Sessions => t # slot
      BY <1>0, <2>1, <2>4, Basics DEF IInv, SidInv
    <3>3. \A s \in Sessions : slot = s /\ Doomed(s) => Doomed(s)'
      BY <1>0, <2>1, <3>2 DEF Doomed
    <3>4. QED
      BY <1>0, <2>1, <2>2, <3>1, <3>3, KillKept DEF KidsLabels
  <2>5. QED
    BY <2>3, <2>4
<1>18. ASSUME NEW t \in Threads, CompletePublish(t) PROVE KillInv'
  <2>1. /\ UNCHANGED <<slot, kids, result, sess, sid, report>> /\ pc[t] \in Taken
        /\ \A u \in Threads : u # t => pc'[u] = pc[u]
    BY <1>0, <1>18 DEF CompletePublish, Taken
  <2>2. \A s \in Sessions : slot = s /\ Doomed(s) => Doomed(s)'
    BY <1>0, <2>1, FinishedIdle DEF Doomed, Taken
  <2>3. QED
    BY <1>0, <2>1, <2>2, KillKept DEF KidsLabels, Taken
<1>19. ASSUME NEW t \in Threads, CompleteCallback(t) PROVE KillInv'
  <2>1. /\ UNCHANGED <<slot, kids, result, sess, sid, report>> /\ pc[t] \in Taken
        /\ \A u \in Threads : u # t => pc'[u] = pc[u]
    BY <1>0, <1>19 DEF CompleteCallback, Taken
  <2>2. \A s \in Sessions : slot = s /\ Doomed(s) => Doomed(s)'
    BY <1>0, <2>1, FinishedIdle DEF Doomed, Taken
  <2>3. QED
    BY <1>0, <2>1, <2>2, KillKept DEF KidsLabels, Taken
<1>20. ASSUME NEW t \in Threads, CompleteFinish(t) PROVE KillInv'
  <2>1. /\ UNCHANGED <<slot, kids, result>> /\ pc[t] = "calling"
        /\ \A u \in Threads : u # t => /\ pc'[u] = pc[u] /\ sid'[u] = sid[u]
                                       /\ report'[u] = report[u]
        /\ SeenKept
    BY <1>0, <1>20, FinishSeen DEF CompleteFinish, Forget, IInv, TypeOK
  <2>2. \A s \in Sessions : slot = s /\ Doomed(s) => Doomed(s)'
    BY <1>0, <2>1, FinishedIdle DEF Doomed, Taken, SeenKept
  <2>3. t \in Starters \cup Cancellers => kids[t] = {}
    BY <2>1 DEF KillInv, KidsLabels
  <2>4. QED
    BY <1>0, <2>1, <2>2, <2>3, KillKept DEF KidsLabels
<1>21. ASSUME NEW t \in Sessions, YtdlpExits(t) PROVE KillInv'
  BY <1>0, <1>21, KillKept DEF YtdlpExits, Doomed
<1>22. ASSUME NEW t \in Sessions, Progress(t) PROVE KillInv'
  BY <1>0, <1>22, KillKept DEF Progress, Doomed
<1>23. ASSUME NEW t \in Sessions, WorkerStep(t) PROVE KillInv'
  <2>1. WorkerDooms(t) /\ WorkerMoves(t) /\ WorkerReports(t) /\ UNCHANGED <<kids, result>>
    BY <1>23, WorkerStepDooms, WorkerStepMoves, WorkerStepReports, WorkerStepLeaves
  <2>2. UNCHANGED slot /\ slot = t
    BY <2>1 DEF WorkerMoves, IInv, WorkerInv
  <2>3. \A s \in Sessions : slot = s /\ Doomed(s) => Doomed(s)'
    BY <2>1, <2>2 DEF WorkerDooms, Doomed
  <2>4. \A u \in Starters \cup Cancellers : pc'[u] = pc[u] /\ sid'[u] = sid[u]
    BY <1>0, <2>1 DEF WorkerReports
  <2>5. QED
    BY <2>1, <2>2, <2>3, <2>4, KillKept
<1>24. ASSUME UNCHANGED vars PROVE KillInv'
  BY <1>0, <1>24, KillKept DEF vars, Doomed
<1>25. QED
  BY <1>1, <1>2, <1>3, <1>4, <1>5, <1>6, <1>7, <1>8, <1>9, <1>10, <1>11, <1>12, <1>13,
     <1>14, <1>15, <1>16, <1>17, <1>18, <1>19, <1>20, <1>21, <1>22, <1>23, <1>24
  DEF Next, StartStep, CancelStep, CompleteStep

-----------------------------------------------------------------------------
(* A cancel that waited returns after the callback                         *)

\* What no step undoes: session ids grow, a session that left the slot stays
\* out of it, a cancel is not taken back, and a cancelled session that has no
\* worker gets none.
Onward ==
  /\ counter' \in Nat /\ counter <= counter'
  /\ \A s \in Sessions :
       /\ s <= counter /\ slot # s => slot' # s
       /\ s \in finalizing' => s \in finalizing \/ slot = s
       /\ slot = s /\ sess[s].cancelled => sess'[s].cancelled
       /\ pc[s] = "idle" /\ (slot = s => sess[s].cancelled) => pc'[s] = "idle"
       /\ pc'[s] = "ended" => pc[s] = "ended" \/ (slot' # s /\ s <= counter')

\* The steps that leave slot and callbacks alone.
LEMMA OnwardKept ==
  ASSUME IInv, UNCHANGED <<slot, counter, finalizing>>,
         \A s \in Sessions :
           /\ slot = s /\ sess[s].cancelled => sess'[s].cancelled
           /\ pc[s] = "idle" /\ (slot = s => sess[s].cancelled) => pc'[s] = "idle"
           /\ pc'[s] = "ended" => pc[s] = "ended"
  PROVE  Onward
BY Basics DEF Onward

\* Every step goes onward.
LEMMA OnwardStep ==
  ASSUME IInv, [Next]_vars
  PROVE  Onward
<1> USE DEF Goto, locks, procs, locals, history
<1>0. /\ pc \in [Threads -> Labels] /\ sid \in [Threads -> 0 .. MaxSessions]
      /\ Threads = Starters \cup Cancellers \cup Sessions
      /\ Starters \cap Cancellers = {}
      /\ \A s \in Sessions : s \notin Starters \cup Cancellers
  BY Basics, SessionAssumption
<1>1. ASSUME NEW t \in Starters, StartCall(t) PROVE Onward
  BY <1>0, <1>1, OnwardKept DEF StartCall
<1>2. ASSUME NEW t \in Starters, StartConflict(t) PROVE Onward
  BY <1>0, <1>2, OnwardKept DEF StartConflict
<1>3. ASSUME NEW t \in Starters, StartExisting(t) PROVE Onward
  BY <1>0, <1>3, OnwardKept DEF StartExisting
<1>4. ASSUME NEW t \in Starters, StartReplace(t) PROVE Onward
  <2>1. CancelLooks(t) /\ UNCHANGED <<slot, finalizing, counter>>
    BY <1>4, StartReplaceLooks
  <2>2. \A s \in Sessions : s # t /\ pc'[s] = pc[s]
    BY <1>0, <2>1 DEF CancelLooks
  <2>3. QED
    BY <2>1, <2>2, OnwardKept DEF CancelLooks
<1>5. ASSUME NEW t \in Starters, Install(t) PROVE Onward
  <2>1. /\ slot' = counter + 1 /\ counter' = counter + 1 /\ UNCHANGED finalizing
        /\ counter + 1 \in Sessions /\ counter \in Nat
        /\ pc' = [pc EXCEPT ![t] = "setup"]
        /\ sess' = [sess EXCEPT ![counter + 1] = NewSession(own)]
    BY <1>0, <1>5, Basics, SessionAssumption
    DEF Install, IInv, StartupInv, StartLabels, Sessions
  <2>2. \A s \in Sessions : /\ pc'[s] = pc[s]
                            /\ s # counter + 1 => sess'[s] = sess[s]
    BY <1>0, <2>1 DEF IInv, TypeOK
  <2>3. counter <= counter' /\ slot # counter + 1
    BY <2>1, Basics
  <2>4. \A s \in Sessions : s <= counter => s # counter + 1
    BY <2>1, Basics
  <2>5. QED
    BY <2>1, <2>2, <2>3, <2>4 DEF Onward
<1>6. ASSUME NEW t \in Starters, SetupFails(t) PROVE Onward
  BY <1>0, <1>6, OnwardKept DEF SetupFails, Report
<1>7. ASSUME NEW t \in Starters, SetupAbandoned(t) PROVE Onward
  BY <1>0, <1>7, OnwardKept DEF SetupAbandoned, Forget
<1>8. ASSUME NEW t \in Starters, SpawnYtdlp(t) PROVE Onward
  BY <1>0, <1>8, OnwardKept DEF SpawnYtdlp
<1>9. ASSUME NEW t \in Starters, RegisterYtdlp(t) PROVE Onward
  <2>1. /\ UNCHANGED <<slot, finalizing, counter>> /\ slot \in Sessions /\ slot = sid[t]
        /\ ~sess[slot].cancelled
        /\ pc' = [pc EXCEPT ![t] = "idle", ![slot] = "waiting"]
        /\ sess' = [sess EXCEPT ![slot].ytdlp = TRUE, ![slot].exitPending = TRUE]
    BY <1>0, <1>9, Basics DEF RegisterYtdlp, ActiveNotCancelled, IInv, SidInv
  <2>2. \A s \in Sessions : s # slot => pc'[s] = pc[s] /\ sess'[s] = sess[s]
    BY <1>0, <2>1 DEF IInv, TypeOK
  <2>3. pc'[slot] = "waiting"
    BY <1>0, <2>1
  <2>4. QED
    BY <2>1, <2>2, <2>3, OnwardKept
<1>10. ASSUME NEW t \in Starters, RegisterRefused(t) PROVE Onward
  BY <1>0, <1>10, OnwardKept DEF RegisterRefused
<1>11. ASSUME NEW t \in Starters, ReapYtdlp(t) PROVE Onward
  BY <1>0, <1>11, OnwardKept DEF ReapYtdlp, Forget
<1>12. ASSUME NEW t \in Cancellers, CancelCall(t) PROVE Onward
  <2>1. CancelLooks(t) /\ UNCHANGED <<slot, finalizing, counter>>
    BY <1>12, CancelCallLooks
  <2>2. \A s \in Sessions : s # t /\ pc'[s] = pc[s]
    BY <1>0, <2>1 DEF CancelLooks
  <2>3. QED
    BY <2>1, <2>2, OnwardKept DEF CancelLooks
<1>13. ASSUME NEW t \in Cancellers, CancelReturn(t) PROVE Onward
  BY <1>0, <1>13, OnwardKept DEF CancelReturn
<1>14. ASSUME NEW t \in Starters \cup Cancellers, CancelKill(t) PROVE Onward
  BY <1>0, <1>14, OnwardKept DEF CancelKill
<1>15. ASSUME NEW t \in Starters \cup Cancellers, WaitSlot(t) PROVE Onward
  BY <1>0, <1>15, OnwardKept DEF WaitSlot
<1>16. ASSUME NEW t \in Starters \cup Cancellers, WaitFinal(t) PROVE Onward
  BY <1>0, <1>16, OnwardKept DEF WaitFinal
<1>17. ASSUME NEW t \in Threads, CompleteTake(t) PROVE Onward
  <2>1. CASE slot = sid[t]
    <3>1. /\ slot' = None /\ finalizing' = finalizing \cup {slot}
          /\ UNCHANGED <<counter, sess>> /\ pc[t] = "complete"
          /\ pc' = [pc EXCEPT ![t] = "publish"]
      BY <1>0, <1>17, <2>1 DEF CompleteTake
    <3>2. /\ counter \in Nat /\ \A s \in Sessions : s # None
          /\ \A s \in Sessions : s # t => pc'[s] = pc[s]
      BY <1>0, <3>1, Basics
    <3>3. pc'[t] = "publish"
      BY <1>0, <3>1
    <3>4. QED
      BY <3>1, <3>2, <3>3 DEF Onward
  <2>2. CASE slot # sid[t]
    <3>1. /\ UNCHANGED <<slot, finalizing, counter, sess>> /\ pc[t] = "complete"
          /\ pc' = [pc EXCEPT ![t] = Continuation(t)]
      BY <1>0, <1>17, <2>2 DEF CompleteTake
    <3>2. \A s \in Sessions : s # t => pc'[s] = pc[s]
      BY <1>0, <3>1
    <3>3. t \in Sessions => slot # t /\ t <= counter
      BY <1>0, <2>2, <3>1 DEF IInv, SidInv
    <3>4. pc[t] # "idle" /\ counter \in Nat
      BY <3>1, Basics
    <3>5. QED
      BY <3>1, <3>2, <3>3, <3>4 DEF Onward
  <2>3. QED
    BY <2>1, <2>2
<1>18. ASSUME NEW t \in Threads, CompletePublish(t) PROVE Onward
  <2>1. /\ UNCHANGED <<slot, finalizing, counter, sess>> /\ pc[t] \in Taken
        /\ \E label \in Taken : pc' = [pc EXCEPT ![t] = label]
    BY <1>18 DEF CompletePublish, Taken
  <2>2. QED
    BY <1>0, <2>1, OnwardKept DEF Taken
<1>19. ASSUME NEW t \in Threads, CompleteCallback(t) PROVE Onward
  <2>1. /\ UNCHANGED <<slot, finalizing, counter, sess>> /\ pc[t] \in Taken
        /\ \E label \in Taken : pc' = [pc EXCEPT ![t] = label]
    BY <1>19 DEF CompleteCallback, Taken
  <2>2. QED
    BY <1>0, <2>1, OnwardKept DEF Taken
<1>20. ASSUME NEW t \in Threads, CompleteFinish(t) PROVE Onward
  <2>1. /\ UNCHANGED <<slot, counter>> /\ finalizing' \subseteq finalizing
        /\ pc[t] = "calling" /\ pc' = [pc EXCEPT ![t] = Continuation(t)]
    BY <1>0, <1>20 DEF CompleteFinish
  <2>2. SeenKept /\ slot # sid[t] /\ sid[t] <= counter
    BY <1>20, FinishSeen
  <2>3. t \in Sessions => sid[t] = t
    BY <1>0, <2>1 DEF IInv, SidInv, Taken
  <2>4. \A s \in Sessions : s # t => pc'[s] = pc[s]
    BY <1>0, <2>1
  <2>5. pc[t] # "idle" /\ counter \in Nat
    BY <2>1, Basics
  <2>6. QED
    BY <2>1, <2>2, <2>3, <2>4, <2>5 DEF Onward, SeenKept
<1>21. ASSUME NEW t \in Sessions, YtdlpExits(t) PROVE Onward
  BY <1>0, <1>21, OnwardKept DEF YtdlpExits
<1>22. ASSUME NEW t \in Sessions, Progress(t) PROVE Onward
  BY <1>0, <1>22, OnwardKept DEF Progress
<1>23. ASSUME NEW t \in Sessions, WorkerStep(t) PROVE Onward
  <2>1. WorkerMoves(t)
    BY <1>23, WorkerStepMoves
  <2>2. PICK label \in WorkerLabels : pc' = [pc EXCEPT ![t] = label]
    BY <2>1 DEF WorkerMoves
  <2>3. /\ UNCHANGED <<slot, finalizing, counter>> /\ pc[t] # "idle" /\ label # "ended"
        /\ \A s \in Sessions : sess'[s].cancelled = sess[s].cancelled
    BY <2>1, <2>2 DEF WorkerMoves, WorkerLabels, SessionKept
  <2>4. QED
    BY <1>0, <2>2, <2>3, OnwardKept
<1>24. ASSUME UNCHANGED vars PROVE Onward
  BY <1>0, <1>24, OnwardKept DEF vars
<1>25. QED
  BY <1>1, <1>2, <1>3, <1>4, <1>5, <1>6, <1>7, <1>8, <1>9, <1>10, <1>11, <1>12, <1>13,
     <1>14, <1>15, <1>16, <1>17, <1>18, <1>19, <1>20, <1>21, <1>22, <1>23, <1>24
  DEF Next, StartStep, CancelStep, CompleteStep

\* What a thread on its way out of a cancel knows of the sessions it may have
\* to wait for.
ReturnAt(t) ==
  /\ pc[t] \in {"killWait", "waitSlot"} => pend[t] = {sid[t]}
  /\ pc[t] \in {"killComplete", "complete"} \cup Taken =>
       /\ pend[t] = {sid[t]} /\ kids[t] = {} /\ report[t].oc # "none"
       /\ pc[sid[t]] = "idle"
       /\ slot = sid[t] => sess[slot].cancelled
  /\ pc[t] = "waitFinal" => \A s \in pend[t] : s <= counter /\ slot # s
  /\ pc[t] = "returned" => \A s \in pend[t] :
       /\ s <= counter /\ slot # s
       /\ s \notin finalizing \/ (pc[s] = "idle" /\ kids[t] = {} /\ report[t].oc # "none")

ReturnInv ==
  /\ \A s \in Sessions : pc[s] = "ended" => slot # s /\ s <= counter
  /\ \A t \in Cancellers : ReturnAt(t)

\* A session in pend or sid is one that was there before the step.
LEMMA ReturnOthers ==
  ASSUME IInv, Onward, NEW t \in Cancellers, ReturnAt(t),
         pc'[t] = pc[t], sid'[t] = sid[t], pend'[t] = pend[t], kids'[t] = kids[t],
         report'[t] = report[t]
  PROVE  ReturnAt(t)'
<1>0. t \in Threads /\ pend[t] \subseteq Sessions
  BY Basics DEF IInv, TypeOK
<1>1. counter \in Nat /\ counter' \in Nat /\ counter' >= counter /\ \A s \in Sessions : s \in Nat
  BY Basics DEF Onward
<1>2. pc'[t] \in {"killWait", "waitSlot"} => pend'[t] = {sid'[t]}
  BY DEF ReturnAt
<1>3. ASSUME pc'[t] \in {"killComplete", "complete"} \cup Taken
      PROVE  /\ pend'[t] = {sid'[t]} /\ kids'[t] = {} /\ report'[t].oc # "none"
             /\ pc'[sid'[t]] = "idle"
             /\ slot' = sid'[t] => sess'[slot'].cancelled
  <2>1. /\ pend[t] = {sid[t]} /\ kids[t] = {} /\ report[t].oc # "none"
        /\ pc[sid[t]] = "idle"
        /\ slot = sid[t] => sess[sid[t]].cancelled
    BY <1>3 DEF ReturnAt
  <2>2. sid[t] \in Sessions /\ sid[t] <= counter
    BY <1>0, <1>3, Basics DEF IInv, SidInv
  <2>3. pc'[sid[t]] = "idle" /\ (slot' = sid[t] => slot = sid[t] /\ sess'[sid[t]].cancelled)
    BY <2>1, <2>2 DEF Onward
  <2>4. QED
    BY <2>1, <2>3
<1>4. ASSUME pc'[t] = "waitFinal", NEW s \in pend'[t]
      PROVE  s <= counter' /\ slot' # s
  <2>1. s \in Sessions /\ s <= counter /\ slot # s
    BY <1>0, <1>4 DEF ReturnAt
  <2>2. QED
    BY <1>1, <2>1, Basics DEF Onward
<1>5. ASSUME pc'[t] = "returned", NEW s \in pend'[t]
      PROVE  /\ s <= counter' /\ slot' # s
             /\ s \notin finalizing'
                  \/ (pc'[s] = "idle" /\ kids'[t] = {} /\ report'[t].oc # "none")
  <2>1. /\ s \in Sessions /\ s <= counter /\ slot # s
        /\ s \notin finalizing \/ (pc[s] = "idle" /\ kids[t] = {} /\ report[t].oc # "none")
    BY <1>0, <1>5 DEF ReturnAt
  <2>2. slot' # s /\ (pc[s] = "idle" => pc'[s] = "idle") /\ (s \in finalizing' => s \in finalizing)
    BY <2>1 DEF Onward
  <2>3. s <= counter'
    BY <1>1, <2>1
  <2>4. QED
    BY <2>1, <2>2, <2>3
<1>6. QED
  BY <1>2, <1>3, <1>4, <1>5 DEF ReturnAt

\* A step of a thread that is no canceller leaves the cancellers alone.
LEMMA ReturnKept ==
  ASSUME IInv, Onward, ReturnInv,
         \A t \in Cancellers :
           \/ ReturnAt(t)'
           \/ /\ pc'[t] = pc[t] /\ sid'[t] = sid[t] /\ pend'[t] = pend[t]
              /\ kids'[t] = kids[t] /\ report'[t] = report[t]
  PROVE  ReturnInv'
<1>1. \A t \in Cancellers : ReturnAt(t)'
  BY ReturnOthers DEF ReturnInv
<1>2. ASSUME NEW s \in Sessions, pc'[s] = "ended" PROVE slot' # s /\ s <= counter'
  BY <1>2, Basics DEF ReturnInv, Onward
<1>3. QED
  BY <1>1, <1>2 DEF ReturnInv

\* Every step keeps ReturnInv.
LEMMA ReturnStep ==
  ASSUME IInv, HandleInv, ReturnInv, [Next]_vars
  PROVE  ReturnInv'
<1> USE DEF Goto, locks, procs, locals, history
<1>0. /\ pc \in [Threads -> Labels] /\ sid \in [Threads -> 0 .. MaxSessions]
      /\ Threads = Starters \cup Cancellers \cup Sessions
      /\ Starters \cap Cancellers = {}
      /\ \A s \in Sessions : s \notin Starters \cup Cancellers
  BY Basics, SessionAssumption
<1>0a. /\ report \in [Threads -> ReportRec] /\ kids \in [Threads -> SUBSET {"ytdlp", "ffmpeg"}]
       /\ pend \in [Threads -> SUBSET Sessions]
  BY DEF IInv, TypeOK
<1>0b. Onward
  BY OnwardStep
<1>1. ASSUME NEW t \in Starters, StartCall(t) PROVE ReturnInv'
  <2>1. \A u \in Threads : u # t => /\ pc'[u] = pc[u] /\ sid'[u] = sid[u]
                                   /\ report'[u] = report[u] /\ kids'[u] = kids[u]
                                   /\ pend'[u] = pend[u]
    BY <1>0, <1>0a, <1>1 DEF StartCall
  <2>2. QED
    BY <1>0, <1>0b, <2>1, ReturnKept
<1>2. ASSUME NEW t \in Starters, StartConflict(t) PROVE ReturnInv'
  <2>1. \A u \in Threads : u # t => /\ pc'[u] = pc[u] /\ sid'[u] = sid[u]
                                   /\ report'[u] = report[u] /\ kids'[u] = kids[u]
                                   /\ pend'[u] = pend[u]
    BY <1>0, <1>0a, <1>2 DEF StartConflict
  <2>2. QED
    BY <1>0, <1>0b, <2>1, ReturnKept
<1>3. ASSUME NEW t \in Starters, StartExisting(t) PROVE ReturnInv'
  <2>1. \A u \in Threads : u # t => /\ pc'[u] = pc[u] /\ sid'[u] = sid[u]
                                   /\ report'[u] = report[u] /\ kids'[u] = kids[u]
                                   /\ pend'[u] = pend[u]
    BY <1>0, <1>0a, <1>3 DEF StartExisting
  <2>2. QED
    BY <1>0, <1>0b, <2>1, ReturnKept
<1>4. ASSUME NEW t \in Starters, StartReplace(t) PROVE ReturnInv'
  <2>1. PICK n \in BOOLEAN, m \in BOOLEAN : CancelBegin(t, n, m)
    BY <1>4 DEF StartReplace
  <2>2. \A u \in Threads : u # t => /\ pc'[u] = pc[u] /\ sid'[u] = sid[u]
                                   /\ report'[u] = report[u] /\ kids'[u] = kids[u]
                                   /\ pend'[u] = pend[u]
    BY <1>0, <1>0a, <2>1 DEF CancelBegin
  <2>3. QED
    BY <1>0, <1>0b, <2>2, ReturnKept
<1>5. ASSUME NEW t \in Starters, Install(t) PROVE ReturnInv'
  <2>1. \A u \in Threads : u # t => /\ pc'[u] = pc[u] /\ sid'[u] = sid[u]
                                   /\ report'[u] = report[u] /\ kids'[u] = kids[u]
                                   /\ pend'[u] = pend[u]
    BY <1>0, <1>0a, <1>5 DEF Install
  <2>2. QED
    BY <1>0, <1>0b, <2>1, ReturnKept
<1>6. ASSUME NEW t \in Starters, SetupFails(t) PROVE ReturnInv'
  <2>1. \A u \in Threads : u # t => /\ pc'[u] = pc[u] /\ sid'[u] = sid[u]
                                   /\ report'[u] = report[u] /\ kids'[u] = kids[u]
                                   /\ pend'[u] = pend[u]
    BY <1>0, <1>0a, <1>6 DEF SetupFails, Report
  <2>2. QED
    BY <1>0, <1>0b, <2>1, ReturnKept
<1>7. ASSUME NEW t \in Starters, SetupAbandoned(t) PROVE ReturnInv'
  <2>1. \A u \in Threads : u # t => /\ pc'[u] = pc[u] /\ sid'[u] = sid[u]
                                   /\ report'[u] = report[u] /\ kids'[u] = kids[u]
                                   /\ pend'[u] = pend[u]
    BY <1>0, <1>0a, <1>7 DEF SetupAbandoned, Forget
  <2>2. QED
    BY <1>0, <1>0b, <2>1, ReturnKept
<1>8. ASSUME NEW t \in Starters, SpawnYtdlp(t) PROVE ReturnInv'
  <2>1. \A u \in Threads : u # t => /\ pc'[u] = pc[u] /\ sid'[u] = sid[u]
                                   /\ report'[u] = report[u] /\ kids'[u] = kids[u]
                                   /\ pend'[u] = pend[u]
    BY <1>0, <1>0a, <1>8 DEF SpawnYtdlp
  <2>2. QED
    BY <1>0, <1>0b, <2>1, ReturnKept
<1>9. ASSUME NEW t \in Starters, RegisterYtdlp(t) PROVE ReturnInv'
  <2>1. sid[t] \in Sessions
    BY <1>0, <1>9, Basics DEF RegisterYtdlp, IInv, SidInv
  <2>2. \A u \in Cancellers : /\ pc'[u] = pc[u] /\ sid'[u] = sid[u]
                              /\ report'[u] = report[u] /\ kids'[u] = kids[u]
                              /\ pend'[u] = pend[u]
    BY <1>0, <1>0a, <1>9, <2>1 DEF RegisterYtdlp, Forget
  <2>3. QED
    BY <1>0b, <2>2, ReturnKept
<1>10. ASSUME NEW t \in Starters, RegisterRefused(t) PROVE ReturnInv'
  <2>1. \A u \in Threads : u # t => /\ pc'[u] = pc[u] /\ sid'[u] = sid[u]
                                   /\ report'[u] = report[u] /\ kids'[u] = kids[u]
                                   /\ pend'[u] = pend[u]
    BY <1>0, <1>0a, <1>10 DEF RegisterRefused
  <2>2. QED
    BY <1>0, <1>0b, <2>1, ReturnKept
<1>11. ASSUME NEW t \in Starters, ReapYtdlp(t) PROVE ReturnInv'
  <2>1. \A u \in Threads : u # t => /\ pc'[u] = pc[u] /\ sid'[u] = sid[u]
                                   /\ report'[u] = report[u] /\ kids'[u] = kids[u]
                                   /\ pend'[u] = pend[u]
    BY <1>0, <1>0a, <1>11 DEF ReapYtdlp, Forget
  <2>2. QED
    BY <1>0, <1>0b, <2>1, ReturnKept
<1>12. ASSUME NEW t \in Cancellers, CancelCall(t) PROVE ReturnInv'
  <2>1. PICK n \in BOOLEAN, m \in BOOLEAN : CancelBegin(t, n, m)
    BY <1>12 DEF CancelCall
  <2>2. \A u \in Threads : u # t => /\ pc'[u] = pc[u] /\ sid'[u] = sid[u]
                                   /\ report'[u] = report[u] /\ kids'[u] = kids[u]
                                   /\ pend'[u] = pend[u]
    BY <1>0, <1>0a, <2>1 DEF CancelBegin
  <2>3. UNCHANGED <<slot, finalizing, counter>>
    BY <1>12 DEF CancelCall
  <2>4. CASE slot = None
    <3>1. pc'[t] = "waitFinal" /\ pend'[t] = finalizing
      BY <1>0, <1>0a, <2>1, <2>4 DEF CancelBegin
    <3>2. \A s \in finalizing : s \in Sessions /\ s <= counter /\ slot # s
      BY <2>4, Basics DEF IInv, TypeOK, CallbackInv
    <3>3. ReturnAt(t)'
      BY <2>3, <3>1, <3>2 DEF ReturnAt, Taken
    <3>4. QED
      BY <1>0, <1>0b, <2>2, <3>3, ReturnKept
  <2>5. CASE slot # None
    <3>1. /\ CancelSeen(t) /\ slot \in Sessions
          /\ slot # None => pc'[t] = "killWait" \/ kids'[t] = {}
          /\ sess'[slot].cancelled
      BY <2>1, <2>5, CancelBeginDooms, Basics
    <3>2. /\ pc'[t] = IF WorkerCompletes(slot) THEN "killWait" ELSE "killComplete"
          /\ pend'[t] = {slot} /\ sid'[t] = slot
      BY <1>0, <1>0a, <2>1, <2>5 DEF CancelBegin
    <3>3. report'[t].oc # "none"
      BY <2>5, <3>1 DEF CancelSeen
    <3>4. CASE WorkerCompletes(slot)
      BY <3>2, <3>4, <1>0, <1>0b, <2>2, ReturnKept DEF ReturnAt, Taken
    <3>5. CASE ~WorkerCompletes(slot)
      <4>1. pc[slot] \notin WorkerLabels
        BY <3>1, <3>5 DEF WorkerCompletes, IInv, WorkerInv
      <4>2. pc[slot] \notin Taken
        BY <1>0, <3>1, FinishedIdle DEF IInv, SidInv
      <4>3. pc[slot] # "ended"
        BY <3>1 DEF ReturnInv
      <4>4. pc[slot] = "idle"
        BY <3>1, <4>1, <4>2, <4>3 DEF IInv, LabelInv
      <4>5. pc'[slot] = "idle"
        BY <1>0, <2>2, <3>1, <4>4
      <4>6. ReturnAt(t)'
        BY <2>3, <2>5, <3>1, <3>2, <3>3, <3>5, <4>5 DEF ReturnAt
      <4>7. QED
        BY <1>0, <1>0b, <2>2, <4>6, ReturnKept
    <3>6. QED
      BY <3>4, <3>5
  <2>6. QED
    BY <2>4, <2>5
<1>13. ASSUME NEW t \in Cancellers, CancelReturn(t) PROVE ReturnInv'
  <2>1. \A u \in Threads : u # t => /\ pc'[u] = pc[u] /\ sid'[u] = sid[u]
                                   /\ report'[u] = report[u] /\ kids'[u] = kids[u]
                                   /\ pend'[u] = pend[u]
    BY <1>0, <1>0a, <1>13 DEF CancelReturn
  <2>2. pc'[t] = "idle"
    BY <1>0, <1>13 DEF CancelReturn
  <2>3. ReturnAt(t)'
    BY <2>2 DEF ReturnAt, Taken
  <2>4. QED
    BY <1>0, <1>0b, <2>1, <2>3, ReturnKept
<1>14. ASSUME NEW t \in Starters \cup Cancellers, CancelKill(t) PROVE ReturnInv'
  <2>1. \A u \in Threads : u # t => /\ pc'[u] = pc[u] /\ sid'[u] = sid[u]
                                   /\ report'[u] = report[u] /\ kids'[u] = kids[u]
                                   /\ pend'[u] = pend[u]
    BY <1>0, <1>0a, <1>14 DEF CancelKill
  <2>2. ASSUME t \in Cancellers PROVE ReturnAt(t)'
    <3>1. /\ UNCHANGED <<slot, sess, sid, pend, kids, report>>
          /\ pc[t] \in {"killWait", "killComplete"}
          /\ pc' = [pc EXCEPT ![t] = IF pc[t] = "killWait" THEN "waitSlot" ELSE "complete"]
      BY <1>14 DEF CancelKill
    <3>2. ReturnAt(t) /\ sid[t] \in Sessions /\ sid[t] # t
      BY <1>0, <2>2, <3>1, Basics DEF ReturnInv, IInv, SidInv
    <3>3. QED
      BY <1>0, <3>1, <3>2 DEF ReturnAt, Taken
  <2>3. QED
    BY <1>0, <1>0b, <2>1, <2>2, ReturnKept
<1>15. ASSUME NEW t \in Starters \cup Cancellers, WaitSlot(t) PROVE ReturnInv'
  <2>1. \A u \in Threads : u # t => /\ pc'[u] = pc[u] /\ sid'[u] = sid[u]
                                   /\ report'[u] = report[u] /\ kids'[u] = kids[u]
                                   /\ pend'[u] = pend[u]
    BY <1>0, <1>0a, <1>15 DEF WaitSlot
  <2>2. ASSUME t \in Cancellers PROVE ReturnAt(t)'
    <3>1. /\ UNCHANGED <<slot, counter, sid, pend>> /\ pc[t] = "waitSlot" /\ slot # sid[t]
          /\ pc'[t] = "waitFinal"
      BY <1>0, <1>15 DEF WaitSlot
    <3>2. ReturnAt(t) /\ sid[t] <= counter
      BY <1>0, <2>2 DEF ReturnInv, IInv, SidInv
    <3>3. QED
      BY <3>1, <3>2 DEF ReturnAt, Taken
  <2>3. QED
    BY <1>0, <1>0b, <2>1, <2>2, ReturnKept
<1>16. ASSUME NEW t \in Starters \cup Cancellers, WaitFinal(t) PROVE ReturnInv'
  <2>1. \A u \in Threads : u # t => /\ pc'[u] = pc[u] /\ sid'[u] = sid[u]
                                   /\ report'[u] = report[u] /\ kids'[u] = kids[u]
                                   /\ pend'[u] = pend[u]
    BY <1>0, <1>0a, <1>16 DEF WaitFinal
  <2>2. ASSUME t \in Cancellers PROVE ReturnAt(t)'
    <3>1. /\ UNCHANGED <<slot, counter, pend, finalizing>> /\ pc[t] = "waitFinal"
          /\ pend[t] \cap finalizing = {} /\ pc'[t] = "returned"
      BY <1>0, <1>16, <2>2 DEF WaitFinal
    <3>2. ReturnAt(t)
      BY <2>2 DEF ReturnInv
    <3>3. QED
      BY <3>1, <3>2 DEF ReturnAt, Taken
  <2>3. QED
    BY <1>0, <1>0b, <2>1, <2>2, ReturnKept
<1>17. ASSUME NEW t \in Threads, CompleteTake(t) PROVE ReturnInv'
  <2>1. \A u \in Threads : u # t => /\ pc'[u] = pc[u] /\ sid'[u] = sid[u]
                                   /\ report'[u] = report[u] /\ kids'[u] = kids[u]
                                   /\ pend'[u] = pend[u]
    BY <1>0, <1>0a, <1>17 DEF CompleteTake, Forget
  <2>2. ASSUME t \in Cancellers PROVE ReturnAt(t)'
    <3>1. /\ UNCHANGED <<counter, sess, sid, pend, kids, report>> /\ pc[t] = "complete"
      BY <1>17, <2>2 DEF CompleteTake, Forget
    <3>2. ReturnAt(t) /\ sid[t] \in Sessions /\ sid[t] # t /\ sid[t] # None /\ sid[t] <= counter
      BY <1>0, <2>2, <3>1, Basics DEF ReturnInv, IInv, SidInv
    <3>3. CASE slot = sid[t]
      <4>1. slot' = None /\ pc' = [pc EXCEPT ![t] = "publish"]
        BY <1>17, <3>3 DEF CompleteTake
      <4>2. QED
        BY <1>0, <3>1, <3>2, <4>1 DEF ReturnAt, Taken
    <3>4. CASE slot # sid[t]
      <4>1. slot' = slot /\ pc'[t] = Continuation(t) /\ pc'[sid[t]] = pc[sid[t]]
        BY <1>0, <1>17, <3>2, <3>4 DEF CompleteTake
      <4>2. Continuation(t) = "returned"
        BY <1>0, <2>2 DEF Continuation
      <4>3. QED
        BY <1>0, <3>1, <3>2, <3>4, <4>1, <4>2 DEF ReturnAt, Taken
    <3>5. QED
      BY <3>3, <3>4
  <2>3. QED
    BY <1>0, <1>0b, <2>1, <2>2, ReturnKept
<1>18. ASSUME NEW t \in Threads, CompletePublish(t) PROVE ReturnInv'
  <2>1. \A u \in Threads : u # t => /\ pc'[u] = pc[u] /\ sid'[u] = sid[u]
                                   /\ report'[u] = report[u] /\ kids'[u] = kids[u]
                                   /\ pend'[u] = pend[u]
    BY <1>0, <1>0a, <1>18 DEF CompletePublish
  <2>2. ASSUME t \in Cancellers PROVE ReturnAt(t)'
    <3>1. /\ UNCHANGED <<slot, sess, sid, pend, kids, report>> /\ pc[t] \in Taken
          /\ \E label \in Taken : pc' = [pc EXCEPT ![t] = label]
      BY <1>18 DEF CompletePublish, Taken
    <3>2. ReturnAt(t) /\ sid[t] \in Sessions /\ sid[t] # t
      BY <1>0, <2>2, <3>1, Basics DEF ReturnInv, IInv, SidInv
    <3>3. QED
      BY <1>0, <3>1, <3>2 DEF ReturnAt, Taken
  <2>3. QED
    BY <1>0, <1>0b, <2>1, <2>2, ReturnKept
<1>19. ASSUME NEW t \in Threads, CompleteCallback(t) PROVE ReturnInv'
  <2>1. \A u \in Threads : u # t => /\ pc'[u] = pc[u] /\ sid'[u] = sid[u]
                                   /\ report'[u] = report[u] /\ kids'[u] = kids[u]
                                   /\ pend'[u] = pend[u]
    BY <1>0, <1>0a, <1>19 DEF CompleteCallback
  <2>2. ASSUME t \in Cancellers PROVE ReturnAt(t)'
    <3>1. /\ UNCHANGED <<slot, sess, sid, pend, kids, report>> /\ pc[t] \in Taken
          /\ \E label \in Taken : pc' = [pc EXCEPT ![t] = label]
      BY <1>19 DEF CompleteCallback, Taken
    <3>2. ReturnAt(t) /\ sid[t] \in Sessions /\ sid[t] # t
      BY <1>0, <2>2, <3>1, Basics DEF ReturnInv, IInv, SidInv
    <3>3. QED
      BY <1>0, <3>1, <3>2 DEF ReturnAt, Taken
  <2>3. QED
    BY <1>0, <1>0b, <2>1, <2>2, ReturnKept
<1>20. ASSUME NEW t \in Threads, CompleteFinish(t) PROVE ReturnInv'
  <2>1. \A u \in Threads : u # t => /\ pc'[u] = pc[u] /\ sid'[u] = sid[u]
                                   /\ report'[u] = report[u] /\ kids'[u] = kids[u]
                                   /\ pend'[u] = pend[u]
    BY <1>0, <1>0a, <1>20 DEF CompleteFinish, Forget
  <2>2. ASSUME t \in Cancellers PROVE ReturnAt(t)'
    <3>1. /\ UNCHANGED <<slot, counter, sid, pend, kids, report>> /\ pc[t] = "calling"
          /\ pc' = [pc EXCEPT ![t] = Continuation(t)]
      BY <1>20, <2>2 DEF CompleteFinish, Forget
    <3>2. /\ ReturnAt(t) /\ sid[t] \in Sessions /\ sid[t] # t /\ sid[t] <= counter
          /\ slot # sid[t]
      BY <1>0, <2>2, <3>1, FinishedIdle DEF ReturnInv, IInv, SidInv, Taken
    <3>3. Continuation(t) = "returned"
      BY <1>0, <2>2 DEF Continuation
    <3>4. QED
      BY <1>0, <3>1, <3>2, <3>3 DEF ReturnAt, Taken
  <2>3. QED
    BY <1>0, <1>0b, <2>1, <2>2, ReturnKept
<1>21. ASSUME NEW t \in Sessions, YtdlpExits(t) PROVE ReturnInv'
  BY <1>0, <1>21, <1>0b, ReturnKept DEF YtdlpExits
<1>22. ASSUME NEW t \in Sessions, Progress(t) PROVE ReturnInv'
  BY <1>0, <1>22, <1>0b, ReturnKept DEF Progress
<1>23. ASSUME NEW t \in Sessions, WorkerStep(t) PROVE ReturnInv'
  <2>1. WorkerReports(t) /\ UNCHANGED <<kids, pend>>
    BY <1>23, WorkerStepReports, WorkerStepLeaves
  <2>2. QED
    BY <1>0, <1>0b, <2>1, ReturnKept DEF WorkerReports
<1>24. ASSUME UNCHANGED vars PROVE ReturnInv'
  BY <1>0, <1>24, <1>0b, ReturnKept DEF vars
<1>25. QED
  BY <1>1, <1>2, <1>3, <1>4, <1>5, <1>6, <1>7, <1>8, <1>9, <1>10, <1>11, <1>12, <1>13,
     <1>14, <1>15, <1>16, <1>17, <1>18, <1>19, <1>20, <1>21, <1>22, <1>23, <1>24
  DEF Next, StartStep, CancelStep, CompleteStep

-----------------------------------------------------------------------------
(* The theorems                                                            *)

CancelInv == IInv /\ OutcomeInv /\ HandleInv /\ KillInv /\ ReturnInv

\* The invariant of this module holds initially.
LEMMA InitCancel == Init => CancelInv
<1> SUFFICES ASSUME Init PROVE CancelInv
  OBVIOUS
<1>1. IInv /\ OutcomeInv
  BY InitIInv, InitSlot
<1>2. HandleInv
  BY DEF Init, HandleInv, NewSession
<1>3. KillInv
  BY DEF Init, KillInv, Threads
<1>4. ReturnInv
  BY DEF Init, ReturnInv, ReturnAt, Threads, Taken
<1>5. QED
  BY <1>1, <1>2, <1>3, <1>4 DEF CancelInv

\* The invariant of this module, for the proofs of its properties.
THEOREM CancelInvariant == Spec => []CancelInv
<1>1. CancelInv /\ [Next]_vars => CancelInv'
  BY IInvStep, OutcomeStep, HandleStep, KillStep, ReturnStep DEF CancelInv
<1>2. QED
  BY InitCancel, <1>1, PTL DEF Spec

\* KilledReportsCancelled holds: the exit a cancel causes is never reported as
\* a failure of the download.
THEOREM KilledCancelled == Spec => []KilledReportsCancelled
<1>1. CancelInv => KilledReportsCancelled
  <2> SUFFICES ASSUME CancelInv, NEW t \in Starters \cup Cancellers, kids[t] # {},
                      result[sid[t]].oc # "none"
               PROVE  result[sid[t]].oc = "Cancelled"
    BY DEF KilledReportsCancelled
  <2>1. sid[t] \in Sessions
    BY DEF CancelInv, KillInv
  <2>2. slot # sid[t]
    BY <2>1 DEF CancelInv, OutcomeInv
  <2>3. QED
    BY <2>2 DEF CancelInv, KillInv
<1>2. QED
  BY CancelInvariant, <1>1, PTL

\* WaitingCancelSeesCallback holds: who waited for a worker or for pending
\* callbacks returns after them.
THEOREM CallbackSeen == Spec => []WaitingCancelSeesCallback
<1>1. CancelInv => WaitingCancelSeesCallback
  <2> SUFFICES ASSUME CancelInv, NEW t \in Cancellers, NEW s \in Sessions,
                      pc[t] = "returned", s \in pend[t],
                      pc[s] # "idle" \/ kids[t] # {} \/ report[t].oc = "none"
               PROVE  called[s] = 1 /\ s \notin finalizing
    BY DEF WaitingCancelSeesCallback
  <2>1. s <= counter /\ slot # s /\ s \notin finalizing
    BY DEF CancelInv, ReturnInv, ReturnAt
  <2>2. QED
    BY <2>1 DEF CancelInv, IInv, CallbackInv
<1>2. QED
  BY CancelInvariant, <1>1, PTL
==============================================================================
