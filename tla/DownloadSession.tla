--------------------------- MODULE DownloadSession ---------------------------
(***************************************************************************)
(* The single download session of src-tauri/src/downloader.rs: the threads *)
(* that start, cancel, run and complete it, under the locks STARTUP,       *)
(* EVENT_PUBLISH, ACTIVE and FINALIZING.                                   *)
(*                                                                         *)
(* Three kinds of thread run through the code below.                       *)
(*   Starters    call start_download (the manual command, the queue        *)
(*               runner);                                                  *)
(*   Cancellers  call cancel_active_session or kill_all_processes;         *)
(*   a session's worker (named by the session's id) waits for yt-dlp and   *)
(*               then, if the request asks for it, converts.               *)
(* Each action is what a thread does under one acquisition of ACTIVE, so   *)
(* that lock needs no variable; STARTUP and EVENT_PUBLISH are held across  *)
(* steps and have one.                                                     *)
(*                                                                         *)
(* No specification uses the operators named Bad...: each is the operator  *)
(* after it with a bug the code could plausibly have, which one of the     *)
(* properties must catch.                                                  *)
(***************************************************************************)
EXTENDS Naturals, FiniteSets

CONSTANTS Starters, Cancellers,
          CancelModes,  \* the cancel calls the cancellers make
          MaxSessions,  \* bounds COUNTER
          Files,        \* how many files a download hands to conversion
          NoThread

Sessions == 1 .. MaxSessions
Threads  == Starters \cup Cancellers \cup Sessions
None     == 0           \* the empty slot

\* cancel_active_session(true), cancel_active_session(false), kill_all_processes
Modes == {"announced", "silent", "kill"}

ASSUME SessionAssumption ==
  /\ CancelModes \subseteq Modes
  /\ MaxSessions \in Nat \ {0}
  /\ Files \in Nat \ {0}
  /\ Starters \cap Cancellers = {}
  /\ (Starters \cup Cancellers) \cap Sessions = {}
  /\ NoThread \notin Threads

VARIABLES
  slot,        \* ACTIVE: the id of the session in it, or None
  startup,     \* the holder of STARTUP
  publish,     \* the holder of EVENT_PUBLISH
  finalizing,  \* FINALIZING
  counter,     \* COUNTER
  sess,        \* the fields of each session ever installed
  ytdlp,       \* the yt-dlp process of each session
  helper,      \* its ffmpeg or codec-probe process
  conv,        \* the conversion loop of its worker
  pc,          \* where each thread is
  own,         \* the owner the holder of STARTUP starts a session for
  sid,         \* the session a thread works on
  report,      \* the outcome it passes to complete_session
  kids,        \* the process handles a cancel took out of the session
  pend,        \* the sessions a cancel has to wait for
  called,      \* how often each session's completion callback was called
  result,      \* the outcome and announcement each session completed with
  event        \* the last lifecycle event published for each session

locks   == <<startup, publish>>
procs   == <<ytdlp, helper, conv>>
locals  == <<own, sid, report, kids, pend>>
history == <<called, result, event>>
vars == <<slot, finalizing, counter, sess, pc, locks, procs, locals, history>>

Owners   == {"Manual", "Queue"}
Outcomes == {"Success", "Failed", "Cancelled"}

\* The fields of struct Session the control flow reads. ytdlp and ffmpeg say
\* whether the handle is still in the session.
NewSession(o) ==
  [owner |-> o, cancelled |-> FALSE, notify |-> FALSE, ytdlp |-> FALSE,
   exitPending |-> FALSE, convPending |-> FALSE, ffmpeg |-> FALSE,
   partial |-> FALSE]

NoReport == [oc |-> "none", show |-> FALSE]
NoConversion == [left |-> 0, stage |-> "probe", failed |-> FALSE]

Init ==
  /\ slot = None /\ startup = NoThread /\ publish = NoThread
  /\ finalizing = {} /\ counter = 0
  /\ sess = [s \in Sessions |-> NewSession("Manual")]
  /\ ytdlp = [s \in Sessions |-> "none"]
  /\ helper = [s \in Sessions |-> "none"]
  /\ conv = [s \in Sessions |-> NoConversion]
  /\ pc = [t \in Threads |-> "idle"]
  /\ own = "none"
  /\ sid = [t \in Threads |-> None]
  /\ report = [t \in Threads |-> NoReport]
  /\ kids = [t \in Threads |-> {}]
  /\ pend = [t \in Threads |-> {}]
  /\ called = [s \in Sessions |-> 0]
  /\ result = [s \in Sessions |-> NoReport]
  /\ event = [s \in Sessions |-> "none"]

Goto(t, label) == pc' = [pc EXCEPT ![t] = label]

BadActiveNotCancelled(s) == slot = s

\* with_session(id, |session| !session.cancelled).unwrap_or(false)
ActiveNotCancelled(s) == slot = s /\ ~sess[s].cancelled

\* A thread is about to call complete_session(s, ..) with outcome oc; show
\* says whether the legacy `complete` event will announce it.
Report(t, s, oc, show) ==
  /\ sid' = [sid EXCEPT ![t] = s]
  /\ report' = [report EXCEPT ![t] = [oc |-> oc, show |-> show]]
  /\ Goto(t, "complete")

\* A call returns, and its local variables with it. A cancel keeps its own
\* until CancelReturn.
Forget(t) ==
  IF t \in Cancellers
  THEN UNCHANGED <<sid, report>>
  ELSE /\ sid' = [sid EXCEPT ![t] = None]
       /\ report' = [report EXCEPT ![t] = NoReport]

-----------------------------------------------------------------------------
\* complete_session

\* Where a call of complete_session returns to. A starter that still holds
\* STARTUP is cancelling the session it replaces.
Continuation(t) ==
  CASE t \in Sessions   -> "ended"
    [] t \in Cancellers -> "returned"
    [] OTHER            -> IF startup = t THEN "install" ELSE "idle"

\* Under EVENT_PUBLISH and ACTIVE: the session leaves the slot and enters
\* FINALIZING. A partly failed playlist turns a success into a failure.
\* If somebody else already took the session, the call just returns.
CompleteTake(t) ==
  /\ pc[t] = "complete" /\ publish = NoThread
  /\ LET s == sid[t]
         r == report[t]
     IN IF slot = s
        THEN /\ slot' = None
             /\ finalizing' = finalizing \cup {s}
             /\ publish' = t
             /\ result' = [result EXCEPT ![s] =
                  [r EXCEPT !.oc = IF sess[s].partial /\ @ = "Success"
                                   THEN "Failed" ELSE @]]
             /\ Goto(t, "publish")
             /\ UNCHANGED <<sid, report>>
        ELSE /\ Goto(t, Continuation(t))
             /\ Forget(t)
             /\ UNCHANGED <<slot, finalizing, publish, result>>
  /\ UNCHANGED <<counter, sess, startup, procs, own, kids, pend, called, event>>

\* The terminal events go out before EVENT_PUBLISH is released.
CompletePublish(t) ==
  /\ pc[t] = "publish"
  /\ event' = [event EXCEPT ![sid[t]] = "complete"]
  /\ publish' = NoThread
  /\ Goto(t, "callback")
  /\ UNCHANGED <<slot, finalizing, counter, sess, startup, procs, locals,
                 called, result>>

\* session.on_complete.take(), called with no lock held.
CompleteCallback(t) ==
  /\ pc[t] = "callback"
  /\ called' = [called EXCEPT ![sid[t]] = @ + 1]
  /\ Goto(t, "calling")
  /\ UNCHANGED <<slot, finalizing, counter, sess, locks, procs, locals,
                 result, event>>

BadCompleteFinish(t) ==
  /\ pc[t] = "calling"
  /\ Goto(t, Continuation(t))
  /\ Forget(t)
  /\ UNCHANGED <<slot, finalizing, counter, sess, locks, procs, own, kids, pend, history>>

\* The callback returned; dropping the CompletionFinalizer wakes the waiters.
\* The Session goes with it: only who owned it and whether it was cancelled is
\* remembered here.
CompleteFinish(t) ==
  /\ pc[t] = "calling"
  /\ finalizing' = finalizing \ {sid[t]}
  /\ sess' = [sess EXCEPT ![sid[t]] =
                [NewSession(@.owner) EXCEPT !.cancelled = sess[sid[t]].cancelled]]
  /\ conv' = [conv EXCEPT ![sid[t]] = NoConversion]
  /\ Goto(t, Continuation(t))
  /\ Forget(t)
  /\ UNCHANGED <<slot, counter, locks, ytdlp, helper, own, kids, pend, history>>

BadProgress(s) ==
  /\ publish = NoThread
  /\ s <= counter
  /\ event' = [event EXCEPT ![s] = "progress"]
  /\ UNCHANGED <<slot, finalizing, counter, sess, pc, locks, procs, locals, called,
                 result>>

\* send_progress and emit_job_progress: any thread of the session, only while
\* it is in the slot.
Progress(s) ==
  /\ publish = NoThread
  /\ slot = s
  /\ event' = [event EXCEPT ![s] = "progress"]
  /\ UNCHANGED <<slot, finalizing, counter, sess, pc, locks, procs, locals,
                 called, result>>

-----------------------------------------------------------------------------
\* cancel_session, called by the cancellers and by a starter that replaces a
\* session of the same owner

BadWorkerCompletes(s) == sess[s].ytdlp
\* Does the session have a worker that will complete it?
WorkerCompletes(s) == sess[s].exitPending \/ sess[s].convPending \/ sess[s].ytdlp

\* Under ACTIVE. An empty slot leaves only the pending callbacks to wait for.
\* A session whose worker exists is completed by that worker; otherwise the
\* canceller completes it.
CancelBegin(t, notify, notifyManual) ==
  IF slot = None
  THEN /\ pend' = [pend EXCEPT ![t] = finalizing]
       /\ Goto(t, "waitFinal")
       /\ UNCHANGED <<sess, sid, kids, report>>
  ELSE LET s    == slot
           show == notify \/ (notifyManual /\ sess[s].owner = "Manual")
           wait == WorkerCompletes(s)
       IN /\ sess' = [sess EXCEPT ![s].cancelled = TRUE, ![s].notify = show,
                                  ![s].exitPending = wait \/ @,
                                  ![s].ytdlp = FALSE, ![s].ffmpeg = FALSE]
          /\ kids' = [kids EXCEPT ![t] =
                        (IF sess[s].ytdlp THEN {"ytdlp"} ELSE {})
                          \cup (IF sess[s].ffmpeg THEN {"ffmpeg"} ELSE {})]
          /\ pend' = [pend EXCEPT ![t] = {s}]
          /\ sid' = [sid EXCEPT ![t] = s]
          /\ report' = [report EXCEPT ![t] = [oc |-> "Cancelled", show |-> show]]
          /\ Goto(t, IF wait THEN "killWait" ELSE "killComplete")

CancelCall(t) ==
  /\ pc[t] = "idle"
  /\ \E mode \in CancelModes : CancelBegin(t, mode = "announced", mode # "kill")
  /\ UNCHANGED <<slot, finalizing, counter, locks, procs, own, history>>

\* terminate_tree for each handle taken, with no lock held.
CancelKill(t) ==
  /\ pc[t] \in {"killWait", "killComplete"}
  /\ ytdlp' = [ytdlp EXCEPT ![sid[t]] = IF "ytdlp" \in kids[t] THEN "dead" ELSE @]
  /\ helper' = [helper EXCEPT ![sid[t]] = IF "ffmpeg" \in kids[t] THEN "dead" ELSE @]
  /\ Goto(t, IF pc[t] = "killWait" THEN "waitSlot" ELSE "complete")
  /\ UNCHANGED <<slot, finalizing, counter, sess, locks, conv, locals, history>>

\* wait_for_session_completion: first the slot, then the callback.
WaitSlot(t) ==
  /\ pc[t] = "waitSlot"
  /\ slot # sid[t]
  /\ Goto(t, "waitFinal")
  /\ UNCHANGED <<slot, finalizing, counter, sess, locks, procs, locals, history>>

BadWaitFinal(t) ==
  /\ pc[t] = "waitFinal"
  /\ Goto(t, IF t \in Starters THEN "install" ELSE "returned")
  /\ UNCHANGED <<slot, finalizing, counter, sess, locks, procs, locals, history>>

WaitFinal(t) ==
  /\ pc[t] = "waitFinal"
  /\ pend[t] \cap finalizing = {}
  /\ Goto(t, IF t \in Starters THEN "install" ELSE "returned")
  /\ UNCHANGED <<slot, finalizing, counter, sess, locks, procs, locals, history>>

\* The caller of cancel_session goes on; the thread may be used again.
CancelReturn(t) ==
  /\ pc[t] = "returned"
  /\ Goto(t, "idle")
  /\ pend' = [pend EXCEPT ![t] = {}]
  /\ kids' = [kids EXCEPT ![t] = {}]
  /\ sid' = [sid EXCEPT ![t] = None]
  /\ report' = [report EXCEPT ![t] = NoReport]
  /\ UNCHANGED <<slot, finalizing, counter, sess, locks, procs, own, history>>

-----------------------------------------------------------------------------
\* start_download

StartCall(t) ==
  /\ pc[t] = "idle" /\ startup = NoThread
  /\ counter < MaxSessions
  /\ own' \in Owners
  /\ startup' = t
  /\ Goto(t, "existing")
  /\ UNCHANGED <<slot, finalizing, counter, sess, publish, procs, sid, report,
                 kids, pend, history>>

\* Another owner's session is refused (OwnerConflict), one of the same owner
\* is cancelled first.
StartConflict(t) ==
  /\ pc[t] = "existing"
  /\ slot # None
  /\ sess[slot].owner # own
  /\ startup' = NoThread
  /\ own' = "none"
  /\ Goto(t, "idle")
  /\ UNCHANGED <<slot, finalizing, counter, sess, publish, procs, sid, report, kids,
                 pend, history>>

BadStartExisting(t) ==
  /\ pc[t] = "existing"
  /\ Goto(t, "install")
  /\ UNCHANGED <<slot, finalizing, counter, sess, locks, procs, locals, history>>

StartExisting(t) ==
  /\ pc[t] = "existing"
  /\ slot # None => sess[slot].owner = own
  /\ Goto(t, IF slot = None THEN "install" ELSE "replace")
  /\ UNCHANGED <<slot, finalizing, counter, sess, locks, procs, locals, history>>

StartReplace(t) ==
  /\ pc[t] = "replace"
  /\ CancelBegin(t, FALSE, TRUE)
  /\ UNCHANGED <<slot, finalizing, counter, locks, procs, own, history>>

\* `*lock() = Some(session)` overwrites whatever the slot holds.
Install(t) ==
  /\ pc[t] = "install" /\ publish = NoThread
  /\ counter' = counter + 1
  /\ slot' = counter'
  /\ sess' = [sess EXCEPT ![counter'] = NewSession(own)]
  /\ sid' = [sid EXCEPT ![t] = counter']
  /\ report' = [report EXCEPT ![t] = NoReport]
  /\ pend' = [pend EXCEPT ![t] = {}]
  /\ kids' = [kids EXCEPT ![t] = {}]
  /\ own' = "none"
  /\ Goto(t, "setup")
  /\ UNCHANGED <<finalizing, locks, procs, history>>

\* Validation, staging, media tools, network guard or spawn failed: STARTUP is
\* dropped and the session completes as failed.
SetupFails(t) ==
  /\ pc[t] = "setup"
  /\ startup' = NoThread
  /\ Report(t, sid[t], "Failed", TRUE)
  /\ UNCHANGED <<slot, finalizing, counter, sess, publish, procs, own, kids,
                 pend, history>>

\* A cancel came during setup; whoever cancelled completes the session.
SetupAbandoned(t) ==
  /\ pc[t] = "setup"
  /\ ~ActiveNotCancelled(sid[t])
  /\ startup' = NoThread
  /\ Goto(t, "idle")
  /\ Forget(t)
  /\ UNCHANGED <<slot, finalizing, counter, sess, publish, procs, own, kids, pend,
                 history>>

SpawnYtdlp(t) ==
  /\ pc[t] = "setup"
  /\ ActiveNotCancelled(sid[t])
  /\ ytdlp' = [ytdlp EXCEPT ![sid[t]] = "running"]
  /\ Goto(t, "register")
  /\ UNCHANGED <<slot, finalizing, counter, sess, locks, helper, conv, locals,
                 history>>

\* The child is handed to the session, unless a cancel landed since the spawn.
RegisterYtdlp(t) ==
  /\ pc[t] = "register"
  /\ ActiveNotCancelled(sid[t])
  /\ sess' = [sess EXCEPT ![sid[t]].ytdlp = TRUE, ![sid[t]].exitPending = TRUE]
  /\ startup' = NoThread
  /\ pc' = [pc EXCEPT ![t] = "idle", ![sid[t]] = "waiting"]
  /\ Forget(t)
  /\ UNCHANGED <<slot, finalizing, counter, publish, procs, own, kids, pend, history>>

RegisterRefused(t) ==
  /\ pc[t] = "register"
  /\ ~ActiveNotCancelled(sid[t])
  /\ Goto(t, "reap")
  /\ UNCHANGED <<slot, finalizing, counter, sess, locks, procs, locals, history>>

ReapYtdlp(t) ==
  /\ pc[t] = "reap"
  /\ ytdlp' = [ytdlp EXCEPT ![sid[t]] = "dead"]
  /\ startup' = NoThread
  /\ Goto(t, "idle")
  /\ Forget(t)
  /\ UNCHANGED <<slot, finalizing, counter, sess, publish, helper, conv, own, kids,
                 pend, history>>

-----------------------------------------------------------------------------
\* The worker of session s: the exit waiter and on_ytdlp_exit

\* yt-dlp ends on its own.
YtdlpExits(s) ==
  /\ ytdlp[s] = "running"
  /\ ytdlp' = [ytdlp EXCEPT ![s] = "dead"]
  /\ UNCHANGED <<slot, finalizing, counter, sess, pc, locks, helper, conv, locals,
                 history>>

BadExitSeen(s) ==
  /\ pc[s] = "waiting" /\ ytdlp[s] = "dead"
  /\ slot = s
  /\ sess' = [sess EXCEPT ![s].ytdlp = FALSE]
  /\ Goto(s, "inspect")
  /\ report' = [report EXCEPT ![s].show = sess[s].notify]
  /\ UNCHANGED <<slot, finalizing, counter, locks, procs, own, sid, kids, pend, history>>

\* The waiter sees the exit, drops the handle and reads the cancel flag. The
\* announcement flag read here is the one a refused hand-off uses later. The
\* session is still in the slot (WorkerOwnsSession); the code would otherwise
\* just return.
ExitSeen(s) ==
  /\ pc[s] = "waiting" /\ ytdlp[s] = "dead"
  /\ slot = s
  /\ sess' = [sess EXCEPT ![s].ytdlp = FALSE]
  /\ IF sess[s].cancelled
     THEN Report(s, s, "Cancelled", sess[s].notify)
     ELSE /\ Goto(s, "inspect")
          /\ report' = [report EXCEPT ![s].show = sess[s].notify]
          /\ UNCHANGED sid
  /\ UNCHANGED <<slot, finalizing, counter, locks, procs, own, kids, pend, history>>

\* Pipes left open, a non-zero exit, or no usable file list.
ExitFailed(s) ==
  /\ pc[s] = "inspect"
  /\ Report(s, s, "Failed", TRUE)
  /\ UNCHANGED <<slot, finalizing, counter, sess, locks, procs, own, kids, pend,
                 history>>

\* The files are there, for a playlist perhaps not all of them.
ExitUsable(s) ==
  /\ pc[s] = "inspect"
  /\ \E partial \in BOOLEAN : sess' = [sess EXCEPT ![s].partial = partial]
  /\ \E next \in {"handoff", "install files"} : Goto(s, next)
  /\ UNCHANGED <<slot, finalizing, counter, locks, procs, locals, history>>

\* No conversion: install_downloaded_file_paths, then the flag is read again.
InstallFiles(s) ==
  /\ pc[s] = "install files"
  /\ \/ Report(s, s, "Failed", TRUE)
     \/ /\ sess[s].cancelled
        /\ Report(s, s, "Cancelled", sess[s].notify)
     \/ /\ ~sess[s].cancelled
        /\ Report(s, s, "Success", TRUE)
  /\ UNCHANGED <<slot, finalizing, counter, sess, locks, procs, own, kids, pend,
                 history>>

\* Conversion takes over unless a cancel landed; the refusal announces with
\* the flag ExitSeen read.
Handoff(s) ==
  /\ pc[s] = "handoff"
  /\ IF sess[s].cancelled
     THEN /\ Report(s, s, "Cancelled", report[s].show)
          /\ UNCHANGED <<sess, conv>>
     ELSE /\ sess' = [sess EXCEPT ![s].exitPending = FALSE,
                                  ![s].convPending = TRUE]
          /\ conv' = [conv EXCEPT ![s].left = Files]
          /\ Goto(s, "convert")
          /\ UNCHANGED <<sid, report>>
  /\ UNCHANGED <<slot, finalizing, counter, locks, ytdlp, helper, own, kids, pend,
                 history>>

-----------------------------------------------------------------------------
\* The worker of session s: run_conversion

\* The rest of the batch is published unconverted and reported as cancelled.
BatchCancelled(s) == Report(s, s, "Cancelled", sess[s].notify)

BadNextFile(s, failed) ==
  /\ conv' = [conv EXCEPT ![s].left = @ - IF failed THEN 2 ELSE 1, ![s].failed = @ \/ failed]
  /\ Goto(s, "convert")

\* One file is done with; the loop goes on.
NextFile(s, failed) ==
  /\ conv' = [conv EXCEPT ![s].left = @ - 1, ![s].failed = @ \/ failed]
  /\ Goto(s, "convert")

\* The loop head: the cancel flag is only looked at while files remain.
ConvertNext(s) ==
  /\ pc[s] = "convert"
  /\ \/ /\ conv[s].left = 0
        /\ Report(s, s, IF conv[s].failed THEN "Failed" ELSE "Success", TRUE)
        /\ UNCHANGED conv
     \/ /\ conv[s].left > 0 /\ sess[s].cancelled
        /\ BatchCancelled(s)
        /\ UNCHANGED conv
     \/ /\ conv[s].left > 0 /\ ~sess[s].cancelled
        /\ \/ Goto(s, "publish same") /\ UNCHANGED conv
           \/ /\ conv' = [conv EXCEPT ![s].stage = "probe"]
              /\ Goto(s, "spawn helper")
        /\ UNCHANGED <<sid, report>>
  /\ UNCHANGED <<slot, finalizing, counter, sess, locks, ytdlp, helper, own, kids,
                 pend, history>>

\* Already in the target format: published as it is.
PublishSame(s) ==
  /\ pc[s] = "publish same"
  /\ IF sess[s].cancelled
     THEN BatchCancelled(s) /\ UNCHANGED conv
     ELSE /\ \E failed \in BOOLEAN : NextFile(s, failed)
          /\ UNCHANGED <<sid, report>>
  /\ UNCHANGED <<slot, finalizing, counter, sess, locks, ytdlp, helper, own, kids,
                 pend, history>>

\* The codec probe is spawned without looking at the flag, ffmpeg is not.
SpawnHelper(s) ==
  /\ pc[s] = "spawn helper"
  /\ IF sess[s].cancelled /\ conv[s].stage # "probe"
     THEN BatchCancelled(s) /\ UNCHANGED helper
     ELSE /\ helper' = [helper EXCEPT ![s] = "running"]
          /\ Goto(s, "register helper")
          /\ UNCHANGED <<sid, report>>
  /\ UNCHANGED <<slot, finalizing, counter, sess, locks, ytdlp, conv, own, kids,
                 pend, history>>

\* A helper that cannot be spawned: ffmpeg fails the file, the probe does not.
SpawnHelperFails(s) ==
  /\ pc[s] = "spawn helper"
  /\ \/ /\ conv[s].stage = "probe"
        /\ \E next \in {"gpu", "cpu"} : conv' = [conv EXCEPT ![s].stage = next]
        /\ UNCHANGED pc
     \/ /\ conv[s].stage # "probe" /\ ~sess[s].cancelled
        /\ NextFile(s, TRUE)
  /\ UNCHANGED <<slot, finalizing, counter, sess, locks, ytdlp, helper, locals,
                 history>>

\* The handle goes into the session, unless a cancel landed since the spawn.
RegisterHelper(s) ==
  /\ pc[s] = "register helper"
  /\ IF sess[s].cancelled
     THEN /\ helper' = [helper EXCEPT ![s] = "dead"]
          /\ BatchCancelled(s)
          /\ UNCHANGED sess
     ELSE /\ sess' = [sess EXCEPT ![s].ffmpeg = TRUE]
          /\ Goto(s, "helping")
          /\ UNCHANGED <<helper, sid, report>>
  /\ UNCHANGED <<slot, finalizing, counter, locks, ytdlp, conv, own, kids, pend,
                 history>>

\* ffmpeg or the probe ends on its own or its stall timeout kills it.
HelperExits(s) ==
  /\ pc[s] = "helping" /\ helper[s] = "running"
  /\ helper' = [helper EXCEPT ![s] = "dead"]
  /\ UNCHANGED <<slot, finalizing, counter, sess, pc, locks, ytdlp, conv, locals,
                 history>>

\* The handle is dropped and the flag read. A GPU attempt falls back to the
\* CPU, any other failure of ffmpeg fails the file.
HelperDone(s) ==
  /\ pc[s] = "helping" /\ helper[s] = "dead"
  /\ sess' = [sess EXCEPT ![s].ffmpeg = FALSE]
  /\ IF sess[s].cancelled
     THEN BatchCancelled(s) /\ UNCHANGED conv
     ELSE /\ \/ /\ conv[s].stage = "probe"
                /\ \E next \in {"gpu", "cpu"} : conv' = [conv EXCEPT ![s].stage = next]
                /\ Goto(s, "spawn helper")
             \/ /\ conv[s].stage = "gpu"
                /\ conv' = [conv EXCEPT ![s].stage = "cpu"]
                /\ Goto(s, "spawn helper")
             \/ /\ conv[s].stage # "probe"
                /\ NextFile(s, TRUE)
             \/ /\ conv[s].stage # "probe"
                /\ Goto(s, "publish output") /\ UNCHANGED conv
          /\ UNCHANGED <<sid, report>>
  /\ UNCHANGED <<slot, finalizing, counter, locks, ytdlp, helper, own, kids, pend,
                 history>>

\* install_conversion_output_for_session: the flag, then the installation
\* without any lock.
PublishOutput(s) ==
  /\ pc[s] = "publish output"
  /\ IF sess[s].cancelled
     THEN BatchCancelled(s) /\ UNCHANGED conv
     ELSE /\ \/ Goto(s, "publish source") /\ UNCHANGED conv
             \/ NextFile(s, TRUE)
          /\ UNCHANGED <<sid, report>>
  /\ UNCHANGED <<slot, finalizing, counter, sess, locks, ytdlp, helper, own, kids,
                 pend, history>>

\* The flag once more, then the original is kept, published or retired.
PublishSource(s) ==
  /\ pc[s] = "publish source"
  /\ IF sess[s].cancelled
     THEN BatchCancelled(s) /\ UNCHANGED conv
     ELSE /\ \E failed \in BOOLEAN : NextFile(s, failed)
          /\ UNCHANGED <<sid, report>>
  /\ UNCHANGED <<slot, finalizing, counter, sess, locks, ytdlp, helper, own, kids,
                 pend, history>>

-----------------------------------------------------------------------------
StartStep(t) ==
  \/ StartConflict(t) \/ StartExisting(t) \/ StartReplace(t) \/ Install(t)
  \/ SetupFails(t) \/ SetupAbandoned(t) \/ SpawnYtdlp(t)
  \/ RegisterYtdlp(t) \/ RegisterRefused(t) \/ ReapYtdlp(t)

CompleteStep(t) ==
  CompleteTake(t) \/ CompletePublish(t) \/ CompleteCallback(t) \/ CompleteFinish(t)

CancelStep(t) == CancelKill(t) \/ WaitSlot(t) \/ WaitFinal(t)

WorkerStep(s) ==
  \/ ExitSeen(s) \/ ExitFailed(s) \/ ExitUsable(s) \/ InstallFiles(s) \/ Handoff(s)
  \/ ConvertNext(s) \/ PublishSame(s) \/ SpawnHelper(s) \/ SpawnHelperFails(s)
  \/ RegisterHelper(s) \/ HelperExits(s) \/ HelperDone(s)
  \/ PublishOutput(s) \/ PublishSource(s)

Next ==
  \/ \E t \in Starters : StartCall(t) \/ StartStep(t)
  \/ \E t \in Cancellers : CancelCall(t) \/ CancelReturn(t)
  \/ \E t \in Starters \cup Cancellers : CancelStep(t)
  \/ \E t \in Threads : CompleteStep(t)
  \/ \E s \in Sessions : YtdlpExits(s) \/ WorkerStep(s) \/ Progress(s)

\* Threads that have something to do get to run. Nobody promises that a
\* command is issued, that a progress line is printed, or that yt-dlp ends by
\* itself; ffmpeg ends because of its stall timeout.
Fairness ==
  /\ \A t \in Starters : WF_vars(StartStep(t))
  /\ \A t \in Cancellers : WF_vars(CancelReturn(t))
  /\ \A t \in Starters \cup Cancellers : WF_vars(CancelStep(t))
  /\ \A t \in Threads : WF_vars(CompleteStep(t))
  /\ \A s \in Sessions : WF_vars(WorkerStep(s))

Spec == Init /\ [][Next]_vars
FairSpec == Spec /\ Fairness

-----------------------------------------------------------------------------
Labels == {"idle", "complete", "publish", "callback", "calling",
           "waitFinal", "killWait", "killComplete", "waitSlot", "returned",
           "existing", "replace", "install", "setup", "register", "reap",
           "waiting", "inspect", "handoff", "install files", "convert",
           "publish same", "spawn helper", "register helper", "helping",
           "publish output", "publish source", "ended"}

SessionRec == [owner : Owners, cancelled : BOOLEAN, notify : BOOLEAN,
               ytdlp : BOOLEAN, exitPending : BOOLEAN, convPending : BOOLEAN,
               ffmpeg : BOOLEAN, partial : BOOLEAN]

ReportRec == [oc : Outcomes \cup {"none"}, show : BOOLEAN]

ConversionRec == [left : 0 .. Files, stage : {"probe", "gpu", "cpu"},
                  failed : BOOLEAN]

\* Every variable keeps its type; in particular the slot holds nothing or an
\* id that COUNTER has handed out.
TypeOK ==
  /\ counter \in 0 .. MaxSessions
  /\ slot \in 0 .. counter
  /\ startup \in Starters \cup {NoThread}
  /\ publish \in Threads \cup {NoThread}
  /\ finalizing \subseteq Sessions
  /\ sess \in [Sessions -> SessionRec]
  /\ ytdlp \in [Sessions -> {"none", "running", "dead"}]
  /\ helper \in [Sessions -> {"none", "running", "dead"}]
  /\ conv \in [Sessions -> ConversionRec]
  /\ pc \in [Threads -> Labels]
  /\ own \in Owners \cup {"none"}
  /\ sid \in [Threads -> 0 .. MaxSessions]
  /\ report \in [Threads -> ReportRec]
  /\ kids \in [Threads -> SUBSET {"ytdlp", "ffmpeg"}]
  /\ pend \in [Threads -> SUBSET Sessions]
  /\ called \in [Sessions -> Nat]
  /\ result \in [Sessions -> ReportRec]
  /\ event \in [Sessions -> {"none", "progress", "complete"}]

\* queue.rs: "The callback always runs exactly once per started session."
\* No session is overwritten in the slot, completed twice, or dropped without
\* its callback, whichever of the worker, a canceller and its own starter
\* gets to complete it.
CallbackExactlyOnce ==
  \A s \in Sessions :
    /\ called[s] <= 1
    /\ called[s] = 1 => slot # s
    /\ s <= counter /\ slot # s /\ s \notin finalizing => called[s] = 1

WorkerLabels == {"waiting", "inspect", "handoff", "install files", "convert",
                 "publish same", "spawn helper", "register helper", "helping",
                 "publish output", "publish source", "complete"}

\* Once yt-dlp is registered the session stays in the slot until its own worker
\* completes it: a cancel in any phase, the moment between two phases
\* included, leaves it to the worker to save the files already downloaded.
WorkerOwnsSession ==
  \A s \in Sessions : pc[s] \in WorkerLabels => slot = s

\* A helper process does not outlive its session: after completion only the
\* starter that is about to reap an unregistered yt-dlp still has one.
NoOrphanProcess ==
  \A s \in Sessions :
    s <= counter /\ slot # s =>
      /\ helper[s] # "running"
      /\ ytdlp[s] = "running" =>
           \E t \in Starters : sid[t] = s /\ pc[t] \in {"register", "reap"}

\* A session whose process a cancel killed is not reported as failed (or as a
\* success): the exit the kill causes is never mistaken for the helper's own.
KilledReportsCancelled ==
  \A t \in Starters \cup Cancellers :
    kids[t] # {} /\ result[sid[t]].oc # "none" => result[sid[t]].oc = "Cancelled"

\* downloader.rs: "older terminal events cannot arrive after a newer session
\* becomes current".
EventOrder ==
  \A old, new \in Sessions :
    old < new /\ (slot = new \/ event[new] # "none") => event[old] = "complete"

\* The owner check and the cancel of start_download take ACTIVE separately;
\* in between the slot cannot come to hold the other owner's session.
ReplacesOwnSessionOnly ==
  \A t \in Starters :
    pc[t] = "replace" /\ slot # None => sess[slot].owner = own

\* A session is only followed by another one after all of its own events, and
\* only replaced by its own owner's.
CleanReplacement == EventOrder /\ ReplacesOwnSessionOnly

\* A cancel that waits for a running download or conversion, or for pending
\* callbacks, does not return before the callback has.
WaitingCancelSeesCallback ==
  \A t \in Cancellers, s \in Sessions :
    /\ pc[t] = "returned" /\ s \in pend[t]
    /\ pc[s] # "idle" \/ kids[t] # {} \/ report[t].oc = "none"
    => called[s] = 1 /\ s \notin finalizing

\* Whoever waits for a session waits for somebody who goes on: for the worker
\* that owns it, or for the thread that took it out of the slot and is about to
\* call back. That holds for start_download, too, which cancels and waits for
\* the session it replaces with STARTUP held: what it waits for never needs
\* STARTUP, or a lock of somebody who does.
WaitsAreAnswered ==
  \A t \in Starters \cup Cancellers :
    /\ pc[t] = "waitSlot" /\ slot = sid[t] => pc[slot] \in WorkerLabels
    /\ pc[t] \in {"waitSlot", "waitFinal"} =>
         \A s \in pend[t] \cap finalizing :
           \E u \in Threads : sid[u] = s /\ pc[u] \in {"publish", "callback", "calling"}

-----------------------------------------------------------------------------
\* The slot as its clients see it.
SlotPhase(s) ==
  CASE s > counter     -> "unused"
    [] slot = s        -> "active"
    [] s \in finalizing -> IF called[s] = 0 THEN "finalizing" ELSE "calling"
    [] OTHER           -> "done"

ClientSees(s, value, otherwise) ==
  IF SlotPhase(s) \in {"active", "finalizing", "calling"} THEN value ELSE otherwise

Slot == INSTANCE SessionSlot WITH
  phase     <- [s \in Sessions |-> SlotPhase(s)],
  owner     <- [s \in Sessions |-> ClientSees(s, sess[s].owner, "none")],
  cancelled <- [s \in Sessions |-> ClientSees(s, sess[s].cancelled, FALSE)],
  outcome   <- [s \in Sessions |-> ClientSees(s, result[s].oc, "none")]

\* Whatever the threads, locks and processes do, the manual command and the
\* queue runner see a slot that behaves as SessionSlot says: one session at a
\* time, one outcome, "Cancelled" only after a cancel, one callback.
ImplementsSlot == Slot!SlotSafety

\* Under the fairness of the threads, what SessionSlot says must happen does:
\* cancelled sessions complete, and completed ones deliver their callback.
ImplementsFairSlot == Slot!SlotSpec
==============================================================================
