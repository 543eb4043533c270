---------------------------- MODULE DownloadQueue ----------------------------
(***************************************************************************)
(* The download queue of src-tauri/src/queue.rs: its runner thread, the    *)
(* queue commands of the renderer, stop() and the manual download that     *)
(* competes for the session slot. The slot itself is SessionSlot, which    *)
(* DownloadSession implements; STARTUP is kept, because a manual download  *)
(* that replaces another holds it while the runner wants to start.         *)
(*                                                                         *)
(* Each action is what a thread does under one acquisition of the queue    *)
(* lock or of ACTIVE; START_GUARD and STARTUP are held across steps.       *)
(*                                                                         *)
(* No specification uses the operators named Bad...: each is the operator  *)
(* after it with a bug the code could plausibly have, which one of the     *)
(* properties must catch.                                                  *)
(***************************************************************************)
EXTENDS SessionSlot, Sequences, SequencesExt

CONSTANTS Items,         \* ids of queue items
          Commanders,    \* threads that run a command of the renderer
          Stoppers,      \* threads of window.rs that run queue::stop
          MaxCommands,   \* bounds the commands that lead to more sessions
          NoThread, NoItem

Callers == Commanders \cup Stoppers

ASSUME QueueAssumption ==
  /\ MaxCommands \in Nat
  /\ Sessions = 1 .. Cardinality(Items) + MaxCommands
  /\ Commanders \cap Stoppers = {}
  /\ NoThread \notin Callers /\ NoItem \notin Items
  /\ {"runner", "manual"} \cap (Callers \cup {NoThread}) = {}

VARIABLES
  items,       \* QueueState.items, as ids in list order
  status,      \* their status; "none" for an id that is not in the list
  running, cancelling, active, stopping,
               \* running, cancelled, active_item_id, stopping
  guard,       \* the holder of START_GUARD
  startup,     \* the holder of STARTUP
  rpc,         \* where the runner is; "none" while runner_alive is false
  job,         \* the item the runner has claimed
  carrier,     \* the session it has started for it
  itemOf,      \* the item whose completion callback each session carries
  pc, cmd,     \* where each caller is, and in which command
  await,       \* the sessions its cancel waits for
  picked,      \* the items cancel_queue or stop() noted before it waited
  manual,      \* where the manual download command is
  window,      \* whether the main window exists
  records,     \* activity records written for each item's current attempt
  left         \* commands still allowed by MaxCommands

state   == <<items, status, running, cancelling, active, stopping>>
runner  == <<rpc, job, carrier>>
callers == <<pc, cmd, await, picked>>
held    == <<guard, startup>>
vars == <<slotVars, state, runner, callers, held, itemOf, manual, window, records, left>>

Terminal == {"Completed", "Failed", "Cancelled"}
Pending  == {i \in Items : status[i] = "Pending"}

\* Lists of ids in which no id is twice, and who comes before whom in a list.
Lists == {s \in UNION {[1 .. n -> Items] : n \in 0 .. Cardinality(Items)} : IsInjective(s)}
Order(s) == {d \in Items \X Items :
               \E p, q \in DOMAIN s : p < q /\ d = <<s[p], s[q]>>}

\* QueueStatus of a completion's outcome.
StatusOf(oc) == IF oc = "Success" THEN "Completed" ELSE oc

Init ==
  /\ SlotInit
  /\ items \in Lists
  /\ status = [i \in Items |-> IF Contains(items, i) THEN "Pending" ELSE "none"]
  /\ running = FALSE /\ cancelling = FALSE /\ stopping = FALSE /\ active = NoItem
  /\ guard = NoThread /\ startup = NoThread
  /\ rpc = "none" /\ job = NoItem /\ carrier = 0
  /\ itemOf = [s \in Sessions |-> NoItem]
  /\ pc = [c \in Callers |-> "idle"] /\ cmd = [c \in Callers |-> "none"]
  /\ await = [c \in Callers |-> {}] /\ picked = [c \in Callers |-> {}]
  /\ manual = "idle" /\ window = TRUE
  /\ records = [i \in Items |-> 0]
  /\ left = MaxCommands

Goto(c, label) == pc' = [pc EXCEPT ![c] = label]

\* COUNTER: the next session is the lowest unused one.
NewSession(s) == phase[s] = "unused" /\ \A r \in Sessions : r < s => phase[r] # "unused"

Spend == left > 0 /\ left' = left - 1

-----------------------------------------------------------------------------
\* Completions

\* end_run_if_drained, once the items have the statuses st.
EndRunIfDrained(st, nowActive) ==
  LET over == running /\ \A i \in Items : st[i] \notin {"Pending", "Downloading"}
  IN /\ running' = (running /\ ~over)
     /\ active' = IF over THEN NoItem ELSE nowActive

Cleared(i) == IF active = i THEN NoItem ELSE active

\* finish_item: the item takes the outcome if it is still in the list, and the
\* activity log gets its record either way.
FinishItem(i, oc) ==
  /\ status' = [status EXCEPT ![i] = IF @ = "none" THEN @ ELSE StatusOf(oc)]
  /\ EndRunIfDrained(status', Cleared(i))
  /\ records' = [records EXCEPT ![i] = @ + 1]
  /\ UNCHANGED <<items, cancelling, stopping>>

\* retry_queue_item and stop() start a new attempt (clear_attempt).
NewAttempt(is) ==
  /\ status' = [i \in Items |-> IF i \in is THEN "Pending" ELSE status[i]]
  /\ records' = [i \in Items |-> IF i \in is THEN 0 ELSE records[i]]

-----------------------------------------------------------------------------
\* The session slot

\* While the runner's start_download sets a session up, only a canceller can
\* complete it; after STARTUP is dropped a failed setup may, too.
MayComplete(s, oc) ==
  CASE s = carrier /\ rpc = "setup"   -> oc = "Cancelled"
    [] s = carrier /\ rpc = "started" -> oc \in {"Cancelled", "Failed"}
    [] OTHER -> TRUE

SessionCompletes(s) ==
  /\ \E oc \in Outcomes : MayComplete(s, oc) /\ Complete(s, oc)
  /\ UNCHANGED <<state, runner, callers, held, itemOf, manual, window, records, left>>

\* The completion callback: the runner's ends in finish_item, the manual
\* command's only writes its own activity record.
Callback(s) ==
  /\ Deliver(s)
  /\ IF itemOf[s] = NoItem
     THEN UNCHANGED <<state, records>>
     ELSE FinishItem(itemOf[s], outcome[s])
  /\ UNCHANGED <<runner, callers, held, itemOf, manual, window, left>>

CallbackReturns(s) ==
  /\ Finish(s)
  /\ itemOf' = [itemOf EXCEPT ![s] = NoItem]
  /\ UNCHANGED <<state, runner, callers, held, manual, window, records, left>>

\* cancel_download; nobody here depends on when it returns.
CancelDownload(s) ==
  /\ window
  /\ ~cancelled[s] /\ RequestCancel(s)
  /\ UNCHANGED <<state, runner, callers, held, itemOf, manual, window, records, left>>

-----------------------------------------------------------------------------
\* The runner: run_queue

\* claim_next_in_state takes the first pending item; when there is none the run
\* is over.
Claim ==
  /\ rpc = "claim"
  /\ running /\ ~cancelling
  /\ \E n \in 1 .. Len(items) :
       /\ items[n] \in Pending /\ \A k \in 1 .. n - 1 : items[k] \notin Pending
       /\ status' = [status EXCEPT ![items[n]] = "Downloading"]
       /\ active' = items[n]
       /\ job' = items[n]
  /\ rpc' = "window"
  /\ UNCHANGED <<slotVars, items, running, cancelling, stopping, carrier, callers, held,
                 itemOf, manual, window, records, left>>

ClaimNothing ==
  /\ rpc = "claim"
  /\ ~running \/ cancelling \/ Pending = {}
  /\ running' = FALSE /\ cancelling' = FALSE /\ active' = NoItem
  /\ rpc' = "exit"
  /\ UNCHANGED <<slotVars, items, status, stopping, job, carrier, callers, held, itemOf,
                 manual, window, records, left>>

\* RunnerFinished is dropped: runner_alive becomes false.
RunnerExit ==
  /\ rpc = "exit"
  /\ rpc' = "none" /\ job' = NoItem /\ carrier' = 0
  /\ UNCHANGED <<slotVars, state, callers, held, itemOf, manual, window, records, left>>

\* Without a window the item fails ("Window closed").
WindowCheck ==
  /\ rpc = "window"
  /\ IF window
     THEN rpc' = "check" /\ UNCHANGED <<state, records>>
     ELSE rpc' = "claim" /\ FinishItem(job, "Failed")
  /\ UNCHANGED <<slotVars, job, carrier, callers, held, itemOf, manual, window, left>>

BadStillWanted == status[job] = "Downloading"

StillWanted == running /\ ~cancelling /\ status[job] = "Downloading"

\* Under START_GUARD: is the item still wanted, and is the slot free? If it is
\* not free the runner lets go of the guard and looks again.
CheckWanted ==
  /\ rpc = "check" /\ guard = NoThread
  /\ StillWanted /\ CanStart("Queue")
  /\ guard' = "runner"
  /\ rpc' = "start"
  /\ UNCHANGED <<slotVars, state, job, carrier, callers, startup, itemOf, manual, window,
                 records, left>>

BadCheckUnwanted ==
  /\ rpc = "check" /\ guard = NoThread
  /\ status[job] # "Downloading"
  /\ rpc' = "unstarted"
  /\ UNCHANGED <<slotVars, state, job, carrier, callers, held, itemOf, manual, window,
                 records, left>>

CheckUnwanted ==
  /\ rpc = "check" /\ guard = NoThread
  /\ ~StillWanted
  /\ rpc' = "unstarted"
  /\ UNCHANGED <<slotVars, state, job, carrier, callers, held, itemOf, manual, window,
                 records, left>>

\* start_download with START_GUARD held.
StartSession ==
  /\ rpc = "start" /\ startup = NoThread
  /\ \E s \in Sessions :
       /\ NewSession(s) /\ Install(s, "Queue")
       /\ itemOf' = [itemOf EXCEPT ![s] = job]
       /\ carrier' = s
  /\ startup' = "runner"
  /\ rpc' = "setup"
  /\ UNCHANGED <<state, job, callers, guard, manual, window, records, left>>

\* OwnerConflict: a manual session came first; try again later.
StartConflict ==
  /\ rpc = "start" /\ startup = NoThread
  /\ ~CanStart("Queue")
  /\ guard' = NoThread
  /\ rpc' = "check"
  /\ UNCHANGED <<slotVars, state, job, carrier, callers, startup, itemOf, manual, window,
                 records, left>>

SetupEnds ==
  /\ rpc = "setup"
  /\ startup' = NoThread
  /\ rpc' = "started"
  /\ UNCHANGED <<slotVars, state, job, carrier, callers, guard, itemOf, manual, window,
                 records, left>>

\* start_download returns; after a failed setup only when it has run the
\* callback itself.
StartReturns ==
  /\ rpc = "started"
  /\ phase[carrier] \in {"finalizing", "calling"} => cancelled[carrier]
  /\ guard' = NoThread
  /\ rpc' = "await"
  /\ UNCHANGED <<slotVars, state, job, carrier, callers, startup, itemOf, manual, window,
                 records, left>>

\* receiver.recv(): the callback sends after finish_item.
Awaited ==
  /\ rpc = "await"
  /\ phase[carrier] \in {"calling", "done"}
  /\ rpc' = "claim"
  /\ UNCHANGED <<slotVars, state, job, carrier, callers, held, itemOf, manual, window,
                 records, left>>

\* finish_unstarted_item: nothing is recorded for an item that was cleared.
FinishUnstarted ==
  /\ rpc = "unstarted"
  /\ IF status[job] = "Downloading"
     THEN FinishItem(job, "Cancelled")
     ELSE /\ active' = Cleared(job)
          /\ UNCHANGED <<items, status, running, cancelling, stopping, records>>
  /\ rpc' = "claim"
  /\ UNCHANGED <<slotVars, job, carrier, callers, held, itemOf, manual, window, left>>

RunnerStep ==
  \/ Claim \/ ClaimNothing \/ RunnerExit \/ WindowCheck \/ CheckWanted \/ CheckUnwanted
  \/ StartSession \/ StartConflict \/ SetupEnds \/ StartReturns \/ Awaited
  \/ FinishUnstarted

-----------------------------------------------------------------------------
\* Commands that take the queue lock once

\* queueActionLocks: the renderer has one of these commands at a time. The
\* buttons of an item do not look at it.
Ready == window /\ \A d \in Commanders : pc[d] = "idle"

BadStartQueue(c) ==
  /\ Ready
  /\ Pending # {} /\ ~running /\ rpc = "none" /\ CanStart("Queue")
  /\ running' = TRUE /\ cancelling' = FALSE
  /\ rpc' = "claim"
  /\ UNCHANGED <<slotVars, items, status, active, stopping, job, carrier, callers, held,
                 itemOf, manual, window, records, left>>

\* start_queue refuses while a stop, a run or a runner is left, and while a
\* manual session has the slot.
StartQueue(c) ==
  /\ Ready
  /\ Pending # {} /\ ~stopping /\ ~running /\ rpc = "none" /\ CanStart("Queue")
  /\ running' = TRUE /\ cancelling' = FALSE
  /\ rpc' = "claim"
  /\ UNCHANGED <<slotVars, items, status, active, stopping, job, carrier, callers, held,
                 itemOf, manual, window, records, left>>

\* add_to_queue. Ids are never used again, so an id may come back only when
\* nobody remembers it.
AddToQueue(c, i) ==
  /\ Ready /\ Spend
  /\ status[i] = "none" /\ job # i
  /\ \A s \in Sessions : itemOf[s] # i
  /\ \A d \in Callers : i \notin picked[d]
  /\ items' = Append(items, i)
  /\ NewAttempt({i})
  /\ UNCHANGED <<slotVars, running, cancelling, active, stopping, runner, callers, held,
                 itemOf, manual, window>>

\* remove_from_queue for one item, clear_finished_queue for all finished ones.
Drop(is) ==
  /\ items' \in {s \in Lists : /\ ToSet(s) = ToSet(items) \ is
                             /\ Order(s) \subseteq Order(items)}
  /\ status' = [i \in Items |-> IF i \in is THEN "none" ELSE status[i]]

RemoveFromQueue(i) ==
  /\ window
  /\ status[i] \notin {"none", "Downloading"}
  /\ Drop({i})
  /\ UNCHANGED <<slotVars, running, cancelling, active, stopping, runner, callers, held,
                 itemOf, manual, window, records, left>>

ClearFinished(c) ==
  /\ Ready
  /\ Drop({i \in Items : status[i] \in Terminal})
  /\ UNCHANGED <<slotVars, running, cancelling, active, stopping, runner, callers, held,
                 itemOf, manual, window, records, left>>

RetryItem(i) ==
  /\ window /\ Spend
  /\ status[i] \in {"Failed", "Cancelled"}
  /\ NewAttempt({i})
  /\ UNCHANGED <<slotVars, items, running, cancelling, active, stopping, runner, callers,
                 held, itemOf, manual, window>>

BadReorder ==
  /\ window
  /\ \E p, q \in 1 .. Len(items) :
       /\ p < q
       /\ \A k \in p .. q : items[k] \in Pending <=> k \in {p, q}
       /\ items' = [items EXCEPT ![p] = items[q]]
  /\ UNCHANGED <<slotVars, status, running, cancelling, active, stopping, runner, callers,
                 held, itemOf, manual, window, records, left>>

\* reorder_queue_item swaps a pending item with the next pending one.
Reorder ==
  /\ window
  /\ \E p, q \in 1 .. Len(items) :
       /\ p < q
       /\ \A k \in p .. q : items[k] \in Pending <=> k \in {p, q}
       /\ items' = [items EXCEPT ![p] = items[q], ![q] = items[p]]
  /\ UNCHANGED <<slotVars, status, running, cancelling, active, stopping, runner, callers,
                 held, itemOf, manual, window, records, left>>

-----------------------------------------------------------------------------
\* cancel_queue, clear_queue and stop(): they hold START_GUARD while they
\* cancel the session

\* cancel_queue stops the run, and cancels a session only if an item is active.
CancelQueueCall(c) ==
  /\ Ready /\ guard = NoThread /\ Spend
  /\ guard' = c
  /\ cancelling' = TRUE /\ running' = FALSE
  /\ cmd' = [cmd EXCEPT ![c] = "cancel"]
  /\ Goto(c, IF active # NoItem THEN "cancel session" ELSE "proceed")
  /\ UNCHANGED <<slotVars, items, status, active, stopping, runner, await, picked, startup,
                 itemOf, manual, window, records>>

\* clear_queue cancels only if the queue is running.
ClearQueueCall(c) ==
  /\ Ready /\ guard = NoThread /\ Spend
  /\ guard' = c
  /\ cmd' = [cmd EXCEPT ![c] = "clear"]
  /\ IF running
     THEN /\ cancelling' = TRUE /\ running' = FALSE /\ active' = NoItem
          /\ Goto(c, "cancel session")
     ELSE /\ UNCHANGED <<cancelling, running, active>>
          /\ Goto(c, "proceed")
  /\ UNCHANGED <<slotVars, items, status, stopping, runner, await, picked, startup,
                 itemOf, manual, window, records>>

\* stop(), when the window closes, the app quits or restarts; on macOS also
\* after the window is gone.
StopCall(c) ==
  /\ pc[c] = "idle" /\ guard = NoThread /\ Spend
  /\ guard' = c
  /\ cancelling' = TRUE /\ running' = FALSE /\ stopping' = TRUE /\ active' = NoItem
  /\ picked' = [picked EXCEPT ![c] = {active} \ {NoItem}]
  /\ cmd' = [cmd EXCEPT ![c] = "stop"]
  /\ Goto(c, "cancel session")
  /\ window' \in {window, FALSE}
  /\ UNCHANGED <<slotVars, items, status, runner, await, startup, itemOf, manual, records>>

\* cancel_session: an empty slot leaves only the pending callbacks.
CancelSession(c) ==
  /\ pc[c] \in {"cancel session", "kill"}
  /\ IF Active = {}
     THEN await' = [await EXCEPT ![c] = Finalizing] /\ UNCHANGED slotVars
     ELSE \E s \in Active : RequestCancel(s) /\ await' = [await EXCEPT ![c] = {s}]
  /\ Goto(c, IF pc[c] = "kill" THEN "kill wait" ELSE "cancel wait")
  /\ UNCHANGED <<state, runner, cmd, picked, held, itemOf, manual, window, records, left>>

\* The cancel of a session that was never registered may return while its
\* callback runs. A queue session is unregistered only while the runner holds
\* START_GUARD, so this concerns manual ones alone.
Settled(s) ==
  \/ phase[s] = "done"
  \/ phase[s] \in {"finalizing", "calling"} /\ owner[s] = "Manual"

BadCancelWaited(c) ==
  /\ pc[c] \in {"cancel wait", "kill wait"}
  /\ \A s \in await[c] : Settled(s)
  /\ await' = [await EXCEPT ![c] = {}]
  /\ Goto(c, IF pc[c] = "kill wait" THEN "stop wait"
             ELSE IF cmd[c] = "stop" THEN "kill" ELSE "proceed")
  /\ UNCHANGED <<slotVars, state, runner, cmd, picked, held, itemOf, manual, window,
                 records, left>>

\* stop() cancels once more (kill_all_processes) before it drops the guard.
CancelWaited(c) ==
  /\ pc[c] \in {"cancel wait", "kill wait"}
  /\ \A s \in await[c] : Settled(s)
  /\ await' = [await EXCEPT ![c] = {}]
  /\ IF cmd[c] = "stop" /\ pc[c] = "kill wait"
     THEN guard' = NoThread /\ Goto(c, "stop wait")
     ELSE /\ UNCHANGED guard
          /\ Goto(c, IF cmd[c] = "stop" THEN "kill" ELSE "proceed")
  /\ UNCHANGED <<slotVars, state, runner, cmd, picked, startup, itemOf, manual, window,
                 records, left>>

Returns(c) ==
  /\ Goto(c, "idle")
  /\ cmd' = [cmd EXCEPT ![c] = "none"]
  /\ picked' = [picked EXCEPT ![c] = {}]

BadPickPending(c) ==
  /\ pc[c] = "proceed" /\ cmd[c] = "cancel"
  /\ picked' = [picked EXCEPT ![c] = {i \in Items : status[i] \in {"Pending", "Downloading"}}]
  /\ Goto(c, "apply")
  /\ UNCHANGED <<slotVars, state, runner, cmd, await, held, itemOf, manual, window, records,
                 left>>

\* cancel_queue reads the pending items under one lock ...
PickPending(c) ==
  /\ pc[c] = "proceed" /\ cmd[c] = "cancel"
  /\ picked' = [picked EXCEPT ![c] = Pending]
  /\ Goto(c, "apply")
  /\ UNCHANGED <<slotVars, state, runner, cmd, await, held, itemOf, manual, window, records,
                 left>>

\* ... and cancels those still pending under another; all of them are recorded.
ApplyCancelled(c) ==
  /\ pc[c] = "apply"
  /\ status' = [i \in Items |-> IF i \in picked[c] \cap Pending THEN "Cancelled"
                                ELSE status[i]]
  /\ active' = NoItem
  /\ records' = [i \in Items |-> IF i \in picked[c] THEN records[i] + 1 ELSE records[i]]
  /\ guard' = NoThread
  /\ Returns(c)
  /\ UNCHANGED <<slotVars, items, running, cancelling, stopping, runner, await, startup,
                 itemOf, manual, window, left>>

ClearItems(c) ==
  /\ pc[c] = "proceed" /\ cmd[c] = "clear"
  /\ Drop(Items)
  /\ guard' = NoThread
  /\ Returns(c)
  /\ UNCHANGED <<slotVars, running, cancelling, active, stopping, runner, await, startup,
                 itemOf, manual, window, records, left>>

\* Once the runner is gone the interrupted item goes back to pending.
StopReturns(c) ==
  /\ pc[c] = "stop wait"
  /\ rpc = "none"
  /\ NewAttempt({i \in picked[c] : status[i] = "Cancelled"})
  /\ stopping' = FALSE
  /\ Returns(c)
  /\ UNCHANGED <<slotVars, items, running, cancelling, active, runner, await, held, itemOf,
                 manual, window, left>>

\* macOS keeps the app in the dock: the window can be opened again.
WindowOpens ==
  /\ ~window /\ \A c \in Stoppers : pc[c] = "idle"
  /\ window' = TRUE
  /\ UNCHANGED <<slotVars, state, runner, callers, held, itemOf, manual, records, left>>

CallerStep(c) ==
  CancelSession(c) \/ CancelWaited(c) \/ PickPending(c) \/ ApplyCancelled(c)
    \/ ClearItems(c) \/ StopReturns(c)

-----------------------------------------------------------------------------
\* download_video: looks at the slot, then at the queue, then starts

ManualCall ==
  /\ manual = "idle" /\ window /\ Spend
  /\ CanStart("Manual")
  /\ manual' = "admit"
  /\ UNCHANGED <<slotVars, state, runner, callers, held, itemOf, window, records>>

ManualAdmit ==
  /\ manual = "admit"
  /\ manual' = IF running THEN "idle" ELSE "start"
  /\ UNCHANGED <<slotVars, state, runner, callers, held, itemOf, window, records, left>>

\* start_download: refused by a queue session, after a manual one has been
\* cancelled, or at once.
ManualStart ==
  /\ manual = "start" /\ startup = NoThread
  /\ IF Active = {}
     THEN startup' = "manual" /\ manual' = "install" /\ UNCHANGED slotVars
     ELSE \E s \in Active :
            IF owner[s] = "Queue"
            THEN manual' = "idle" /\ UNCHANGED <<slotVars, startup>>
            ELSE startup' = "manual" /\ manual' = "install" /\ RequestCancel(s)
  /\ UNCHANGED <<state, runner, callers, guard, itemOf, window, records, left>>

ManualInstall ==
  /\ manual = "install"
  /\ \E s \in Sessions : NewSession(s) /\ Install(s, "Manual")
  /\ manual' = "setup"
  /\ UNCHANGED <<state, runner, callers, held, itemOf, window, records, left>>

ManualReturns ==
  /\ manual = "setup"
  /\ startup' = NoThread
  /\ manual' = "idle"
  /\ UNCHANGED <<slotVars, state, runner, callers, guard, itemOf, window, records, left>>

ManualStep == ManualAdmit \/ ManualStart \/ ManualInstall \/ ManualReturns

-----------------------------------------------------------------------------
Command(c) ==
  \/ StartQueue(c) \/ ClearFinished(c) \/ CancelQueueCall(c) \/ ClearQueueCall(c)
  \/ \E i \in Items : AddToQueue(c, i)

ItemCommand == Reorder \/ \E i \in Items : RemoveFromQueue(i) \/ RetryItem(i)

SlotStep(s) == SessionCompletes(s) \/ Callback(s) \/ CallbackReturns(s)

Next ==
  \/ ItemCommand \/ RunnerStep \/ ManualCall \/ ManualStep \/ WindowOpens
  \/ \E c \in Commanders : Command(c)
  \/ \E c \in Stoppers : StopCall(c)
  \/ \E c \in Callers : CallerStep(c)
  \/ \E s \in Sessions : SlotStep(s) \/ CancelDownload(s)

\* Threads run on, cancelled sessions complete and completed ones call back
\* (what ImplementsFairSlot says of DownloadSession). Nobody has to issue a command,
\* and a download that nobody cancels may run for ever.
Fairness ==
  /\ WF_vars(RunnerStep) /\ WF_vars(ManualStep)
  /\ \A c \in Callers : WF_vars(CallerStep(c))
  /\ \A s \in Sessions :
       /\ WF_vars(cancelled[s] /\ SessionCompletes(s))
       /\ WF_vars(Callback(s)) /\ WF_vars(CallbackReturns(s))

Spec == Init /\ [][Next]_vars
FairSpec == Spec /\ Fairness

-----------------------------------------------------------------------------
\* The list holds each id at most once, and every id in it has a status.
ListOK ==
  /\ items \in Seq(Items) /\ IsInjective(items)
  /\ \A i \in Items : Contains(items, i) <=> status[i] # "none"

QueueTypes ==
  /\ status \in [Items -> Terminal \cup {"none", "Pending", "Downloading"}]
  /\ running \in BOOLEAN /\ cancelling \in BOOLEAN /\ stopping \in BOOLEAN
  /\ active \in Items \cup {NoItem}
  /\ records \in [Items -> Nat]

RunnerTypes ==
  /\ rpc \in {"none", "claim", "window", "check", "start", "setup", "started", "await",
              "unstarted", "exit"}
  /\ job \in Items \cup {NoItem}
  /\ carrier \in Sessions \cup {0}
  /\ itemOf \in [Sessions -> Items \cup {NoItem}]

CallerTypes ==
  /\ pc \in [Callers -> {"idle", "cancel session", "cancel wait", "kill", "kill wait",
                         "stop wait", "proceed", "apply"}]
  /\ cmd \in [Callers -> {"none", "cancel", "clear", "stop"}]
  /\ await \in [Callers -> SUBSET Sessions]
  /\ picked \in [Callers -> SUBSET Items]
  /\ manual \in {"idle", "admit", "start", "install", "setup"}
  /\ guard \in Callers \cup {"runner", NoThread}
  /\ startup \in {"runner", "manual", NoThread}
  /\ window \in BOOLEAN
  /\ left \in 0 .. MaxCommands

Types == SlotTypeOK /\ QueueTypes /\ RunnerTypes /\ CallerTypes

\* Every variable keeps its type, the list of the queue included.
TypeOK == Types /\ ListOK

\* "so no item is ever recorded twice": every attempt at an item in the list
\* has one activity record once it is over, and none before, whoever finishes
\* it (the completion callback, the runner, cancel_queue).
RecordedOnce ==
  \A i \in Items : status[i] # "none" =>
    records[i] = IF status[i] \in Terminal THEN 1 ELSE 0

\* At most one item is shown as downloading, the one the runner works on; no
\* cancel, stop or restart leaves an item that will never change again. During
\* a run active_item_id names it, so that cancel_queue and stop() know there is
\* something to cancel.
DownloadingIsWorkedOn ==
  \A i \in Items : status[i] = "Downloading" =>
    /\ job = i /\ rpc \in {"window", "check", "start", "setup", "started", "await",
                           "unstarted"}
    /\ running => active = i

\* A run is never left without a runner: such a queue would refuse every start
\* as "already running".
RunHasRunner == running => rpc \notin {"none", "exit"}

\* START_GUARD: "a cancel can never land between the check and start_download".
\* Once cancel_queue, clear_queue or stop() has let go of the guard no download
\* of the queue is left or starts until the next run.
CancelledQueueHoldsNoSession ==
  cancelling /\ guard \notin Callers => \A s \in Active : owner[s] # "Queue"

\* "so a start cannot replace that runner and leave stop() waiting on the new
\* one".
StopWaitsForOldRunner ==
  \A c \in Stoppers : pc[c] = "stop wait" => ~running

\* Nothing waits for what will never come: an item, a run and a stop all have
\* the runner they depend on.
NothingIsStuck == DownloadingIsWorkedOn /\ RunHasRunner /\ StopWaitsForOldRunner

\* The session cancel_queue cancels is the queue's ("its callback records the
\* item's single cancelled outcome"): a manual download goes on. Violated: the
\* runner may still be waiting for a manual session to leave the slot.
QueueCancelSparesManual ==
  [][\A c \in Commanders, s \in Sessions :
       cmd[c] = "cancel" /\ pc[c] = "cancel session" /\ pc'[c] = "cancel wait" /\ s \in await'[c]
         => owner[s] = "Queue"]_vars

\* cancel_queue, clear_queue and stop() return, although they wait for
\* sessions, for locks and for the runner.
CommandsReturn == \A c \in Callers : pc[c] # "idle" ~> pc[c] = "idle"

\* A cancelled run comes to its end: the runner exits, and the queue can be
\* started again.
CancelledRunEnds == cancelling /\ rpc # "none" ~> rpc = "none"
==============================================================================
