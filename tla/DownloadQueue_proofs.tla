------------------------ MODULE DownloadQueue_proofs -------------------------
(***************************************************************************)
(* What DownloadQueue guarantees for any number of items, callers and      *)
(* sessions. The inductive invariant IInv says                             *)
(*   - who holds START_GUARD, and in which command a caller is (Locks);    *)
(*   - what the runner's place says about its item and its session, and    *)
(*     that whoever has cancelled under the guard finds no session of the  *)
(*     queue (Carriers, Jobs, Cancels);                                    *)
(*   - that nobody is about to record an item a second time (Records);     *)
(*   - that the list has no id twice and agrees with the statuses (Listed).*)
(***************************************************************************)
EXTENDS DownloadQueue, TLAPS

\* Where a caller holds START_GUARD, and where the runner does.
Holding == {"cancel session", "cancel wait", "kill", "kill wait", "proceed", "apply"}
Starting == {"start", "setup", "started"}

\* Where the runner has an item, and where it has a session for it.
Working == {"window", "check", "start", "setup", "started", "await", "unstarted"}
Carrying == {"setup", "started", "await"}

Locks ==
  /\ guard = "runner" <=> rpc \in Starting
  /\ \A c \in Callers :
       /\ guard = c <=> pc[c] \in Holding
       /\ cmd[c] = "none" <=> pc[c] = "idle"
       /\ cmd[c] \in {"cancel", "clear"} => c \in Commanders
       /\ cmd[c] = "cancel" => ~running
       /\ pc[c] = "apply" => cmd[c] = "cancel"

\* The session that will finish an item of the queue when it is over.
Carries(s) ==
  /\ phase[s] \in {"active", "finalizing"}
  /\ owner[s] = "Queue" \/ itemOf[s] # NoItem

QueueActive == {s \in Active : owner[s] = "Queue"}

\* One session is in the slot. What a session of the queue carries is the
\* runner's item, and only the callback ends that item.
Carriers ==
  /\ \A r, s \in Active : r = s
  /\ \A s \in Sessions :
       /\ phase[s] = "unused" => itemOf[s] = NoItem
       /\ Carries(s) => s = carrier /\ itemOf[s] = job /\ rpc \in Carrying
  /\ rpc \in Carrying =>
       /\ carrier \in Sessions
       /\ status[job] = "Downloading" => Carries(carrier)

\* The runner's item is downloading or has been cleared, until it is finished.
Jobs ==
  /\ rpc \in Working => job \in Items
  /\ rpc \in {"window", "check", "start", "unstarted"} =>
       status[job] \in {"Downloading", "none"}
  /\ \A s \in Sessions : Carries(s) => status[job] \in {"Downloading", "none"}
  /\ rpc = "start" => running /\ ~cancelling /\ status[job] = "Downloading"
  /\ DownloadingIsWorkedOn
  /\ RunHasRunner

\* Unless somebody is cancelling, the session of the queue belongs to a run;
\* whoever has waited for the cancelled session finds none.
Cancels ==
  /\ guard \notin Callers /\ QueueActive # {} =>
       running /\ ~cancelling /\ active = job /\ status[job] = "Downloading"
  /\ \A c \in Callers :
       /\ pc[c] \in {"kill", "kill wait", "proceed", "apply"} => QueueActive = {}
       /\ pc[c] = "cancel wait" => QueueActive \subseteq await[c]

Records ==
  /\ RecordedOnce
  /\ \A c \in Callers : pc[c] = "apply" =>
       \A i \in picked[c] : status[i] \in {"Pending", "none"}

\* No id is twice in the list; a completed session has an outcome, so that its
\* callback ends the item it carries.
Listed ==
  /\ ListOK
  /\ \A s \in Sessions : phase[s] = "finalizing" => outcome[s] \in Outcomes

IInv == Types /\ Listed /\ Locks /\ Carriers /\ Jobs /\ Cancels /\ Records

\* What stop() may rely on when nobody else stops: no run can begin.
Stops ==
  /\ \A c \in Callers : pc[c] = "stop wait" => cmd[c] = "stop"
  /\ \A c \in Callers : cmd[c] = "stop" => c \in Stoppers /\ stopping /\ ~running

-----------------------------------------------------------------------------
(* Facts about the constants and the operators                             *)

\* The callers, the runner and "nobody" are different holders of a lock.
LEMMA CallerKinds ==
  /\ Commanders \subseteq Callers /\ Stoppers \subseteq Callers
  /\ \A c \in Commanders : c \notin Stoppers
  /\ NoThread \notin Callers /\ "runner" \notin Callers /\ NoThread # "runner"
  /\ NoItem \notin Items
BY QueueAssumption DEF Callers

\* A step that spends one of the bounded commands.
LEMMA SpendTyped ==
  ASSUME CallerTypes, Spend
  PROVE  left' \in 0 .. MaxCommands
<1>1. MaxCommands \in Nat
  BY QueueAssumption
<1>2. left \in 0 .. MaxCommands /\ left > 0 /\ left' = left - 1
  BY DEF CallerTypes, Spend
<1>3. QED
  BY <1>1, <1>2

\* Claim takes a pending item.
LEMMA ClaimEffect ==
  ASSUME Claim
  PROVE  \E i \in Items :
           /\ status[i] = "Pending" /\ status' = [status EXCEPT ![i] = "Downloading"]
           /\ active' = i /\ job' = i
BY DEF Claim, Pending

\* finish_item ends at most this item and the run.
LEMMA FinishEffect ==
  ASSUME QueueTypes, NEW i, NEW oc \in Outcomes \cup {"none"}, FinishItem(i, oc)
  PROVE  /\ QueueTypes'
         /\ \A k \in Items \ {i} : status'[k] = status[k] /\ records'[k] = records[k]
         /\ i \in Items => /\ status'[i] \in Terminal \cup {"none"}
                           /\ status[i] = "none" => status'[i] = "none"
                           /\ records'[i] = records[i] + 1
         /\ running' => running
         /\ UNCHANGED <<items, cancelling, stopping>>
<1> USE DEF FinishItem, EndRunIfDrained, QueueTypes, Terminal, Outcomes
<1>1. status' \in [Items -> Terminal \cup {"none", "Pending", "Downloading"}]
  BY DEF StatusOf
<1>2. active' \in Items \cup {NoItem}
  BY DEF Cleared
<1>3. records' \in [Items -> Nat]
  <2>1. records \in [Items -> Nat] /\ records' = [records EXCEPT ![i] = @ + 1]
    OBVIOUS
  <2>2. i \in Items => records[i] + 1 \in Nat
    BY <2>1
  <2> HIDE DEF FinishItem, QueueTypes
  <2>3. QED
    BY <2>1, <2>2
<1>4. running' \in BOOLEAN /\ (running' => running)
  OBVIOUS
<1>5. \A k \in Items \ {i} : status'[k] = status[k] /\ records'[k] = records[k]
  OBVIOUS
<1>6. ASSUME i \in Items
      PROVE  /\ status'[i] \in Terminal \cup {"none"}
             /\ status[i] = "none" => status'[i] = "none"
             /\ records'[i] = records[i] + 1
  BY <1>6 DEF StatusOf
<1>7. QED
  BY <1>1, <1>2, <1>3, <1>4, <1>5, <1>6

-----------------------------------------------------------------------------
(* Types                                                                   *)

\* The sessions keep their types.
LEMMA SlotTypesStep ==
  ASSUME Types, [Next]_vars
  PROVE  SlotTypeOK'
<1> USE DEF Types, slotVars, state, runner, callers, held, SlotTypeOK, Outcomes, Owners, Phases
<1>1. ASSUME Reorder PROVE SlotTypeOK'
  BY <1>1 DEF Reorder
<1>2. ASSUME NEW i \in Items, RemoveFromQueue(i) PROVE SlotTypeOK'
  BY <1>2 DEF RemoveFromQueue, Drop
<1>3. ASSUME NEW i \in Items, RetryItem(i) PROVE SlotTypeOK'
  BY <1>3 DEF RetryItem, NewAttempt, Spend
<1>4. ASSUME Claim PROVE SlotTypeOK'
  BY <1>4 DEF Claim
<1>5. ASSUME ClaimNothing PROVE SlotTypeOK'
  BY <1>5 DEF ClaimNothing
<1>6. ASSUME RunnerExit PROVE SlotTypeOK'
  BY <1>6 DEF RunnerExit
<1>7. ASSUME WindowCheck PROVE SlotTypeOK'
  BY <1>7 DEF WindowCheck, FinishItem, EndRunIfDrained, StatusOf, Cleared
<1>8. ASSUME CheckWanted PROVE SlotTypeOK'
  BY <1>8 DEF CheckWanted, StillWanted
<1>9. ASSUME CheckUnwanted PROVE SlotTypeOK'
  BY <1>9 DEF CheckUnwanted, StillWanted
<1>10. ASSUME StartSession PROVE SlotTypeOK'
  BY <1>10 DEF StartSession, NewSession, Install
<1>11. ASSUME StartConflict PROVE SlotTypeOK'
  BY <1>11 DEF StartConflict
<1>12. ASSUME SetupEnds PROVE SlotTypeOK'
  BY <1>12 DEF SetupEnds
<1>13. ASSUME StartReturns PROVE SlotTypeOK'
  BY <1>13 DEF StartReturns
<1>14. ASSUME Awaited PROVE SlotTypeOK'
  BY <1>14 DEF Awaited
<1>15. ASSUME FinishUnstarted PROVE SlotTypeOK'
  BY <1>15 DEF FinishUnstarted, FinishItem, EndRunIfDrained, StatusOf, Cleared
<1>16. ASSUME ManualCall PROVE SlotTypeOK'
  BY <1>16 DEF ManualCall, Spend
<1>17. ASSUME ManualAdmit PROVE SlotTypeOK'
  BY <1>17 DEF ManualAdmit
<1>18. ASSUME ManualStart PROVE SlotTypeOK'
  BY <1>18 DEF ManualStart, RequestCancel
<1>19. ASSUME ManualInstall PROVE SlotTypeOK'
  BY <1>19 DEF ManualInstall, NewSession, Install
<1>20. ASSUME ManualReturns PROVE SlotTypeOK'
  BY <1>20 DEF ManualReturns
<1>21. ASSUME WindowOpens PROVE SlotTypeOK'
  BY <1>21 DEF WindowOpens
<1>22. ASSUME NEW c \in Commanders, StartQueue(c) PROVE SlotTypeOK'
  BY <1>22 DEF StartQueue, Ready
<1>23. ASSUME NEW c \in Commanders, ClearFinished(c) PROVE SlotTypeOK'
  BY <1>23 DEF ClearFinished, Drop, Ready
<1>24. ASSUME NEW c \in Commanders, CancelQueueCall(c) PROVE SlotTypeOK'
  BY <1>24 DEF CancelQueueCall, Goto, Ready, Spend
<1>25. ASSUME NEW c \in Commanders, ClearQueueCall(c) PROVE SlotTypeOK'
  BY <1>25 DEF ClearQueueCall, Goto, Ready, Spend
<1>26. ASSUME NEW c \in Commanders, NEW i \in Items, AddToQueue(c, i) PROVE SlotTypeOK'
  BY <1>26 DEF AddToQueue, NewAttempt, Ready, Spend
<1>27. ASSUME NEW c \in Stoppers, StopCall(c) PROVE SlotTypeOK'
  BY <1>27 DEF StopCall, Goto, Spend
<1>28. ASSUME NEW c \in Callers, CancelSession(c) PROVE SlotTypeOK'
  BY <1>28 DEF CancelSession, Goto, RequestCancel
<1>29. ASSUME NEW c \in Callers, CancelWaited(c) PROVE SlotTypeOK'
  BY <1>29 DEF CancelWaited, Goto
<1>30. ASSUME NEW c \in Callers, PickPending(c) PROVE SlotTypeOK'
  BY <1>30 DEF PickPending, Goto
<1>31. ASSUME NEW c \in Callers, ApplyCancelled(c) PROVE SlotTypeOK'
  BY <1>31 DEF ApplyCancelled, Goto, Returns
<1>32. ASSUME NEW c \in Callers, ClearItems(c) PROVE SlotTypeOK'
  BY <1>32 DEF ClearItems, Goto, Returns, Drop
<1>33. ASSUME NEW c \in Callers, StopReturns(c) PROVE SlotTypeOK'
  BY <1>33 DEF StopReturns, Goto, Returns, NewAttempt
<1>34. ASSUME NEW s \in Sessions, SessionCompletes(s) PROVE SlotTypeOK'
  BY <1>34 DEF SessionCompletes, Complete
<1>35. ASSUME NEW s \in Sessions, Callback(s) PROVE SlotTypeOK'
  BY <1>35 DEF Callback, Deliver, FinishItem, EndRunIfDrained, StatusOf, Cleared
<1>36. ASSUME NEW s \in Sessions, CallbackReturns(s) PROVE SlotTypeOK'
  BY <1>36 DEF CallbackReturns, Finish
<1>37. ASSUME NEW s \in Sessions, CancelDownload(s) PROVE SlotTypeOK'
  BY <1>37 DEF CancelDownload, RequestCancel
<1>38. CASE UNCHANGED vars
  BY <1>38 DEF vars, slotVars, state, runner, callers, held
<1>39. QED
  BY <1>1, <1>2, <1>3, <1>4, <1>5, <1>6, <1>7, <1>8, <1>9, <1>10, <1>11, <1>12, <1>13,
     <1>14, <1>15, <1>16, <1>17, <1>18, <1>19, <1>20, <1>21, <1>22, <1>23, <1>24, <1>25,
     <1>26, <1>27, <1>28, <1>29, <1>30, <1>31, <1>32, <1>33, <1>34, <1>35, <1>36, <1>37,
     <1>38
  DEF Next, ItemCommand, RunnerStep, ManualStep, Command, CallerStep, SlotStep

\* So do the state of the queue and the activity records,
LEMMA QueueTypesStep ==
  ASSUME Types, [Next]_vars
  PROVE  QueueTypes'
<1> USE DEF Types, slotVars, state, runner, callers, held, QueueTypes, Terminal
<1>1. ASSUME Reorder PROVE QueueTypes'
  BY <1>1 DEF Reorder
<1>2. ASSUME NEW i \in Items, RemoveFromQueue(i) PROVE QueueTypes'
  BY <1>2 DEF RemoveFromQueue, Drop
<1>3. ASSUME NEW i \in Items, RetryItem(i) PROVE QueueTypes'
  BY <1>3 DEF RetryItem, NewAttempt, Spend
<1>4. ASSUME Claim PROVE QueueTypes'
  BY <1>4, ClaimEffect DEF Claim
<1>5. ASSUME ClaimNothing PROVE QueueTypes'
  BY <1>5 DEF ClaimNothing
<1>6. ASSUME RunnerExit PROVE QueueTypes'
  BY <1>6 DEF RunnerExit
<1>7. ASSUME WindowCheck PROVE QueueTypes'
  BY <1>7, FinishEffect DEF WindowCheck, Outcomes
<1>8. ASSUME CheckWanted PROVE QueueTypes'
  BY <1>8 DEF CheckWanted, StillWanted
<1>9. ASSUME CheckUnwanted PROVE QueueTypes'
  BY <1>9 DEF CheckUnwanted, StillWanted
<1>10. ASSUME StartSession PROVE QueueTypes'
  BY <1>10 DEF StartSession, NewSession, Install
<1>11. ASSUME StartConflict PROVE QueueTypes'
  BY <1>11 DEF StartConflict
<1>12. ASSUME SetupEnds PROVE QueueTypes'
  BY <1>12 DEF SetupEnds
<1>13. ASSUME StartReturns PROVE QueueTypes'
  BY <1>13 DEF StartReturns
<1>14. ASSUME Awaited PROVE QueueTypes'
  BY <1>14 DEF Awaited
<1>15. ASSUME FinishUnstarted PROVE QueueTypes'
  <2>1. CASE status[job] = "Downloading"
    BY <1>15, <2>1, FinishEffect DEF FinishUnstarted, Outcomes
  <2>2. CASE status[job] # "Downloading"
    BY <1>15, <2>2 DEF FinishUnstarted, Cleared
  <2>3. QED
    BY <2>1, <2>2
<1>16. ASSUME ManualCall PROVE QueueTypes'
  BY <1>16 DEF ManualCall, Spend
<1>17. ASSUME ManualAdmit PROVE QueueTypes'
  BY <1>17 DEF ManualAdmit
<1>18. ASSUME ManualStart PROVE QueueTypes'
  BY <1>18 DEF ManualStart, RequestCancel
<1>19. ASSUME ManualInstall PROVE QueueTypes'
  BY <1>19 DEF ManualInstall, NewSession, Install
<1>20. ASSUME ManualReturns PROVE QueueTypes'
  BY <1>20 DEF ManualReturns
<1>21. ASSUME WindowOpens PROVE QueueTypes'
  BY <1>21 DEF WindowOpens
<1>22. ASSUME NEW c \in Commanders, StartQueue(c) PROVE QueueTypes'
  BY <1>22 DEF StartQueue, Ready
<1>23. ASSUME NEW c \in Commanders, ClearFinished(c) PROVE QueueTypes'
  BY <1>23 DEF ClearFinished, Drop, Ready
<1>24. ASSUME NEW c \in Commanders, CancelQueueCall(c) PROVE QueueTypes'
  BY <1>24 DEF CancelQueueCall, Goto, Ready, Spend
<1>25. ASSUME NEW c \in Commanders, ClearQueueCall(c) PROVE QueueTypes'
  BY <1>25 DEF ClearQueueCall, Goto, Ready, Spend
<1>26. ASSUME NEW c \in Commanders, NEW i \in Items, AddToQueue(c, i) PROVE QueueTypes'
  BY <1>26 DEF AddToQueue, NewAttempt, Ready, Spend
<1>27. ASSUME NEW c \in Stoppers, StopCall(c) PROVE QueueTypes'
  BY <1>27 DEF StopCall, Goto, Spend
<1>28. ASSUME NEW c \in Callers, CancelSession(c) PROVE QueueTypes'
  BY <1>28 DEF CancelSession, Goto, RequestCancel
<1>29. ASSUME NEW c \in Callers, CancelWaited(c) PROVE QueueTypes'
  BY <1>29 DEF CancelWaited, Goto
<1>30. ASSUME NEW c \in Callers, PickPending(c) PROVE QueueTypes'
  BY <1>30 DEF PickPending, Goto
<1>31. ASSUME NEW c \in Callers, ApplyCancelled(c) PROVE QueueTypes'
  BY <1>31 DEF ApplyCancelled, Goto, Returns
<1>32. ASSUME NEW c \in Callers, ClearItems(c) PROVE QueueTypes'
  BY <1>32 DEF ClearItems, Goto, Returns, Drop
<1>33. ASSUME NEW c \in Callers, StopReturns(c) PROVE QueueTypes'
  BY <1>33 DEF StopReturns, Goto, Returns, NewAttempt
<1>34. ASSUME NEW s \in Sessions, SessionCompletes(s) PROVE QueueTypes'
  BY <1>34 DEF SessionCompletes, Complete
<1>35. ASSUME NEW s \in Sessions, Callback(s) PROVE QueueTypes'
  <2>1. outcome[s] \in Outcomes \cup {"none"}
    BY DEF SlotTypeOK
  <2>2. QED
    BY <1>35, <2>1, FinishEffect DEF Callback
<1>36. ASSUME NEW s \in Sessions, CallbackReturns(s) PROVE QueueTypes'
  BY <1>36 DEF CallbackReturns, Finish
<1>37. ASSUME NEW s \in Sessions, CancelDownload(s) PROVE QueueTypes'
  BY <1>37 DEF CancelDownload, RequestCancel
<1>38. CASE UNCHANGED vars
  BY <1>38 DEF vars, slotVars, state, runner, callers, held
<1>39. QED
  BY <1>1, <1>2, <1>3, <1>4, <1>5, <1>6, <1>7, <1>8, <1>9, <1>10, <1>11, <1>12, <1>13,
     <1>14, <1>15, <1>16, <1>17, <1>18, <1>19, <1>20, <1>21, <1>22, <1>23, <1>24, <1>25,
     <1>26, <1>27, <1>28, <1>29, <1>30, <1>31, <1>32, <1>33, <1>34, <1>35, <1>36, <1>37,
     <1>38
  DEF Next, ItemCommand, RunnerStep, ManualStep, Command, CallerStep, SlotStep

\* the runner,
LEMMA RunnerTypesStep ==
  ASSUME Types, [Next]_vars
  PROVE  RunnerTypes'
<1> USE DEF Types, slotVars, state, runner, callers, held, RunnerTypes
<1>1. ASSUME Reorder PROVE RunnerTypes'
  BY <1>1 DEF Reorder
<1>2. ASSUME NEW i \in Items, RemoveFromQueue(i) PROVE RunnerTypes'
  BY <1>2 DEF RemoveFromQueue, Drop
<1>3. ASSUME NEW i \in Items, RetryItem(i) PROVE RunnerTypes'
  BY <1>3 DEF RetryItem, NewAttempt, Spend
<1>4. ASSUME Claim PROVE RunnerTypes'
  BY <1>4, ClaimEffect DEF Claim
<1>5. ASSUME ClaimNothing PROVE RunnerTypes'
  BY <1>5 DEF ClaimNothing
<1>6. ASSUME RunnerExit PROVE RunnerTypes'
  BY <1>6 DEF RunnerExit
<1>7. ASSUME WindowCheck PROVE RunnerTypes'
  BY <1>7 DEF WindowCheck, FinishItem, EndRunIfDrained, StatusOf, Cleared
<1>8. ASSUME CheckWanted PROVE RunnerTypes'
  BY <1>8 DEF CheckWanted, StillWanted
<1>9. ASSUME CheckUnwanted PROVE RunnerTypes'
  BY <1>9 DEF CheckUnwanted, StillWanted
<1>10. ASSUME StartSession PROVE RunnerTypes'
  BY <1>10 DEF StartSession, NewSession, Install
<1>11. ASSUME StartConflict PROVE RunnerTypes'
  BY <1>11 DEF StartConflict
<1>12. ASSUME SetupEnds PROVE RunnerTypes'
  BY <1>12 DEF SetupEnds
<1>13. ASSUME StartReturns PROVE RunnerTypes'
  BY <1>13 DEF StartReturns
<1>14. ASSUME Awaited PROVE RunnerTypes'
  BY <1>14 DEF Awaited
<1>15. ASSUME FinishUnstarted PROVE RunnerTypes'
  BY <1>15 DEF FinishUnstarted, FinishItem, EndRunIfDrained, StatusOf, Cleared
<1>16. ASSUME ManualCall PROVE RunnerTypes'
  BY <1>16 DEF ManualCall, Spend
<1>17. ASSUME ManualAdmit PROVE RunnerTypes'
  BY <1>17 DEF ManualAdmit
<1>18. ASSUME ManualStart PROVE RunnerTypes'
  BY <1>18 DEF ManualStart, RequestCancel
<1>19. ASSUME ManualInstall PROVE RunnerTypes'
  BY <1>19 DEF ManualInstall, NewSession, Install
<1>20. ASSUME ManualReturns PROVE RunnerTypes'
  BY <1>20 DEF ManualReturns
<1>21. ASSUME WindowOpens PROVE RunnerTypes'
  BY <1>21 DEF WindowOpens
<1>22. ASSUME NEW c \in Commanders, StartQueue(c) PROVE RunnerTypes'
  BY <1>22 DEF StartQueue, Ready
<1>23. ASSUME NEW c \in Commanders, ClearFinished(c) PROVE RunnerTypes'
  BY <1>23 DEF ClearFinished, Drop, Ready
<1>24. ASSUME NEW c \in Commanders, CancelQueueCall(c) PROVE RunnerTypes'
  BY <1>24 DEF CancelQueueCall, Goto, Ready, Spend
<1>25. ASSUME NEW c \in Commanders, ClearQueueCall(c) PROVE RunnerTypes'
  BY <1>25 DEF ClearQueueCall, Goto, Ready, Spend
<1>26. ASSUME NEW c \in Commanders, NEW i \in Items, AddToQueue(c, i) PROVE RunnerTypes'
  BY <1>26 DEF AddToQueue, NewAttempt, Ready, Spend
<1>27. ASSUME NEW c \in Stoppers, StopCall(c) PROVE RunnerTypes'
  BY <1>27 DEF StopCall, Goto, Spend
<1>28. ASSUME NEW c \in Callers, CancelSession(c) PROVE RunnerTypes'
  BY <1>28 DEF CancelSession, Goto, RequestCancel
<1>29. ASSUME NEW c \in Callers, CancelWaited(c) PROVE RunnerTypes'
  BY <1>29 DEF CancelWaited, Goto
<1>30. ASSUME NEW c \in Callers, PickPending(c) PROVE RunnerTypes'
  BY <1>30 DEF PickPending, Goto
<1>31. ASSUME NEW c \in Callers, ApplyCancelled(c) PROVE RunnerTypes'
  BY <1>31 DEF ApplyCancelled, Goto, Returns
<1>32. ASSUME NEW c \in Callers, ClearItems(c) PROVE RunnerTypes'
  BY <1>32 DEF ClearItems, Goto, Returns, Drop
<1>33. ASSUME NEW c \in Callers, StopReturns(c) PROVE RunnerTypes'
  BY <1>33 DEF StopReturns, Goto, Returns, NewAttempt
<1>34. ASSUME NEW s \in Sessions, SessionCompletes(s) PROVE RunnerTypes'
  BY <1>34 DEF SessionCompletes, Complete
<1>35. ASSUME NEW s \in Sessions, Callback(s) PROVE RunnerTypes'
  BY <1>35 DEF Callback, Deliver, FinishItem, EndRunIfDrained, StatusOf, Cleared
<1>36. ASSUME NEW s \in Sessions, CallbackReturns(s) PROVE RunnerTypes'
  BY <1>36 DEF CallbackReturns, Finish
<1>37. ASSUME NEW s \in Sessions, CancelDownload(s) PROVE RunnerTypes'
  BY <1>37 DEF CancelDownload, RequestCancel
<1>38. CASE UNCHANGED vars
  BY <1>38 DEF vars, slotVars, state, runner, callers, held
<1>39. QED
  BY <1>1, <1>2, <1>3, <1>4, <1>5, <1>6, <1>7, <1>8, <1>9, <1>10, <1>11, <1>12, <1>13,
     <1>14, <1>15, <1>16, <1>17, <1>18, <1>19, <1>20, <1>21, <1>22, <1>23, <1>24, <1>25,
     <1>26, <1>27, <1>28, <1>29, <1>30, <1>31, <1>32, <1>33, <1>34, <1>35, <1>36, <1>37,
     <1>38
  DEF Next, ItemCommand, RunnerStep, ManualStep, Command, CallerStep, SlotStep

\* and the callers.
LEMMA CallerTypesStep ==
  ASSUME Types, [Next]_vars
  PROVE  CallerTypes'
<1> USE DEF Types, slotVars, state, runner, callers, held, CallerTypes
<1>1. ASSUME Reorder PROVE CallerTypes'
  BY <1>1, CallerKinds DEF Reorder
<1>2. ASSUME NEW i \in Items, RemoveFromQueue(i) PROVE CallerTypes'
  BY <1>2, CallerKinds DEF RemoveFromQueue, Drop
<1>3. ASSUME NEW i \in Items, RetryItem(i) PROVE CallerTypes'
  <2>1. left' \in 0 .. MaxCommands
    BY <1>3, SpendTyped DEF RetryItem
  <2>2. QED
    BY <1>3, <2>1 DEF RetryItem
<1>4. ASSUME Claim PROVE CallerTypes'
  BY <1>4, CallerKinds DEF Claim
<1>5. ASSUME ClaimNothing PROVE CallerTypes'
  BY <1>5, CallerKinds DEF ClaimNothing
<1>6. ASSUME RunnerExit PROVE CallerTypes'
  BY <1>6, CallerKinds DEF RunnerExit
<1>7. ASSUME WindowCheck PROVE CallerTypes'
  BY <1>7, CallerKinds DEF WindowCheck, FinishItem, EndRunIfDrained, StatusOf, Cleared
<1>8. ASSUME CheckWanted PROVE CallerTypes'
  BY <1>8, CallerKinds DEF CheckWanted, StillWanted
<1>9. ASSUME CheckUnwanted PROVE CallerTypes'
  BY <1>9, CallerKinds DEF CheckUnwanted, StillWanted
<1>10. ASSUME StartSession PROVE CallerTypes'
  BY <1>10, CallerKinds DEF StartSession, NewSession, Install
<1>11. ASSUME StartConflict PROVE CallerTypes'
  BY <1>11, CallerKinds DEF StartConflict
<1>12. ASSUME SetupEnds PROVE CallerTypes'
  BY <1>12, CallerKinds DEF SetupEnds
<1>13. ASSUME StartReturns PROVE CallerTypes'
  BY <1>13, CallerKinds DEF StartReturns
<1>14. ASSUME Awaited PROVE CallerTypes'
  BY <1>14, CallerKinds DEF Awaited
<1>15. ASSUME FinishUnstarted PROVE CallerTypes'
  BY <1>15, CallerKinds DEF FinishUnstarted, FinishItem, EndRunIfDrained, StatusOf,
     Cleared
<1>16. ASSUME ManualCall PROVE CallerTypes'
  <2>1. left' \in 0 .. MaxCommands
    BY <1>16, SpendTyped DEF ManualCall
  <2>2. QED
    BY <1>16, <2>1 DEF ManualCall
<1>17. ASSUME ManualAdmit PROVE CallerTypes'
  BY <1>17, CallerKinds DEF ManualAdmit
<1>18. ASSUME ManualStart PROVE CallerTypes'
  BY <1>18, CallerKinds DEF ManualStart, RequestCancel
<1>19. ASSUME ManualInstall PROVE CallerTypes'
  BY <1>19, CallerKinds DEF ManualInstall, NewSession, Install
<1>20. ASSUME ManualReturns PROVE CallerTypes'
  BY <1>20, CallerKinds DEF ManualReturns
<1>21. ASSUME WindowOpens PROVE CallerTypes'
  BY <1>21, CallerKinds DEF WindowOpens
<1>22. ASSUME NEW c \in Commanders, StartQueue(c) PROVE CallerTypes'
  BY <1>22, CallerKinds DEF StartQueue, Ready
<1>23. ASSUME NEW c \in Commanders, ClearFinished(c) PROVE CallerTypes'
  BY <1>23, CallerKinds DEF ClearFinished, Drop, Ready
<1>24. ASSUME NEW c \in Commanders, CancelQueueCall(c) PROVE CallerTypes'
  <2>1. c \in Callers /\ left' \in 0 .. MaxCommands
    BY <1>24, CallerKinds, SpendTyped DEF CancelQueueCall
  <2>2. pc' \in [Callers -> {"idle", "cancel session", "cancel wait", "kill", "kill wait",
                            "stop wait", "proceed", "apply"}]
    BY <1>24, <2>1 DEF CancelQueueCall, Goto
  <2>3. cmd' \in [Callers -> {"none", "cancel", "clear", "stop"}]
    BY <1>24, <2>1 DEF CancelQueueCall
  <2>4. QED
    BY <1>24, <2>1, <2>2, <2>3 DEF CancelQueueCall
<1>25. ASSUME NEW c \in Commanders, ClearQueueCall(c) PROVE CallerTypes'
  <2>1. c \in Callers /\ left' \in 0 .. MaxCommands
    BY <1>25, CallerKinds, SpendTyped DEF ClearQueueCall
  <2>2. pc' \in [Callers -> {"idle", "cancel session", "cancel wait", "kill", "kill wait",
                            "stop wait", "proceed", "apply"}]
    BY <1>25, <2>1 DEF ClearQueueCall, Goto
  <2>3. cmd' \in [Callers -> {"none", "cancel", "clear", "stop"}]
    BY <1>25, <2>1 DEF ClearQueueCall
  <2>4. QED
    BY <1>25, <2>1, <2>2, <2>3 DEF ClearQueueCall
<1>26. ASSUME NEW c \in Commanders, NEW i \in Items, AddToQueue(c, i) PROVE CallerTypes'
  <2>1. left' \in 0 .. MaxCommands
    BY <1>26, SpendTyped DEF AddToQueue
  <2>2. QED
    BY <1>26, <2>1 DEF AddToQueue
<1>27. ASSUME NEW c \in Stoppers, StopCall(c) PROVE CallerTypes'
  <2>1. c \in Callers /\ left' \in 0 .. MaxCommands
    BY <1>27, CallerKinds, SpendTyped DEF StopCall
  <2>2. pc' \in [Callers -> {"idle", "cancel session", "cancel wait", "kill", "kill wait",
                            "stop wait", "proceed", "apply"}]
    BY <1>27, <2>1 DEF StopCall, Goto
  <2>3. cmd' \in [Callers -> {"none", "cancel", "clear", "stop"}]
    BY <1>27, <2>1 DEF StopCall
  <2>4. picked' \in [Callers -> SUBSET Items]
    BY <1>27 DEF StopCall, QueueTypes
  <2>5. QED
    BY <1>27, <2>1, <2>2, <2>3, <2>4 DEF StopCall
<1>28. ASSUME NEW c \in Callers, CancelSession(c) PROVE CallerTypes'
  <2>1. await' \in [Callers -> SUBSET Sessions]
    <3>1. await \in [Callers -> SUBSET Sessions]
      OBVIOUS
    <3>2. \E x \in SUBSET Sessions : await' = [await EXCEPT ![c] = x]
      BY <1>28 DEF CancelSession, Active, Finalizing
    <3>3. QED
      BY <3>1, <3>2
  <2>2. pc' \in [Callers -> {"idle", "cancel session", "cancel wait", "kill", "kill wait",
                            "stop wait", "proceed", "apply"}]
    BY <1>28 DEF CancelSession, Goto
  <2>3. QED
    BY <1>28, <2>1, <2>2 DEF CancelSession
<1>29. ASSUME NEW c \in Callers, CancelWaited(c) PROVE CallerTypes'
  BY <1>29, CallerKinds DEF CancelWaited, Goto
<1>30. ASSUME NEW c \in Callers, PickPending(c) PROVE CallerTypes'
  <2>1. picked' \in [Callers -> SUBSET Items]
    BY <1>30 DEF PickPending, Pending
  <2>2. QED
    BY <1>30, <2>1 DEF PickPending, Goto
<1>31. ASSUME NEW c \in Callers, ApplyCancelled(c) PROVE CallerTypes'
  BY <1>31, CallerKinds DEF ApplyCancelled, Goto, Returns
<1>32. ASSUME NEW c \in Callers, ClearItems(c) PROVE CallerTypes'
  BY <1>32, CallerKinds DEF ClearItems, Goto, Returns, Drop
<1>33. ASSUME NEW c \in Callers, StopReturns(c) PROVE CallerTypes'
  BY <1>33, CallerKinds DEF StopReturns, Goto, Returns, NewAttempt
<1>34. ASSUME NEW s \in Sessions, SessionCompletes(s) PROVE CallerTypes'
  BY <1>34, CallerKinds DEF SessionCompletes, Complete
<1>35. ASSUME NEW s \in Sessions, Callback(s) PROVE CallerTypes'
  BY <1>35, CallerKinds DEF Callback, Deliver, FinishItem, EndRunIfDrained, StatusOf,
     Cleared
<1>36. ASSUME NEW s \in Sessions, CallbackReturns(s) PROVE CallerTypes'
  BY <1>36, CallerKinds DEF CallbackReturns, Finish
<1>37. ASSUME NEW s \in Sessions, CancelDownload(s) PROVE CallerTypes'
  BY <1>37, CallerKinds DEF CancelDownload, RequestCancel
<1>38. CASE UNCHANGED vars
  BY <1>38 DEF vars, slotVars, state, runner, callers, held
<1>39. QED
  BY <1>1, <1>2, <1>3, <1>4, <1>5, <1>6, <1>7, <1>8, <1>9, <1>10, <1>11, <1>12, <1>13,
     <1>14, <1>15, <1>16, <1>17, <1>18, <1>19, <1>20, <1>21, <1>22, <1>23, <1>24, <1>25,
     <1>26, <1>27, <1>28, <1>29, <1>30, <1>31, <1>32, <1>33, <1>34, <1>35, <1>36, <1>37,
     <1>38
  DEF Next, ItemCommand, RunnerStep, ManualStep, Command, CallerStep, SlotStep

-----------------------------------------------------------------------------
(* Locks                                                                   *)

\* START_GUARD is held where the code says so.
LEMMA LocksStep ==
  ASSUME Types, Locks, [Next]_vars
  PROVE  Locks'
<1>0. CallerTypes
  BY DEF Types
<1> USE <1>0 DEF Locks, CallerTypes, Holding, Starting, slotVars, state, runner, callers, held
<1>1. ASSUME Reorder PROVE Locks'
  BY <1>1, CallerKinds DEF Reorder
<1>2. ASSUME NEW i \in Items, RemoveFromQueue(i) PROVE Locks'
  BY <1>2, CallerKinds DEF RemoveFromQueue, Drop
<1>3. ASSUME NEW i \in Items, RetryItem(i) PROVE Locks'
  BY <1>3, CallerKinds DEF RetryItem, NewAttempt, Spend
<1>4. ASSUME Claim PROVE Locks'
  BY <1>4, CallerKinds DEF Claim
<1>5. ASSUME ClaimNothing PROVE Locks'
  BY <1>5, CallerKinds DEF ClaimNothing
<1>6. ASSUME RunnerExit PROVE Locks'
  BY <1>6, CallerKinds DEF RunnerExit
<1>7. ASSUME WindowCheck PROVE Locks'
  <2>1. running' => running
    BY <1>7, FinishEffect DEF WindowCheck, Outcomes, Types
  <2>2. QED
    BY <1>7, <2>1 DEF WindowCheck
<1>8. ASSUME CheckWanted PROVE Locks'
  BY <1>8, CallerKinds DEF CheckWanted, StillWanted
<1>9. ASSUME CheckUnwanted PROVE Locks'
  BY <1>9, CallerKinds DEF CheckUnwanted, StillWanted
<1>10. ASSUME StartSession PROVE Locks'
  BY <1>10, CallerKinds DEF StartSession, NewSession, Install
<1>11. ASSUME StartConflict PROVE Locks'
  <2>1. /\ guard = "runner" /\ guard' = NoThread /\ rpc' = "check"
        /\ UNCHANGED <<pc, cmd, running>>
    BY <1>11 DEF StartConflict
  <2>2. \A c \in Callers : c # NoThread /\ c # "runner"
    BY CallerKinds
  <2>3. QED
    BY <2>1, <2>2, CallerKinds
<1>12. ASSUME SetupEnds PROVE Locks'
  BY <1>12, CallerKinds DEF SetupEnds
<1>13. ASSUME StartReturns PROVE Locks'
  <2>1. /\ guard = "runner" /\ guard' = NoThread /\ rpc' = "await"
        /\ UNCHANGED <<pc, cmd, running>>
    BY <1>13 DEF StartReturns
  <2>2. \A c \in Callers : c # NoThread /\ c # "runner"
    BY CallerKinds
  <2>3. QED
    BY <2>1, <2>2, CallerKinds
<1>14. ASSUME Awaited PROVE Locks'
  BY <1>14, CallerKinds DEF Awaited
<1>15. ASSUME FinishUnstarted PROVE Locks'
  <2>1. running' => running
    BY <1>15, FinishEffect DEF FinishUnstarted, Outcomes, Types
  <2>2. QED
    BY <1>15, <2>1 DEF FinishUnstarted
<1>16. ASSUME ManualCall PROVE Locks'
  BY <1>16, CallerKinds DEF ManualCall, Spend
<1>17. ASSUME ManualAdmit PROVE Locks'
  BY <1>17, CallerKinds DEF ManualAdmit
<1>18. ASSUME ManualStart PROVE Locks'
  BY <1>18, CallerKinds DEF ManualStart, RequestCancel
<1>19. ASSUME ManualInstall PROVE Locks'
  BY <1>19, CallerKinds DEF ManualInstall, NewSession, Install
<1>20. ASSUME ManualReturns PROVE Locks'
  BY <1>20, CallerKinds DEF ManualReturns
<1>21. ASSUME WindowOpens PROVE Locks'
  BY <1>21, CallerKinds DEF WindowOpens
<1>22. ASSUME NEW c \in Commanders, StartQueue(c) PROVE Locks'
  BY <1>22, CallerKinds DEF StartQueue, Ready
<1>23. ASSUME NEW c \in Commanders, ClearFinished(c) PROVE Locks'
  BY <1>23, CallerKinds DEF ClearFinished, Drop, Ready
<1>24. ASSUME NEW c \in Commanders, CancelQueueCall(c) PROVE Locks'
  BY <1>24, CallerKinds DEF CancelQueueCall, Goto, Ready, Spend
<1>25. ASSUME NEW c \in Commanders, ClearQueueCall(c) PROVE Locks'
  <2>1. /\ c \in Callers /\ guard = NoThread /\ guard' = c /\ rpc' = rpc
        /\ running' => running
        /\ cmd' = [cmd EXCEPT ![c] = "clear"]
        /\ \E l \in {"cancel session", "proceed"} : pc' = [pc EXCEPT ![c] = l]
    BY <1>25, CallerKinds DEF ClearQueueCall, Goto
  <2>2. c # "runner" /\ c # NoThread /\ NoThread # "runner"
    BY <2>1, CallerKinds
  <2>3. pc'[c] \in Holding /\ cmd'[c] = "clear" /\ pc'[c] # "apply"
    BY <2>1
  <2>4. \A d \in Callers \ {c} : pc'[d] = pc[d] /\ cmd'[d] = cmd[d] /\ pc[d] \notin Holding
    BY <2>1, CallerKinds
  <2>5. QED
    BY <1>25, <2>1, <2>2, <2>3, <2>4
<1>26. ASSUME NEW c \in Commanders, NEW i \in Items, AddToQueue(c, i) PROVE Locks'
  BY <1>26, CallerKinds DEF AddToQueue, NewAttempt, Ready, Spend
<1>27. ASSUME NEW c \in Stoppers, StopCall(c) PROVE Locks'
  BY <1>27, CallerKinds DEF StopCall, Goto, Spend
<1>28. ASSUME NEW c \in Callers, CancelSession(c) PROVE Locks'
  BY <1>28, CallerKinds DEF CancelSession, Goto, RequestCancel
<1>29. ASSUME NEW c \in Callers, CancelWaited(c) PROVE Locks'
  <2>1. guard = c /\ UNCHANGED <<rpc, cmd, running>>
        /\ \A d \in Callers \ {c} : pc'[d] = pc[d]
    BY <1>29 DEF CancelWaited, Goto
  <2>2. CASE guard' = NoThread /\ pc'[c] = "stop wait" /\ cmd[c] = "stop"
    BY <2>1, <2>2, CallerKinds
  <2>3. CASE guard' = guard /\ pc'[c] \in {"kill", "proceed"}
    <3>1. pc[c] # "idle"
      BY <2>1
    <3>2. QED
      BY <2>1, <2>3, <3>1, CallerKinds
  <2>4. CASE cmd[c] = "stop" /\ pc[c] = "kill wait"
    BY <1>29, <2>2, <2>4 DEF CancelWaited, Goto
  <2>5. CASE ~(cmd[c] = "stop" /\ pc[c] = "kill wait")
    <3>1. guard' = guard /\ pc'[c] \in {"kill", "proceed"}
      BY <1>29, <2>5 DEF CancelWaited, Goto
    <3>2. QED
      BY <2>3, <3>1
  <2>6. QED
    BY <2>4, <2>5
<1>30. ASSUME NEW c \in Callers, PickPending(c) PROVE Locks'
  BY <1>30, CallerKinds DEF PickPending, Goto
<1>31. ASSUME NEW c \in Callers, ApplyCancelled(c) PROVE Locks'
  BY <1>31, CallerKinds DEF ApplyCancelled, Goto, Returns
<1>32. ASSUME NEW c \in Callers, ClearItems(c) PROVE Locks'
  BY <1>32, CallerKinds DEF ClearItems, Goto, Returns, Drop
<1>33. ASSUME NEW c \in Callers, StopReturns(c) PROVE Locks'
  BY <1>33, CallerKinds DEF StopReturns, Goto, Returns, NewAttempt
<1>34. ASSUME NEW s \in Sessions, SessionCompletes(s) PROVE Locks'
  BY <1>34, CallerKinds DEF SessionCompletes, Complete
<1>35. ASSUME NEW s \in Sessions, Callback(s) PROVE Locks'
  <2>1. running' => running
    BY <1>35, FinishEffect DEF Callback, Types, SlotTypeOK
  <2>2. QED
    BY <1>35, <2>1 DEF Callback
<1>36. ASSUME NEW s \in Sessions, CallbackReturns(s) PROVE Locks'
  BY <1>36, CallerKinds DEF CallbackReturns, Finish
<1>37. ASSUME NEW s \in Sessions, CancelDownload(s) PROVE Locks'
  BY <1>37, CallerKinds DEF CancelDownload, RequestCancel
<1>38. CASE UNCHANGED vars
  BY <1>38 DEF vars, slotVars, state, runner, callers, held
<1>39. QED
  BY <1>1, <1>2, <1>3, <1>4, <1>5, <1>6, <1>7, <1>8, <1>9, <1>10, <1>11, <1>12, <1>13,
     <1>14, <1>15, <1>16, <1>17, <1>18, <1>19, <1>20, <1>21, <1>22, <1>23, <1>24, <1>25,
     <1>26, <1>27, <1>28, <1>29, <1>30, <1>31, <1>32, <1>33, <1>34, <1>35, <1>36, <1>37,
     <1>38
  DEF Next, ItemCommand, RunnerStep, ManualStep, Command, CallerStep, SlotStep

-----------------------------------------------------------------------------
(* The runner's session                                                    *)

\* Most steps leave the sessions alone and start no item.
LEMMA CarriersKept ==
  ASSUME Carriers, UNCHANGED <<slotVars, itemOf, carrier, job, rpc>>,
         rpc \in Carrying /\ status'[job] = "Downloading" => status[job] = "Downloading"
  PROVE  Carriers'
BY DEF Carriers, Carries, Active, slotVars

\* A session of the queue carries the runner's item.
LEMMA CarriersStep ==
  ASSUME Types, Locks, Carriers, Jobs, [Next]_vars
  PROVE  Carriers'
<1>0. SlotTypeOK /\ QueueTypes /\ RunnerTypes
  BY DEF Types
<1> USE <1>0 DEF Carriers, Carries, Active, Carrying, slotVars, state, runner, callers, held
<1>j. rpc \in Carrying => job \in Items
  BY DEF Jobs, Working, Carrying
<1> USE <1>j
<1>1. ASSUME Reorder PROVE Carriers'
  BY <1>1, CallerKinds DEF Reorder
<1>2. ASSUME NEW i \in Items, RemoveFromQueue(i) PROVE Carriers'
  <2>1. \A k \in Items : status'[k] = "Downloading" => status[k] = "Downloading"
    BY <1>2 DEF RemoveFromQueue, Drop, QueueTypes
  <2>2. QED
    BY <1>2, <2>1, CarriersKept DEF RemoveFromQueue
<1>3. ASSUME NEW i \in Items, RetryItem(i) PROVE Carriers'
  <2>1. \A k \in Items : status'[k] = "Downloading" => status[k] = "Downloading"
    BY <1>3 DEF RetryItem, NewAttempt, QueueTypes
  <2>2. QED
    BY <1>3, <2>1, CarriersKept DEF RetryItem
<1>4. ASSUME Claim PROVE Carriers'
  BY <1>4, CallerKinds DEF Claim
<1>5. ASSUME ClaimNothing PROVE Carriers'
  BY <1>5, CallerKinds DEF ClaimNothing
<1>6. ASSUME RunnerExit PROVE Carriers'
  BY <1>6, CallerKinds DEF RunnerExit
<1>7. ASSUME WindowCheck PROVE Carriers'
  BY <1>7, CallerKinds DEF WindowCheck, FinishItem, EndRunIfDrained, StatusOf, Cleared
<1>8. ASSUME CheckWanted PROVE Carriers'
  BY <1>8, CallerKinds DEF CheckWanted, StillWanted
<1>9. ASSUME CheckUnwanted PROVE Carriers'
  BY <1>9, CallerKinds DEF CheckUnwanted, StillWanted
<1>10. ASSUME StartSession PROVE Carriers'
  <2>1. PICK s \in Sessions : NewSession(s) /\ Install(s, "Queue") /\ carrier' = s
                             /\ itemOf' = [itemOf EXCEPT ![s] = job]
    BY <1>10 DEF StartSession
  <2>2. rpc = "start" /\ rpc' = "setup" /\ UNCHANGED <<job, status>>
    BY <1>10 DEF StartSession
  <2>3. /\ phase[s] = "unused" /\ phase'[s] = "active"
        /\ owner'[s] = "Queue" /\ itemOf'[s] = job
        /\ \A r \in Sessions \ {s} :
             phase'[r] = phase[r] /\ owner'[r] = owner[r] /\ itemOf'[r] = itemOf[r]
    BY <2>1 DEF Install, SlotTypeOK, RunnerTypes
  <2>4. \A r \in Sessions : phase[r] # "active"
    BY <2>1 DEF Install
  <2>5. \A r \in Sessions : Carries(r)' <=> r = s
    BY <2>2, <2>3
  <2>6. QED
    BY <2>1, <2>2, <2>3, <2>4, <2>5
<1>11. ASSUME StartConflict PROVE Carriers'
  BY <1>11, CallerKinds DEF StartConflict
<1>12. ASSUME SetupEnds PROVE Carriers'
  BY <1>12, CallerKinds DEF SetupEnds
<1>13. ASSUME StartReturns PROVE Carriers'
  BY <1>13, CallerKinds DEF StartReturns
<1>14. ASSUME Awaited PROVE Carriers'
  BY <1>14, CallerKinds DEF Awaited
<1>15. ASSUME FinishUnstarted PROVE Carriers'
  BY <1>15, CallerKinds DEF FinishUnstarted, FinishItem, EndRunIfDrained, StatusOf,
     Cleared
<1>16. ASSUME ManualCall PROVE Carriers'
  BY <1>16, CallerKinds DEF ManualCall, Spend
<1>17. ASSUME ManualAdmit PROVE Carriers'
  BY <1>17, CallerKinds DEF ManualAdmit
<1>18. ASSUME ManualStart PROVE Carriers'
  BY <1>18, CallerKinds DEF ManualStart, RequestCancel
<1>19. ASSUME ManualInstall PROVE Carriers'
  <2>1. PICK s \in Sessions : NewSession(s) /\ Install(s, "Manual")
    BY <1>19 DEF ManualInstall
  <2>2. UNCHANGED <<job, status, rpc, carrier, itemOf>>
    BY <1>19 DEF ManualInstall
  <2>3. /\ phase[s] = "unused" /\ phase'[s] = "active" /\ owner'[s] = "Manual"
        /\ \A r \in Sessions \ {s} : phase'[r] = phase[r] /\ owner'[r] = owner[r]
    BY <2>1 DEF Install, SlotTypeOK
  <2>4. \A r \in Sessions : phase[r] # "active"
    BY <2>1 DEF Install
  <2>5. \A r \in Sessions : Carries(r)' <=> Carries(r)
    BY <2>2, <2>3
  <2>6. QED
    BY <2>2, <2>3, <2>4, <2>5
<1>20. ASSUME ManualReturns PROVE Carriers'
  BY <1>20, CallerKinds DEF ManualReturns
<1>21. ASSUME WindowOpens PROVE Carriers'
  BY <1>21, CallerKinds DEF WindowOpens
<1>22. ASSUME NEW c \in Commanders, StartQueue(c) PROVE Carriers'
  BY <1>22, CallerKinds DEF StartQueue, Ready
<1>23. ASSUME NEW c \in Commanders, ClearFinished(c) PROVE Carriers'
  <2>1. \A k \in Items : status'[k] = "Downloading" => status[k] = "Downloading"
    BY <1>23 DEF ClearFinished, Drop, QueueTypes
  <2>2. QED
    BY <1>23, <2>1, CarriersKept DEF ClearFinished
<1>24. ASSUME NEW c \in Commanders, CancelQueueCall(c) PROVE Carriers'
  BY <1>24, CallerKinds DEF CancelQueueCall, Goto, Ready, Spend
<1>25. ASSUME NEW c \in Commanders, ClearQueueCall(c) PROVE Carriers'
  BY <1>25, CallerKinds DEF ClearQueueCall, Goto, Ready, Spend
<1>26. ASSUME NEW c \in Commanders, NEW i \in Items, AddToQueue(c, i) PROVE Carriers'
  <2>1. \A k \in Items : status'[k] = "Downloading" => status[k] = "Downloading"
    BY <1>26 DEF AddToQueue, NewAttempt, QueueTypes
  <2>2. QED
    BY <1>26, <2>1, CarriersKept DEF AddToQueue
<1>27. ASSUME NEW c \in Stoppers, StopCall(c) PROVE Carriers'
  BY <1>27, CallerKinds DEF StopCall, Goto, Spend
<1>28. ASSUME NEW c \in Callers, CancelSession(c) PROVE Carriers'
  BY <1>28, CallerKinds DEF CancelSession, Goto, RequestCancel
<1>29. ASSUME NEW c \in Callers, CancelWaited(c) PROVE Carriers'
  BY <1>29, CallerKinds DEF CancelWaited, Goto
<1>30. ASSUME NEW c \in Callers, PickPending(c) PROVE Carriers'
  BY <1>30, CallerKinds DEF PickPending, Goto
<1>31. ASSUME NEW c \in Callers, ApplyCancelled(c) PROVE Carriers'
  <2>1. \A k \in Items : status'[k] = "Downloading" => status[k] = "Downloading"
    BY <1>31 DEF ApplyCancelled, QueueTypes
  <2>2. QED
    BY <1>31, <2>1, CarriersKept DEF ApplyCancelled
<1>32. ASSUME NEW c \in Callers, ClearItems(c) PROVE Carriers'
  <2>1. \A k \in Items : status'[k] = "Downloading" => status[k] = "Downloading"
    BY <1>32 DEF ClearItems, Drop, QueueTypes
  <2>2. QED
    BY <1>32, <2>1, CarriersKept DEF ClearItems
<1>33. ASSUME NEW c \in Callers, StopReturns(c) PROVE Carriers'
  <2>1. \A k \in Items : status'[k] = "Downloading" => status[k] = "Downloading"
    BY <1>33 DEF StopReturns, NewAttempt, QueueTypes
  <2>2. QED
    BY <1>33, <2>1, CarriersKept DEF StopReturns
<1>34. ASSUME NEW s \in Sessions, SessionCompletes(s) PROVE Carriers'
  BY <1>34, CallerKinds DEF SessionCompletes, Complete
<1>35. ASSUME NEW s \in Sessions, Callback(s) PROVE Carriers'
  <2>1. /\ phase[s] = "finalizing" /\ phase'[s] = "calling"
        /\ \A r \in Sessions \ {s} : phase'[r] = phase[r]
        /\ UNCHANGED <<owner, itemOf, job, rpc, carrier>>
    BY <1>35 DEF Callback, Deliver, SlotTypeOK
  <2>2. \A r \in Sessions : Carries(r)' <=> Carries(r) /\ r # s
    BY <2>1
  <2>3. \A k \in Items : status'[k] = "Downloading" =>
          status[k] = "Downloading" /\ itemOf[s] # k
    BY <1>35, FinishEffect, CallerKinds DEF Callback, SlotTypeOK, Terminal
  <2>4. rpc \in Carrying /\ status'[job] = "Downloading" => carrier # s
    BY <2>3 DEF Jobs, Working
  <2>5. QED
    BY <2>1, <2>2, <2>3, <2>4
<1>36. ASSUME NEW s \in Sessions, CallbackReturns(s) PROVE Carriers'
  BY <1>36, CallerKinds DEF CallbackReturns, Finish
<1>37. ASSUME NEW s \in Sessions, CancelDownload(s) PROVE Carriers'
  BY <1>37, CallerKinds DEF CancelDownload, RequestCancel
<1>38. CASE UNCHANGED vars
  BY <1>38 DEF vars, slotVars, state, runner, callers, held
<1>39. QED
  BY <1>1, <1>2, <1>3, <1>4, <1>5, <1>6, <1>7, <1>8, <1>9, <1>10, <1>11, <1>12, <1>13,
     <1>14, <1>15, <1>16, <1>17, <1>18, <1>19, <1>20, <1>21, <1>22, <1>23, <1>24, <1>25,
     <1>26, <1>27, <1>28, <1>29, <1>30, <1>31, <1>32, <1>33, <1>34, <1>35, <1>36, <1>37,
     <1>38
  DEF Next, ItemCommand, RunnerStep, ManualStep, Command, CallerStep, SlotStep

-----------------------------------------------------------------------------
(* The runner's item                                                       *)

\* The runner's item is downloading until it is finished.
LEMMA JobsStep ==
  ASSUME Types, Locks, Carriers, Jobs, [Next]_vars
  PROVE  Jobs'
<1>0. SlotTypeOK /\ QueueTypes /\ RunnerTypes /\ CallerTypes
  BY DEF Types
<1> USE <1>0
    DEF Jobs, Locks, Carriers, Carries, Working, Starting, Carrying,
        DownloadingIsWorkedOn, RunHasRunner,
         slotVars, state, runner, callers, held
<1>1. ASSUME Reorder PROVE Jobs'
  BY <1>1, CallerKinds DEF Reorder
<1>2. ASSUME NEW i \in Items, RemoveFromQueue(i) PROVE Jobs'
  BY <1>2, CallerKinds DEF RemoveFromQueue, Drop
<1>3. ASSUME NEW i \in Items, RetryItem(i) PROVE Jobs'
  BY <1>3, CallerKinds DEF RetryItem, NewAttempt, Spend
<1>4. ASSUME Claim PROVE Jobs'
  <2>1. PICK k \in Items :
           /\ status[k] = "Pending" /\ status' = [status EXCEPT ![k] = "Downloading"]
           /\ active' = k /\ job' = k
    BY <1>4, ClaimEffect
  <2>2. rpc = "claim" /\ rpc' = "window" /\ UNCHANGED <<slotVars, itemOf, carrier>>
    BY <1>4 DEF Claim
  <2>3. \A r \in Sessions : ~Carries(r)'
    BY <2>2
  <2>4. \A j \in Items : status'[j] = "Downloading" => j = k
    BY <2>1, <2>2
  <2>5. status'[k] = "Downloading"
    BY <2>1 DEF QueueTypes
  <2>6. QED
    BY <2>1, <2>2, <2>3, <2>4, <2>5
<1>5. ASSUME ClaimNothing PROVE Jobs'
  BY <1>5, CallerKinds DEF ClaimNothing
<1>6. ASSUME RunnerExit PROVE Jobs'
  BY <1>6, CallerKinds DEF RunnerExit
<1>7. ASSUME WindowCheck PROVE Jobs'
  <2>1. CASE window
    BY <1>7, <2>1 DEF WindowCheck
  <2>2. CASE ~window
    <3>1. /\ rpc = "window" /\ rpc' = "claim" /\ FinishItem(job, "Failed")
          /\ UNCHANGED <<slotVars, itemOf, carrier, job>>
      BY <1>7, <2>2 DEF WindowCheck
    <3>2. /\ \A j \in Items \ {job} : status'[j] = status[j]
          /\ job \in Items /\ status'[job] # "Downloading"
      BY <3>1, FinishEffect DEF Outcomes, Terminal
    <3>3. \A j \in Items : status'[j] # "Downloading"
      BY <3>1, <3>2
    <3>4. \A r \in Sessions : ~Carries(r)'
      BY <3>1
    <3>5. QED
      BY <3>1, <3>3, <3>4
  <2>3. QED
    BY <2>1, <2>2
<1>8. ASSUME CheckWanted PROVE Jobs'
  BY <1>8, CallerKinds DEF CheckWanted, StillWanted
<1>9. ASSUME CheckUnwanted PROVE Jobs'
  BY <1>9, CallerKinds DEF CheckUnwanted, StillWanted
<1>10. ASSUME StartSession PROVE Jobs'
  BY <1>10, CallerKinds DEF StartSession, NewSession, Install
<1>11. ASSUME StartConflict PROVE Jobs'
  BY <1>11, CallerKinds DEF StartConflict
<1>12. ASSUME SetupEnds PROVE Jobs'
  BY <1>12, CallerKinds DEF SetupEnds
<1>13. ASSUME StartReturns PROVE Jobs'
  BY <1>13, CallerKinds DEF StartReturns
<1>14. ASSUME Awaited PROVE Jobs'
  BY <1>14, CallerKinds DEF Awaited
<1>15. ASSUME FinishUnstarted PROVE Jobs'
  <2>1. /\ rpc = "unstarted" /\ rpc' = "claim" /\ job \in Items
        /\ UNCHANGED <<slotVars, itemOf, carrier, job>>
    BY <1>15 DEF FinishUnstarted
  <2>2. \A r \in Sessions : ~Carries(r)'
    BY <2>1
  <2>3. \A j \in Items : status'[j] # "Downloading"
    <3>1. CASE status[job] = "Downloading"
      <4>1. /\ \A j \in Items \ {job} : status'[j] = status[j]
            /\ status'[job] # "Downloading"
        BY <1>15, <2>1, <3>1, FinishEffect DEF FinishUnstarted, Outcomes, Terminal
      <4>2. QED
        BY <2>1, <4>1
    <3>2. CASE status[job] # "Downloading"
      BY <1>15, <2>1, <3>2 DEF FinishUnstarted
    <3>3. QED
      BY <3>1, <3>2
  <2>4. QED
    BY <2>1, <2>2, <2>3
<1>16. ASSUME ManualCall PROVE Jobs'
  BY <1>16, CallerKinds DEF ManualCall, Spend
<1>17. ASSUME ManualAdmit PROVE Jobs'
  BY <1>17, CallerKinds DEF ManualAdmit
<1>18. ASSUME ManualStart PROVE Jobs'
  BY <1>18, CallerKinds DEF ManualStart, RequestCancel
<1>19. ASSUME ManualInstall PROVE Jobs'
  <2>1. PICK s \in Sessions : NewSession(s) /\ Install(s, "Manual")
    BY <1>19 DEF ManualInstall
  <2>2. UNCHANGED <<job, status, rpc, carrier, itemOf, running, cancelling, active>>
    BY <1>19 DEF ManualInstall, state
  <2>3. /\ phase[s] = "unused" /\ owner'[s] = "Manual"
        /\ \A r \in Sessions \ {s} : phase'[r] = phase[r] /\ owner'[r] = owner[r]
    BY <2>1 DEF Install, SlotTypeOK
  <2>4. \A r \in Sessions : Carries(r)' => Carries(r)
    BY <2>2, <2>3
  <2>5. QED
    BY <2>2, <2>4
<1>20. ASSUME ManualReturns PROVE Jobs'
  BY <1>20, CallerKinds DEF ManualReturns
<1>21. ASSUME WindowOpens PROVE Jobs'
  BY <1>21, CallerKinds DEF WindowOpens
<1>22. ASSUME NEW c \in Commanders, StartQueue(c) PROVE Jobs'
  BY <1>22, CallerKinds DEF StartQueue, Ready
<1>23. ASSUME NEW c \in Commanders, ClearFinished(c) PROVE Jobs'
  <2>1. \A k \in Items :
           \/ status'[k] = status[k]
           \/ status[k] # "Downloading" /\ status'[k] = "none"
    BY <1>23 DEF ClearFinished, Drop, Terminal, QueueTypes
  <2>2. UNCHANGED <<slotVars, itemOf, carrier, job, rpc, running, cancelling, active>>
    BY <1>23 DEF ClearFinished
  <2>3. \A r \in Sessions : Carries(r)' <=> Carries(r)
    BY <2>2
  <2>4. QED
    BY <2>1, <2>2, <2>3
<1>24. ASSUME NEW c \in Commanders, CancelQueueCall(c) PROVE Jobs'
  BY <1>24, CallerKinds DEF CancelQueueCall, Goto, Ready, Spend
<1>25. ASSUME NEW c \in Commanders, ClearQueueCall(c) PROVE Jobs'
  BY <1>25, CallerKinds DEF ClearQueueCall, Goto, Ready, Spend
<1>26. ASSUME NEW c \in Commanders, NEW i \in Items, AddToQueue(c, i) PROVE Jobs'
  BY <1>26, CallerKinds DEF AddToQueue, NewAttempt, Ready, Spend
<1>27. ASSUME NEW c \in Stoppers, StopCall(c) PROVE Jobs'
  BY <1>27, CallerKinds DEF StopCall, Goto, Spend
<1>28. ASSUME NEW c \in Callers, CancelSession(c) PROVE Jobs'
  BY <1>28, CallerKinds DEF CancelSession, Goto, RequestCancel
<1>29. ASSUME NEW c \in Callers, CancelWaited(c) PROVE Jobs'
  BY <1>29, CallerKinds DEF CancelWaited, Goto
<1>30. ASSUME NEW c \in Callers, PickPending(c) PROVE Jobs'
  BY <1>30, CallerKinds DEF PickPending, Goto
<1>31. ASSUME NEW c \in Callers, ApplyCancelled(c) PROVE Jobs'
  <2>1. \A k \in Items :
           \/ status'[k] = status[k]
           \/ status[k] = "Pending" /\ status'[k] = "Cancelled"
    BY <1>31 DEF ApplyCancelled, Pending, QueueTypes
  <2>2. guard = c /\ ~running
    BY <1>31 DEF ApplyCancelled, Holding
  <2>3. rpc # "start" /\ UNCHANGED <<slotVars, itemOf, carrier, job, rpc, running, cancelling>>
    BY <1>31, <2>2, CallerKinds DEF ApplyCancelled
  <2>4. \A r \in Sessions : Carries(r)' <=> Carries(r)
    BY <2>3
  <2>5. QED
    BY <2>1, <2>2, <2>3, <2>4
<1>32. ASSUME NEW c \in Callers, ClearItems(c) PROVE Jobs'
  <2>1. guard = c /\ \A k \in Items : status'[k] = "none"
    BY <1>32 DEF ClearItems, Drop, Holding, QueueTypes
  <2>2. rpc # "start" /\ UNCHANGED <<slotVars, itemOf, carrier, job, rpc, running, cancelling>>
    BY <1>32, <2>1, CallerKinds DEF ClearItems
  <2>3. \A r \in Sessions : Carries(r)' <=> Carries(r)
    BY <2>2
  <2>4. QED
    BY <2>1, <2>2, <2>3
<1>33. ASSUME NEW c \in Callers, StopReturns(c) PROVE Jobs'
  BY <1>33, CallerKinds DEF StopReturns, Goto, Returns, NewAttempt
<1>34. ASSUME NEW s \in Sessions, SessionCompletes(s) PROVE Jobs'
  BY <1>34, CallerKinds DEF SessionCompletes, Complete
<1>35. ASSUME NEW s \in Sessions, Callback(s) PROVE Jobs'
  <2>1. /\ phase[s] = "finalizing" /\ phase'[s] = "calling"
        /\ \A r \in Sessions \ {s} : phase'[r] = phase[r]
        /\ UNCHANGED <<owner, itemOf, job, rpc, carrier>>
    BY <1>35 DEF Callback, Deliver, SlotTypeOK
  <2>2. \A r \in Sessions : Carries(r)' <=> Carries(r) /\ r # s
    BY <2>1
  <2>3. CASE itemOf[s] = NoItem
    BY <1>35, <2>1, <2>2, <2>3 DEF Callback
  <2>4. CASE itemOf[s] # NoItem
    <3>1. s = carrier /\ itemOf[s] = job /\ rpc \in Carrying /\ job \in Items
      BY <2>1, <2>4
    <3>2. /\ \A j \in Items \ {job} : status'[j] = status[j]
          /\ status'[job] # "Downloading"
          /\ running' => running
      BY <1>35, <2>4, <3>1, FinishEffect DEF Callback, SlotTypeOK, Terminal
    <3>3. \A j \in Items : status'[j] # "Downloading"
      BY <3>1, <3>2
    <3>4. \A r \in Sessions : ~Carries(r)'
      BY <2>2, <3>1
    <3>5. QED
      BY <2>1, <3>1, <3>2, <3>3, <3>4
  <2>5. QED
    BY <2>3, <2>4
<1>36. ASSUME NEW s \in Sessions, CallbackReturns(s) PROVE Jobs'
  BY <1>36, CallerKinds DEF CallbackReturns, Finish
<1>37. ASSUME NEW s \in Sessions, CancelDownload(s) PROVE Jobs'
  BY <1>37, CallerKinds DEF CancelDownload, RequestCancel
<1>38. CASE UNCHANGED vars
  BY <1>38 DEF vars, slotVars, state, runner, callers, held
<1>39. QED
  BY <1>1, <1>2, <1>3, <1>4, <1>5, <1>6, <1>7, <1>8, <1>9, <1>10, <1>11, <1>12, <1>13,
     <1>14, <1>15, <1>16, <1>17, <1>18, <1>19, <1>20, <1>21, <1>22, <1>23, <1>24, <1>25,
     <1>26, <1>27, <1>28, <1>29, <1>30, <1>31, <1>32, <1>33, <1>34, <1>35, <1>36, <1>37,
     <1>38
  DEF Next, ItemCommand, RunnerStep, ManualStep, Command, CallerStep, SlotStep

-----------------------------------------------------------------------------
(* Cancelling under START_GUARD                                            *)

\* A session of the queue is in the slot only while the runner waits for it.
LEMMA QueueActiveCarried ==
  ASSUME Carriers, NEW s \in QueueActive
  PROVE  s = carrier /\ itemOf[s] = job /\ rpc \in Carrying
BY DEF Carriers, Carries, QueueActive, Active

\* Without a session of the queue Cancels asks for nothing.
LEMMA CancelsNone ==
  ASSUME QueueActive' = {}
  PROVE  Cancels'
BY DEF Cancels

\* A step that brings no session of the queue, and leaves the state of the run
\* alone unless somebody is cancelling.
LEMMA CancelsKept ==
  ASSUME Cancels, QueueActive' \subseteq QueueActive, UNCHANGED <<guard, pc, await>>,
         guard \notin Callers /\ QueueActive' # {} =>
           UNCHANGED <<running, cancelling, active, job>> /\ status'[job] = status[job]
  PROVE  Cancels'
<1>1. ASSUME guard \notin Callers, QueueActive' # {}
      PROVE  running' /\ ~cancelling' /\ active' = job' /\ status'[job'] = "Downloading"
  <2>1. running /\ ~cancelling /\ active = job /\ status[job] = "Downloading"
    BY <1>1 DEF Cancels
  <2>2. running' = running /\ cancelling' = cancelling /\ active' = active /\ job' = job
        /\ status'[job] = status[job]
    BY <1>1
  <2>3. QED
    BY <2>1, <2>2
<1>2. ASSUME NEW c \in Callers, pc[c] \in {"kill", "kill wait", "proceed", "apply"}
      PROVE  QueueActive' = {}
  BY <1>2 DEF Cancels
<1>3. ASSUME NEW c \in Callers, pc[c] = "cancel wait"
      PROVE  QueueActive' \subseteq await[c]
  BY <1>3 DEF Cancels
<1>4. QED
  BY <1>1, <1>2, <1>3 DEF Cancels

\* Whoever has cancelled under the guard finds no session of the queue.
LEMMA CancelsStep ==
  ASSUME Types, Locks, Carriers, Jobs, Cancels, [Next]_vars
  PROVE  Cancels'
<1>0. SlotTypeOK /\ QueueTypes /\ RunnerTypes /\ CallerTypes
  BY DEF Types
<1> USE <1>0 DEF SlotTypeOK, CallerTypes, runner, callers, held
<1>j. QueueActive # {} => job \in Items
  BY QueueActiveCarried DEF Jobs, Working, Carrying
<1>1. ASSUME Reorder PROVE Cancels'
  <2>1. QueueActive' \subseteq QueueActive
    BY <1>1 DEF Reorder, slotVars, QueueActive, Active, slotVars, SlotTypeOK
  <2>2. QED
    BY <1>1, <2>1, CancelsKept DEF Reorder, state
<1>2. ASSUME NEW i \in Items, RemoveFromQueue(i) PROVE Cancels'
  <2>1. UNCHANGED QueueActive
    BY <1>2 DEF RemoveFromQueue, QueueActive, Active, slotVars
  <2>2. guard \notin Callers /\ QueueActive # {} => status'[job] = status[job]
    BY <1>2, <1>j DEF RemoveFromQueue, Drop, Cancels, QueueTypes, Terminal
  <2>3. QED
    BY <1>2, <2>1, <2>2, CancelsKept DEF RemoveFromQueue
<1>3. ASSUME NEW i \in Items, RetryItem(i) PROVE Cancels'
  <2>1. UNCHANGED QueueActive
    BY <1>3 DEF RetryItem, QueueActive, Active, slotVars
  <2>2. guard \notin Callers /\ QueueActive # {} => status'[job] = status[job]
    BY <1>3, <1>j DEF RetryItem, NewAttempt, Cancels, QueueTypes, Terminal
  <2>3. QED
    BY <1>3, <2>1, <2>2, CancelsKept DEF RetryItem
<1>4. ASSUME Claim PROVE Cancels'
  <2>1. rpc \notin Carrying /\ UNCHANGED slotVars
    BY <1>4 DEF Claim, Carrying
  <2>2. QueueActive' = {}
    BY <2>1, QueueActiveCarried DEF QueueActive, Active, slotVars
  <2>3. QED
    BY <2>2, CancelsNone
<1>5. ASSUME ClaimNothing PROVE Cancels'
  <2>1. rpc \notin Carrying /\ UNCHANGED slotVars
    BY <1>5 DEF ClaimNothing, Carrying
  <2>2. QueueActive' = {}
    BY <2>1, QueueActiveCarried DEF QueueActive, Active, slotVars
  <2>3. QED
    BY <2>2, CancelsNone
<1>6. ASSUME RunnerExit PROVE Cancels'
  <2>1. rpc \notin Carrying /\ UNCHANGED slotVars
    BY <1>6 DEF RunnerExit, Carrying
  <2>2. QueueActive' = {}
    BY <2>1, QueueActiveCarried DEF QueueActive, Active, slotVars
  <2>3. QED
    BY <2>2, CancelsNone
<1>7. ASSUME WindowCheck PROVE Cancels'
  <2>1. rpc \notin Carrying /\ UNCHANGED slotVars
    BY <1>7 DEF WindowCheck, Carrying
  <2>2. QueueActive' = {}
    BY <2>1, QueueActiveCarried DEF QueueActive, Active, slotVars
  <2>3. QED
    BY <2>2, CancelsNone
<1>8. ASSUME CheckWanted PROVE Cancels'
  <2>1. /\ UNCHANGED <<slotVars, pc, await, running, cancelling, active, job, status>>
        /\ guard \notin Callers /\ guard' \notin Callers
    BY <1>8, CallerKinds DEF CheckWanted, state, callers, Locks, Starting
  <2>2. UNCHANGED QueueActive
    BY <2>1 DEF QueueActive, Active, slotVars
  <2>3. QED
    BY <2>1, <2>2 DEF Cancels
<1>9. ASSUME CheckUnwanted PROVE Cancels'
  <2>1. QueueActive' \subseteq QueueActive
    BY <1>9 DEF CheckUnwanted, slotVars, QueueActive, Active, slotVars, SlotTypeOK
  <2>2. QED
    BY <1>9, <2>1, CancelsKept DEF CheckUnwanted, state
<1>10. ASSUME StartSession PROVE Cancels'
  <2>1. PICK s \in Sessions : Install(s, "Queue")
    BY <1>10 DEF StartSession
  <2>2. rpc = "start" /\ guard = "runner" /\ UNCHANGED <<job, state, guard, pc>>
    BY <1>10 DEF StartSession, Locks, Starting, callers
  <2>3. running /\ ~cancelling /\ active = job /\ status[job] = "Downloading"
    BY <2>2 DEF Jobs, Working, DownloadingIsWorkedOn
  <2>4. \A c \in Callers : pc'[c] \notin Holding
    <3>1. \A c \in Callers : c # "runner"
      BY CallerKinds
    <3>2. QED
      BY <2>2, <3>1 DEF Locks
  <2>5. QED
    BY <2>2, <2>3, <2>4 DEF Cancels, Holding, state
<1>11. ASSUME StartConflict PROVE Cancels'
  <2>1. /\ UNCHANGED <<slotVars, pc, await, running, cancelling, active, job, status>>
        /\ guard \notin Callers /\ guard' \notin Callers
    <3>1. guard = "runner" /\ guard' = NoThread
      BY <1>11 DEF StartConflict, Locks, Starting
    <3>2. UNCHANGED <<slotVars, pc, await, running, cancelling, active, job, status>>
      BY <1>11 DEF StartConflict, state, callers
    <3>3. QED
      BY <3>1, <3>2, CallerKinds
  <2>2. UNCHANGED QueueActive
    BY <2>1 DEF QueueActive, Active, slotVars
  <2>3. QED
    BY <2>1, <2>2 DEF Cancels
<1>12. ASSUME SetupEnds PROVE Cancels'
  <2>1. QueueActive' \subseteq QueueActive
    BY <1>12 DEF SetupEnds, slotVars, QueueActive, Active, slotVars, SlotTypeOK
  <2>2. QED
    BY <1>12, <2>1, CancelsKept DEF SetupEnds, state
<1>13. ASSUME StartReturns PROVE Cancels'
  <2>1. /\ UNCHANGED <<slotVars, pc, await, running, cancelling, active, job, status>>
        /\ guard \notin Callers /\ guard' \notin Callers
    BY <1>13, CallerKinds DEF StartReturns, state, callers, Locks, Starting
  <2>2. UNCHANGED QueueActive
    BY <2>1 DEF QueueActive, Active, slotVars
  <2>3. QED
    BY <2>1, <2>2 DEF Cancels
<1>14. ASSUME Awaited PROVE Cancels'
  <2>1. QueueActive' \subseteq QueueActive
    BY <1>14 DEF Awaited, slotVars, QueueActive, Active, slotVars, SlotTypeOK
  <2>2. QED
    BY <1>14, <2>1, CancelsKept DEF Awaited, state
<1>15. ASSUME FinishUnstarted PROVE Cancels'
  <2>1. rpc \notin Carrying /\ UNCHANGED slotVars
    BY <1>15 DEF FinishUnstarted, Carrying
  <2>2. QueueActive' = {}
    BY <2>1, QueueActiveCarried DEF QueueActive, Active, slotVars
  <2>3. QED
    BY <2>2, CancelsNone
<1>16. ASSUME ManualCall PROVE Cancels'
  <2>1. QueueActive' \subseteq QueueActive
    BY <1>16 DEF ManualCall, Spend, QueueActive, Active, slotVars, SlotTypeOK
  <2>2. QED
    BY <1>16, <2>1, CancelsKept DEF ManualCall, state
<1>17. ASSUME ManualAdmit PROVE Cancels'
  <2>1. QueueActive' \subseteq QueueActive
    BY <1>17 DEF ManualAdmit, slotVars, QueueActive, Active, slotVars, SlotTypeOK
  <2>2. QED
    BY <1>17, <2>1, CancelsKept DEF ManualAdmit, state
<1>18. ASSUME ManualStart PROVE Cancels'
  <2>1. QueueActive' \subseteq QueueActive
    BY <1>18 DEF ManualStart, RequestCancel, QueueActive, Active, slotVars, SlotTypeOK
  <2>2. QED
    BY <1>18, <2>1, CancelsKept DEF ManualStart, state
<1>19. ASSUME ManualInstall PROVE Cancels'
  <2>1. QueueActive' \subseteq QueueActive
    BY <1>19 DEF ManualInstall, NewSession, Install, QueueActive, Active, slotVars, SlotTypeOK
  <2>2. QED
    BY <1>19, <2>1, CancelsKept DEF ManualInstall, state
<1>20. ASSUME ManualReturns PROVE Cancels'
  <2>1. QueueActive' \subseteq QueueActive
    BY <1>20 DEF ManualReturns, slotVars, QueueActive, Active, slotVars, SlotTypeOK
  <2>2. QED
    BY <1>20, <2>1, CancelsKept DEF ManualReturns, state
<1>21. ASSUME WindowOpens PROVE Cancels'
  <2>1. QueueActive' \subseteq QueueActive
    BY <1>21 DEF WindowOpens, slotVars, QueueActive, Active, slotVars, SlotTypeOK
  <2>2. QED
    BY <1>21, <2>1, CancelsKept DEF WindowOpens, state
<1>22. ASSUME NEW c \in Commanders, StartQueue(c) PROVE Cancels'
  <2>1. rpc \notin Carrying /\ UNCHANGED slotVars
    BY <1>22 DEF StartQueue, Carrying
  <2>2. QueueActive' = {}
    BY <2>1, QueueActiveCarried DEF QueueActive, Active, slotVars
  <2>3. QED
    BY <2>2, CancelsNone
<1>23. ASSUME NEW c \in Commanders, ClearFinished(c) PROVE Cancels'
  <2>1. UNCHANGED QueueActive
    BY <1>23 DEF ClearFinished, QueueActive, Active, slotVars
  <2>2. guard \notin Callers /\ QueueActive # {} => status'[job] = status[job]
    BY <1>23, <1>j DEF ClearFinished, Drop, Cancels, QueueTypes, Terminal
  <2>3. QED
    BY <1>23, <2>1, <2>2, CancelsKept DEF ClearFinished
<1>24. ASSUME NEW c \in Commanders, CancelQueueCall(c) PROVE Cancels'
  <2>1. UNCHANGED slotVars /\ guard = NoThread /\ guard' = c /\ c \in Callers
        /\ \A d \in Callers \ {c} : pc'[d] = pc[d] /\ pc[d] \notin Holding
    BY <1>24, CallerKinds DEF CancelQueueCall, Goto, Locks
  <2>2. UNCHANGED QueueActive
    BY <2>1 DEF QueueActive, Active, slotVars
  <2>3. pc'[c] = "cancel session" \/ (pc'[c] = "proceed" /\ QueueActive = {})
    <3>1. guard \notin Callers
      BY <2>1, CallerKinds
    <3>2. QueueActive # {} => running /\ active = job
      BY <3>1 DEF Cancels
    <3>3. QueueActive # {} => active # NoItem
      BY <1>j, <3>2, CallerKinds
    <3>4. pc'[c] = IF active # NoItem THEN "cancel session" ELSE "proceed"
      BY <1>24, <2>1 DEF CancelQueueCall, Goto
    <3>5. QED
      BY <3>2, <3>3, <3>4
  <2>4. QED
    BY <2>1, <2>2, <2>3, CallerKinds DEF Cancels, Holding
<1>25. ASSUME NEW c \in Commanders, ClearQueueCall(c) PROVE Cancels'
  <2>1. UNCHANGED slotVars /\ guard = NoThread /\ guard' = c /\ c \in Callers
        /\ \A d \in Callers \ {c} : pc'[d] = pc[d] /\ pc[d] \notin Holding
    BY <1>25, CallerKinds DEF ClearQueueCall, Goto, Locks
  <2>2. UNCHANGED QueueActive
    BY <2>1 DEF QueueActive, Active, slotVars
  <2>3. pc'[c] = "cancel session" \/ (pc'[c] = "proceed" /\ QueueActive = {})
    <3>1. guard \notin Callers
      BY <2>1, CallerKinds
    <3>2. QueueActive # {} => running /\ active = job
      BY <3>1 DEF Cancels
    <3>3. QueueActive # {} => active # NoItem
      BY <1>j, <3>2, CallerKinds
    <3>4. pc'[c] = IF running THEN "cancel session" ELSE "proceed"
      BY <1>25, <2>1 DEF ClearQueueCall, Goto
    <3>5. QED
      BY <3>2, <3>3, <3>4
  <2>4. QED
    BY <2>1, <2>2, <2>3, CallerKinds DEF Cancels, Holding
<1>26. ASSUME NEW c \in Commanders, NEW i \in Items, AddToQueue(c, i) PROVE Cancels'
  <2>1. UNCHANGED QueueActive
    BY <1>26 DEF AddToQueue, QueueActive, Active, slotVars
  <2>2. guard \notin Callers /\ QueueActive # {} => status'[job] = status[job]
    BY <1>26, <1>j DEF AddToQueue, NewAttempt, Cancels, QueueTypes, Terminal
  <2>3. QED
    BY <1>26, <2>1, <2>2, CancelsKept DEF AddToQueue
<1>27. ASSUME NEW c \in Stoppers, StopCall(c) PROVE Cancels'
  <2>1. UNCHANGED slotVars /\ guard = NoThread /\ guard' = c /\ c \in Callers
        /\ \A d \in Callers \ {c} : pc'[d] = pc[d] /\ pc[d] \notin Holding
    BY <1>27, CallerKinds DEF StopCall, Goto, Locks
  <2>2. UNCHANGED QueueActive
    BY <2>1 DEF QueueActive, Active, slotVars
  <2>3. pc'[c] = "cancel session"
    BY <1>27, <2>1 DEF StopCall, Goto
  <2>4. QED
    BY <2>1, <2>2, <2>3, CallerKinds DEF Cancels, Holding
<1>28. ASSUME NEW c \in Callers, CancelSession(c) PROVE Cancels'
  <2>1. UNCHANGED <<phase, owner, guard>> /\ guard = c
        /\ \A d \in Callers \ {c} : pc'[d] = pc[d] /\ pc[d] \notin Holding
    BY <1>28 DEF CancelSession, RequestCancel, Goto, Locks, Holding, slotVars, held
  <2>2. UNCHANGED QueueActive
    BY <2>1 DEF QueueActive, Active
  <2>3. CASE pc[c] = "kill"
    BY <2>2, <2>3, CancelsNone DEF Cancels
  <2>4. CASE pc[c] = "cancel session"
    <3>1. pc'[c] = "cancel wait"
      BY <1>28, <2>4 DEF CancelSession, Goto
    <3>2. QueueActive \subseteq await'[c]
      <4>1. CASE Active = {}
        BY <4>1 DEF QueueActive
      <4>2. CASE Active # {}
        <5>1. PICK s \in Active : await' = [await EXCEPT ![c] = {s}]
          BY <1>28, <4>2 DEF CancelSession
        <5>2. Active = {s}
          BY <5>1 DEF Carriers
        <5>3. QED
          BY <5>1, <5>2 DEF QueueActive
      <4>3. QED
        BY <4>1, <4>2
    <3>3. QED
      BY <2>1, <2>2, <3>1, <3>2 DEF Cancels, Holding
  <2>5. QED
    BY <1>28, <2>3, <2>4 DEF CancelSession
<1>29. ASSUME NEW c \in Callers, CancelWaited(c) PROVE Cancels'
  <2>1. UNCHANGED slotVars /\ pc[c] \in {"cancel wait", "kill wait"}
        /\ \A s \in await[c] : Settled(s)
    BY <1>29 DEF CancelWaited
  <2>2. QueueActive = {}
    BY <2>1 DEF Cancels, Settled, QueueActive, Active
  <2>3. QueueActive' = {}
    BY <2>1, <2>2 DEF QueueActive, Active, slotVars
  <2>4. QED
    BY <2>3, CancelsNone
<1>30. ASSUME NEW c \in Callers, PickPending(c) PROVE Cancels'
  <2>1. QueueActive = {} /\ UNCHANGED slotVars
    BY <1>30 DEF PickPending, Cancels
  <2>2. QueueActive' = {}
    BY <2>1 DEF QueueActive, Active, slotVars
  <2>3. QED
    BY <2>2, CancelsNone
<1>31. ASSUME NEW c \in Callers, ApplyCancelled(c) PROVE Cancels'
  <2>1. QueueActive = {} /\ UNCHANGED slotVars
    BY <1>31 DEF ApplyCancelled, Cancels
  <2>2. QueueActive' = {}
    BY <2>1 DEF QueueActive, Active, slotVars
  <2>3. QED
    BY <2>2, CancelsNone
<1>32. ASSUME NEW c \in Callers, ClearItems(c) PROVE Cancels'
  <2>1. QueueActive = {} /\ UNCHANGED slotVars
    BY <1>32 DEF ClearItems, Cancels
  <2>2. QueueActive' = {}
    BY <2>1 DEF QueueActive, Active, slotVars
  <2>3. QED
    BY <2>2, CancelsNone
<1>33. ASSUME NEW c \in Callers, StopReturns(c) PROVE Cancels'
  <2>1. rpc \notin Carrying /\ UNCHANGED slotVars
    BY <1>33 DEF StopReturns, Carrying
  <2>2. QueueActive' = {}
    BY <2>1, QueueActiveCarried DEF QueueActive, Active, slotVars
  <2>3. QED
    BY <2>2, CancelsNone
<1>34. ASSUME NEW s \in Sessions, SessionCompletes(s) PROVE Cancels'
  <2>1. phase' = [phase EXCEPT ![s] = "finalizing"] /\ owner' = owner
    BY <1>34 DEF SessionCompletes, Complete
  <2>2. Active' \subseteq Active
    BY <2>1 DEF Active, SlotTypeOK
  <2>3. QueueActive' \subseteq QueueActive
    BY <2>1, <2>2 DEF QueueActive
  <2>4. QED
    BY <1>34, <2>3, CancelsKept DEF SessionCompletes, state
<1>35. ASSUME NEW s \in Sessions, Callback(s) PROVE Cancels'
  <2>1. UNCHANGED QueueActive /\ phase[s] = "finalizing"
    BY <1>35 DEF Callback, Deliver, QueueActive, Active, SlotTypeOK
  <2>2. CASE itemOf[s] = NoItem
    BY <1>35, <2>1, <2>2, CancelsKept DEF Callback, state
  <2>3. CASE itemOf[s] # NoItem
    <3>1. s = carrier
      BY <2>1, <2>3 DEF Carriers, Carries
    <3>2. QueueActive = {}
      BY <2>1, <3>1, QueueActiveCarried DEF QueueActive, Active
    <3>3. QED
      BY <2>1, <3>2, CancelsNone
  <2>4. QED
    BY <2>2, <2>3
<1>36. ASSUME NEW s \in Sessions, CallbackReturns(s) PROVE Cancels'
  <2>1. QueueActive' \subseteq QueueActive
    BY <1>36 DEF CallbackReturns, Finish, QueueActive, Active, slotVars, SlotTypeOK
  <2>2. QED
    BY <1>36, <2>1, CancelsKept DEF CallbackReturns, state
<1>37. ASSUME NEW s \in Sessions, CancelDownload(s) PROVE Cancels'
  <2>1. QueueActive' \subseteq QueueActive
    BY <1>37 DEF CancelDownload, RequestCancel, QueueActive, Active, slotVars, SlotTypeOK
  <2>2. QED
    BY <1>37, <2>1, CancelsKept DEF CancelDownload, state
<1>38. CASE UNCHANGED vars
  <2>1. UNCHANGED QueueActive
    BY <1>38 DEF vars, slotVars, QueueActive, Active
  <2>2. QED
    BY <1>38, <2>1, CancelsKept DEF vars, state
<1>39. QED
  BY <1>1, <1>2, <1>3, <1>4, <1>5, <1>6, <1>7, <1>8, <1>9, <1>10, <1>11, <1>12, <1>13,
     <1>14, <1>15, <1>16, <1>17, <1>18, <1>19, <1>20, <1>21, <1>22, <1>23, <1>24, <1>25,
     <1>26, <1>27, <1>28, <1>29, <1>30, <1>31, <1>32, <1>33, <1>34, <1>35, <1>36, <1>37,
     <1>38
  DEF Next, ItemCommand, RunnerStep, ManualStep, Command, CallerStep, SlotStep

-----------------------------------------------------------------------------
(* Activity records                                                        *)

\* A step that changes no status and no record, and notes nothing.
LEMMA RecordsKept ==
  ASSUME Records, UNCHANGED <<status, records>>,
         \A c \in Callers : pc'[c] = "apply" => pc[c] = "apply" /\ picked'[c] = picked[c]
  PROVE  Records'
BY DEF Records, RecordedOnce, Terminal

\* A step that keeps each item's record in line with its status and leaves what
\* cancel_queue has noted pending or cleared.
LEMMA RecordsItems ==
  ASSUME Records,
         \A i \in Items : status'[i] # "none" =>
           records'[i] = IF status'[i] \in Terminal THEN 1 ELSE 0,
         \A c \in Callers : pc'[c] = "apply" => pc[c] = "apply" /\ picked'[c] = picked[c],
         \A c \in Callers : pc'[c] = "apply" =>
           \A i \in picked[c] : status'[i] \in {"Pending", "none"}
  PROVE  Records'
BY DEF Records, RecordedOnce

\* finish_item records an item that was downloading or has been cleared.
LEMMA RecordsFinish ==
  ASSUME Types, Records, NEW i \in Items, NEW oc \in Outcomes \cup {"none"}, FinishItem(i, oc),
         status[i] \in {"Downloading", "none"}, UNCHANGED <<pc, picked>>
  PROVE  Records'
<1>1. /\ \A k \in Items \ {i} : status'[k] = status[k] /\ records'[k] = records[k]
      /\ status'[i] \in Terminal \cup {"none"} /\ records'[i] = records[i] + 1
      /\ status[i] = "none" => status'[i] = "none"
  BY FinishEffect DEF Types
<1>2. status'[i] # "none" => records'[i] = 1
  BY <1>1 DEF Records, RecordedOnce, Terminal
<1>3. \A k \in Items : status'[k] # "none" =>
        records'[k] = IF status'[k] \in Terminal THEN 1 ELSE 0
  BY <1>1, <1>2 DEF Records, RecordedOnce, Terminal
<1>4. ASSUME NEW c \in Callers, pc[c] = "apply", NEW k \in picked[c]
      PROVE  status'[k] \in {"Pending", "none"}
  <2>1. k \in Items /\ status[k] \in {"Pending", "none"}
    BY <1>4 DEF Records, Types, CallerTypes
  <2>2. QED
    BY <1>1, <2>1
<1>5. QED
  BY <1>3, <1>4, RecordsItems

\* No step records an item twice.
LEMMA RecordsStep ==
  ASSUME Types, Locks, Carriers, Jobs, Records, [Next]_vars
  PROVE  Records'
<1>0. QueueTypes /\ CallerTypes
  BY DEF Types
<1> USE <1>0
<1>1. ASSUME Reorder PROVE Records'
  BY <1>1, RecordsKept DEF Reorder, state, callers
<1>2. ASSUME NEW i \in Items, RemoveFromQueue(i) PROVE Records'
  <2>1. \A k \in Items : status'[k] # "none" =>
          records'[k] = IF status'[k] \in Terminal THEN 1 ELSE 0
    BY <1>2 DEF RemoveFromQueue, Drop, Records, RecordedOnce, QueueTypes, Terminal
  <2>2. ASSUME NEW d \in Callers, pc'[d] = "apply", NEW k \in picked[d]
        PROVE  k \in Items /\ status'[k] \in {"Pending", "none"}
    <3>1. k \in Items /\ pc[d] = "apply" /\ status[k] \in {"Pending", "none"}
      BY <1>2, <2>2 DEF RemoveFromQueue, Records, CallerTypes, callers
    <3>2. QED
      BY <1>2, <2>2, <3>1 DEF RemoveFromQueue, Drop, QueueTypes, Terminal
  <2>3. QED
    BY <1>2, <2>1, <2>2, RecordsItems DEF RemoveFromQueue, callers
<1>3. ASSUME NEW i \in Items, RetryItem(i) PROVE Records'
  <2>1. \A k \in Items : status'[k] # "none" =>
          records'[k] = IF status'[k] \in Terminal THEN 1 ELSE 0
    BY <1>3 DEF RetryItem, NewAttempt, Records, RecordedOnce, QueueTypes, Terminal
  <2>2. ASSUME NEW d \in Callers, pc'[d] = "apply", NEW k \in picked[d]
        PROVE  k \in Items /\ status'[k] \in {"Pending", "none"}
    <3>1. k \in Items /\ pc[d] = "apply" /\ status[k] \in {"Pending", "none"}
      BY <1>3, <2>2 DEF RetryItem, Records, CallerTypes, callers
    <3>2. QED
      BY <1>3, <2>2, <3>1 DEF RetryItem, NewAttempt, QueueTypes, Terminal
  <2>3. QED
    BY <1>3, <2>1, <2>2, RecordsItems DEF RetryItem, callers
<1>4. ASSUME Claim PROVE Records'
  <2>1. PICK i \in Items :
          /\ status[i] = "Pending" /\ status' = [status EXCEPT ![i] = "Downloading"]
    BY <1>4, ClaimEffect
  <2>2. running /\ UNCHANGED <<records, pc, picked>>
    BY <1>4 DEF Claim, callers
  <2>3. \A k \in Items : status'[k] # "none" =>
          records'[k] = IF status'[k] \in Terminal THEN 1 ELSE 0
    BY <2>1, <2>2 DEF Records, RecordedOnce, QueueTypes, Terminal
  <2>4. \A d \in Callers : pc[d] # "apply"
    BY <2>2 DEF Locks
  <2>5. QED
    BY <2>2, <2>3, <2>4, RecordsItems
<1>5. ASSUME ClaimNothing PROVE Records'
  BY <1>5, RecordsKept DEF ClaimNothing, state, callers
<1>6. ASSUME RunnerExit PROVE Records'
  BY <1>6, RecordsKept DEF RunnerExit, state, callers
<1>7. ASSUME WindowCheck PROVE Records'
  <2>1. CASE window
    BY <1>7, <2>1, RecordsKept DEF WindowCheck, state, callers
  <2>2. CASE ~window
    <3>1. FinishItem(job, "Failed") /\ rpc = "window" /\ UNCHANGED <<pc, picked>>
      BY <1>7, <2>2 DEF WindowCheck, callers
    <3>2. job \in Items /\ status[job] \in {"Downloading", "none"}
      BY <3>1 DEF Jobs, Working
    <3>3. QED
      BY <3>1, <3>2, RecordsFinish DEF Outcomes
  <2>3. QED
    BY <2>1, <2>2
<1>8. ASSUME CheckWanted PROVE Records'
  BY <1>8, RecordsKept DEF CheckWanted, state, callers
<1>9. ASSUME CheckUnwanted PROVE Records'
  BY <1>9, RecordsKept DEF CheckUnwanted, state, callers
<1>10. ASSUME StartSession PROVE Records'
  BY <1>10, RecordsKept DEF StartSession, state, callers
<1>11. ASSUME StartConflict PROVE Records'
  BY <1>11, RecordsKept DEF StartConflict, state, callers
<1>12. ASSUME SetupEnds PROVE Records'
  BY <1>12, RecordsKept DEF SetupEnds, state, callers
<1>13. ASSUME StartReturns PROVE Records'
  BY <1>13, RecordsKept DEF StartReturns, state, callers
<1>14. ASSUME Awaited PROVE Records'
  BY <1>14, RecordsKept DEF Awaited, state, callers
<1>15. ASSUME FinishUnstarted PROVE Records'
  <2>1. CASE status[job] = "Downloading"
    <3>1. FinishItem(job, "Cancelled") /\ rpc = "unstarted" /\ UNCHANGED <<pc, picked>>
      BY <1>15, <2>1 DEF FinishUnstarted, callers
    <3>2. job \in Items
      BY <3>1 DEF Jobs, Working
    <3>3. QED
      BY <2>1, <3>1, <3>2, RecordsFinish DEF Outcomes
  <2>2. CASE status[job] # "Downloading"
    BY <1>15, <2>2, RecordsKept DEF FinishUnstarted, callers
  <2>3. QED
    BY <2>1, <2>2
<1>16. ASSUME ManualCall PROVE Records'
  BY <1>16, RecordsKept DEF ManualCall, state, callers
<1>17. ASSUME ManualAdmit PROVE Records'
  BY <1>17, RecordsKept DEF ManualAdmit, state, callers
<1>18. ASSUME ManualStart PROVE Records'
  BY <1>18, RecordsKept DEF ManualStart, state, callers
<1>19. ASSUME ManualInstall PROVE Records'
  BY <1>19, RecordsKept DEF ManualInstall, state, callers
<1>20. ASSUME ManualReturns PROVE Records'
  BY <1>20, RecordsKept DEF ManualReturns, state, callers
<1>21. ASSUME WindowOpens PROVE Records'
  BY <1>21, RecordsKept DEF WindowOpens, state, callers
<1>22. ASSUME NEW c \in Commanders, StartQueue(c) PROVE Records'
  BY <1>22, RecordsKept DEF StartQueue, Goto, state, callers
<1>23. ASSUME NEW c \in Commanders, ClearFinished(c) PROVE Records'
  <2>1. \A k \in Items : status'[k] # "none" =>
          records'[k] = IF status'[k] \in Terminal THEN 1 ELSE 0
    BY <1>23 DEF ClearFinished, Drop, Records, RecordedOnce, QueueTypes, Terminal
  <2>2. ASSUME NEW d \in Callers, pc'[d] = "apply", NEW k \in picked[d]
        PROVE  k \in Items /\ status'[k] \in {"Pending", "none"}
    <3>1. k \in Items /\ pc[d] = "apply" /\ status[k] \in {"Pending", "none"}
      BY <1>23, <2>2 DEF ClearFinished, Records, CallerTypes, callers
    <3>2. QED
      BY <1>23, <2>2, <3>1 DEF ClearFinished, Drop, QueueTypes, Terminal
  <2>3. QED
    BY <1>23, <2>1, <2>2, RecordsItems DEF ClearFinished, callers
<1>24. ASSUME NEW c \in Commanders, CancelQueueCall(c) PROVE Records'
  <2>1. \A d \in Callers : pc'[d] = "apply" => pc[d] = "apply" /\ picked'[d] = picked[d]
    BY <1>24, CallerKinds DEF CancelQueueCall, Goto, CallerTypes
  <2>2. QED
    BY <1>24, <2>1, RecordsKept DEF CancelQueueCall, state
<1>25. ASSUME NEW c \in Commanders, ClearQueueCall(c) PROVE Records'
  <2>1. \A d \in Callers : pc'[d] = "apply" => pc[d] = "apply" /\ picked'[d] = picked[d]
    BY <1>25, CallerKinds DEF ClearQueueCall, Goto, CallerTypes
  <2>2. QED
    BY <1>25, <2>1, RecordsKept DEF ClearQueueCall, state
<1>26. ASSUME NEW c \in Commanders, NEW i \in Items, AddToQueue(c, i) PROVE Records'
  <2>1. \A k \in Items : status'[k] # "none" =>
          records'[k] = IF status'[k] \in Terminal THEN 1 ELSE 0
    BY <1>26 DEF AddToQueue, NewAttempt, Records, RecordedOnce, QueueTypes, Terminal
  <2>2. ASSUME NEW d \in Callers, pc'[d] = "apply", NEW k \in picked[d]
        PROVE  k \in Items /\ status'[k] \in {"Pending", "none"}
    <3>1. k \in Items /\ pc[d] = "apply" /\ status[k] \in {"Pending", "none"}
      BY <1>26, <2>2 DEF AddToQueue, Records, CallerTypes, callers
    <3>2. QED
      BY <1>26, <2>2, <3>1 DEF AddToQueue, NewAttempt, QueueTypes, Terminal
  <2>3. QED
    BY <1>26, <2>1, <2>2, RecordsItems DEF AddToQueue, callers
<1>27. ASSUME NEW c \in Stoppers, StopCall(c) PROVE Records'
  <2>1. pc'[c] = "cancel session" /\ UNCHANGED <<status, records>>
        /\ \A d \in Callers \ {c} : pc'[d] = pc[d] /\ picked'[d] = picked[d]
    BY <1>27, CallerKinds DEF StopCall, Goto, CallerTypes
  <2>2. QED
    BY <2>1, RecordsKept
<1>28. ASSUME NEW c \in Callers, CancelSession(c) PROVE Records'
  <2>1. \A d \in Callers : pc'[d] = "apply" => pc[d] = "apply" /\ picked'[d] = picked[d]
    BY <1>28, CallerKinds DEF CancelSession, Goto, CallerTypes
  <2>2. QED
    BY <1>28, <2>1, RecordsKept DEF CancelSession, state
<1>29. ASSUME NEW c \in Callers, CancelWaited(c) PROVE Records'
  <2>1. \A d \in Callers : pc'[d] = "apply" => pc[d] = "apply" /\ picked'[d] = picked[d]
    BY <1>29, CallerKinds DEF CancelWaited, Goto, CallerTypes
  <2>2. QED
    BY <1>29, <2>1, RecordsKept DEF CancelWaited, state
<1>30. ASSUME NEW c \in Callers, PickPending(c) PROVE Records'
  <2>1. UNCHANGED <<status, records>> /\ picked'[c] = Pending
        /\ \A d \in Callers \ {c} : pc'[d] = pc[d] /\ picked'[d] = picked[d]
    BY <1>30 DEF PickPending, Goto, CallerTypes, state
  <2>2. QED
    BY <2>1 DEF Records, RecordedOnce, Pending
<1>31. ASSUME NEW c \in Callers, ApplyCancelled(c) PROVE Records'
  <2>0. /\ pc'[c] = "idle"
        /\ \A d \in Callers \ {c} : pc'[d] = pc[d] /\ picked'[d] = picked[d]
    BY <1>31 DEF ApplyCancelled, Returns, Goto, CallerTypes
  <2>1. \A k \in Items : status'[k] # "none" =>
          records'[k] = IF status'[k] \in Terminal THEN 1 ELSE 0
    BY <1>31 DEF ApplyCancelled, Pending, Records, RecordedOnce, QueueTypes, Terminal
  <2>2. ASSUME NEW d \in Callers, pc'[d] = "apply", NEW k \in picked[d]
        PROVE  k \in Items /\ status'[k] \in {"Pending", "none"}
    <3>1. k \in Items /\ pc[d] = "apply" /\ status[k] \in {"Pending", "none"}
      BY <2>0, <2>2 DEF Records, CallerTypes
    <3>2. d = c
      BY <1>31, <3>1 DEF ApplyCancelled, Locks, Holding
    <3>3. QED
      BY <2>0, <2>2, <3>2
  <2>3. QED
    BY <2>0, <2>1, <2>2, RecordsItems
<1>32. ASSUME NEW c \in Callers, ClearItems(c) PROVE Records'
  <2>0. /\ pc'[c] = "idle"
        /\ \A d \in Callers \ {c} : pc'[d] = pc[d] /\ picked'[d] = picked[d]
    BY <1>32 DEF ClearItems, Returns, Goto, CallerTypes
  <2>1. \A k \in Items : status'[k] # "none" =>
          records'[k] = IF status'[k] \in Terminal THEN 1 ELSE 0
    BY <1>32 DEF ClearItems, Drop, Records, RecordedOnce, QueueTypes, Terminal
  <2>2. ASSUME NEW d \in Callers, pc'[d] = "apply", NEW k \in picked[d]
        PROVE  k \in Items /\ status'[k] \in {"Pending", "none"}
    <3>1. k \in Items /\ pc[d] = "apply" /\ status[k] \in {"Pending", "none"}
      BY <2>0, <2>2 DEF Records, CallerTypes
    <3>2. QED
      BY <1>32, <2>2, <3>1 DEF ClearItems, Drop, QueueTypes, Terminal
  <2>3. QED
    BY <2>0, <2>1, <2>2, RecordsItems
<1>33. ASSUME NEW c \in Callers, StopReturns(c) PROVE Records'
  <2>0. /\ pc'[c] = "idle"
        /\ \A d \in Callers \ {c} : pc'[d] = pc[d] /\ picked'[d] = picked[d]
    BY <1>33 DEF StopReturns, Returns, Goto, CallerTypes
  <2>1. \A k \in Items : status'[k] # "none" =>
          records'[k] = IF status'[k] \in Terminal THEN 1 ELSE 0
    BY <1>33 DEF StopReturns, NewAttempt, Records, RecordedOnce, QueueTypes, Terminal
  <2>2. ASSUME NEW d \in Callers, pc'[d] = "apply", NEW k \in picked[d]
        PROVE  k \in Items /\ status'[k] \in {"Pending", "none"}
    <3>1. k \in Items /\ pc[d] = "apply" /\ status[k] \in {"Pending", "none"}
      BY <2>0, <2>2 DEF Records, CallerTypes
    <3>2. QED
      BY <1>33, <2>2, <3>1 DEF StopReturns, NewAttempt, QueueTypes, Terminal
  <2>3. QED
    BY <2>0, <2>1, <2>2, RecordsItems
<1>34. ASSUME NEW s \in Sessions, SessionCompletes(s) PROVE Records'
  BY <1>34, RecordsKept DEF SessionCompletes, state, callers
<1>35. ASSUME NEW s \in Sessions, Callback(s) PROVE Records'
  <2>1. CASE itemOf[s] = NoItem
    BY <1>35, <2>1, RecordsKept DEF Callback, state, callers
  <2>2. CASE itemOf[s] # NoItem
    <3>1. /\ FinishItem(itemOf[s], outcome[s]) /\ phase[s] = "finalizing"
          /\ UNCHANGED <<pc, picked>>
      BY <1>35, <2>2 DEF Callback, Deliver, callers
    <3>2. itemOf[s] \in Items /\ outcome[s] \in Outcomes \cup {"none"}
      BY <2>2 DEF Types, SlotTypeOK, RunnerTypes
    <3>3. Carries(s)
      BY <2>2, <3>1 DEF Carries
    <3>4. status[itemOf[s]] \in {"Downloading", "none"}
      BY <3>3 DEF Carriers, Jobs
    <3>5. QED
      BY <3>1, <3>2, <3>4, RecordsFinish
  <2>3. QED
    BY <2>1, <2>2
<1>36. ASSUME NEW s \in Sessions, CallbackReturns(s) PROVE Records'
  BY <1>36, RecordsKept DEF CallbackReturns, state, callers
<1>37. ASSUME NEW s \in Sessions, CancelDownload(s) PROVE Records'
  BY <1>37, RecordsKept DEF CancelDownload, state, callers
<1>38. CASE UNCHANGED vars
  BY <1>38, RecordsKept DEF vars, state, callers
<1>39. QED
  BY <1>1, <1>2, <1>3, <1>4, <1>5, <1>6, <1>7, <1>8, <1>9, <1>10, <1>11, <1>12, <1>13,
     <1>14, <1>15, <1>16, <1>17, <1>18, <1>19, <1>20, <1>21, <1>22, <1>23, <1>24, <1>25,
     <1>26, <1>27, <1>28, <1>29, <1>30, <1>31, <1>32, <1>33, <1>34, <1>35, <1>36, <1>37,
     <1>38
  DEF Next, ItemCommand, RunnerStep, ManualStep, Command, CallerStep, SlotStep

-----------------------------------------------------------------------------
(* The list                                                                *)

\* Lists are the finite sequences of ids without repetition.
LEMMA ListsAreSequences ==
  ASSUME NEW s \in Lists
  PROVE  /\ s \in Seq(Items) /\ IsInjective(s) /\ Len(s) \in Nat /\ DOMAIN s = 1 .. Len(s)
         /\ \A i : Contains(s, i) <=> i \in ToSet(s)
<1>1. PICK n \in 0 .. Cardinality(Items) : s \in [1 .. n -> Items]
  BY DEF Lists
<1>2. n \in Nat /\ IsInjective(s)
  BY <1>1 DEF Lists
<1>3. s \in Seq(Items) /\ Len(s) = n
  BY <1>1, <1>2
<1>4. QED
  BY <1>1, <1>2, <1>3 DEF Contains, ToSet

\* A step that leaves the list, and with it who is in it.
LEMMA ListSame ==
  ASSUME ListOK, items' = items,
         \A i \in Items : status'[i] = "none" <=> status[i] = "none"
  PROVE  ListOK'
<1>1. (items \in Seq(Items) /\ IsInjective(items))'
  BY DEF ListOK
<1>2. ASSUME NEW i \in Items PROVE (Contains(items, i) <=> status[i] # "none")'
  BY <1>2 DEF ListOK
<1>3. QED
  BY <1>1, <1>2 DEF ListOK

\* Drop takes the items it names from the list and from the statuses.
LEMMA ListDrop ==
  ASSUME ListOK, QueueTypes, NEW is, Drop(is)
  PROVE  ListOK'
<1>1. items' \in Lists /\ ToSet(items') = ToSet(items) \ is
  BY DEF Drop
<1>2. items' \in Seq(Items) /\ IsInjective(items')
  BY <1>1, ListsAreSequences
<1>3. ASSUME NEW i \in Items PROVE Contains(items', i) <=> status'[i] # "none"
  <2>1. Contains(items', i) <=> i \in ToSet(items) /\ i \notin is
    BY <1>1, ListsAreSequences
  <2>2. i \in ToSet(items) <=> Contains(items, i)
    BY DEF ListOK, Contains, ToSet
  <2>3. Contains(items, i) <=> status[i] # "none"
    BY DEF ListOK
  <2>4. status'[i] = IF i \in is THEN "none" ELSE status[i]
    BY DEF Drop
  <2>5. QED
    BY <2>1, <2>2, <2>3, <2>4
<1>4. QED
  BY <1>2, <1>3 DEF ListOK

\* finish_item leaves the item where it is.
LEMMA ListFinish ==
  ASSUME ListOK, QueueTypes, NEW i, NEW oc \in Outcomes, FinishItem(i, oc)
  PROVE  ListOK'
<1>1. items' = items /\ status' = [status EXCEPT ![i] = IF @ = "none" THEN @ ELSE StatusOf(oc)]
  BY DEF FinishItem
<1>2. StatusOf(oc) # "none"
  BY DEF StatusOf, Outcomes
<1>3. \A k \in Items : status'[k] = "none" <=> status[k] = "none"
  BY <1>1, <1>2 DEF QueueTypes
<1>4. QED
  BY <1>1, <1>3, ListSame

\* The slot is used only as SessionSlot says: a session is installed in an empty
\* slot, cancelled, completed, delivered and finished, one step at a time.
LEMMA SlotUsed ==
  ASSUME [Next]_vars
  PROVE  [SlotNext]_slotVars
<1> USE DEF SlotNext
<1>1. ASSUME Reorder PROVE [SlotNext]_slotVars
  BY <1>1 DEF Reorder
<1>2. ASSUME NEW i \in Items, RemoveFromQueue(i) PROVE [SlotNext]_slotVars
  BY <1>2 DEF RemoveFromQueue
<1>3. ASSUME NEW i \in Items, RetryItem(i) PROVE [SlotNext]_slotVars
  BY <1>3 DEF RetryItem
<1>4. ASSUME Claim PROVE [SlotNext]_slotVars
  BY <1>4 DEF Claim
<1>5. ASSUME ClaimNothing PROVE [SlotNext]_slotVars
  BY <1>5 DEF ClaimNothing
<1>6. ASSUME RunnerExit PROVE [SlotNext]_slotVars
  BY <1>6 DEF RunnerExit
<1>7. ASSUME WindowCheck PROVE [SlotNext]_slotVars
  BY <1>7 DEF WindowCheck
<1>8. ASSUME CheckWanted PROVE [SlotNext]_slotVars
  BY <1>8 DEF CheckWanted
<1>9. ASSUME CheckUnwanted PROVE [SlotNext]_slotVars
  BY <1>9 DEF CheckUnwanted
<1>10. ASSUME StartSession PROVE [SlotNext]_slotVars
  <2>1. PICK s \in Sessions : Install(s, "Queue")
    BY <1>10 DEF StartSession
  <2>2. QED
    BY <2>1 DEF Owners
<1>11. ASSUME StartConflict PROVE [SlotNext]_slotVars
  BY <1>11 DEF StartConflict
<1>12. ASSUME SetupEnds PROVE [SlotNext]_slotVars
  BY <1>12 DEF SetupEnds
<1>13. ASSUME StartReturns PROVE [SlotNext]_slotVars
  BY <1>13 DEF StartReturns
<1>14. ASSUME Awaited PROVE [SlotNext]_slotVars
  BY <1>14 DEF Awaited
<1>15. ASSUME FinishUnstarted PROVE [SlotNext]_slotVars
  BY <1>15 DEF FinishUnstarted
<1>16. ASSUME ManualCall PROVE [SlotNext]_slotVars
  BY <1>16 DEF ManualCall
<1>17. ASSUME ManualAdmit PROVE [SlotNext]_slotVars
  BY <1>17 DEF ManualAdmit
<1>18. ASSUME ManualStart PROVE [SlotNext]_slotVars
  BY <1>18 DEF ManualStart, Active
<1>19. ASSUME ManualInstall PROVE [SlotNext]_slotVars
  <2>1. PICK s \in Sessions : Install(s, "Manual")
    BY <1>19 DEF ManualInstall
  <2>2. QED
    BY <2>1 DEF Owners
<1>20. ASSUME ManualReturns PROVE [SlotNext]_slotVars
  BY <1>20 DEF ManualReturns
<1>21. ASSUME WindowOpens PROVE [SlotNext]_slotVars
  BY <1>21 DEF WindowOpens
<1>22. ASSUME NEW c \in Commanders, StartQueue(c) PROVE [SlotNext]_slotVars
  BY <1>22 DEF StartQueue
<1>23. ASSUME NEW c \in Commanders, ClearFinished(c) PROVE [SlotNext]_slotVars
  BY <1>23 DEF ClearFinished
<1>24. ASSUME NEW c \in Commanders, CancelQueueCall(c) PROVE [SlotNext]_slotVars
  BY <1>24 DEF CancelQueueCall
<1>25. ASSUME NEW c \in Commanders, ClearQueueCall(c) PROVE [SlotNext]_slotVars
  BY <1>25 DEF ClearQueueCall
<1>26. ASSUME NEW c \in Commanders, NEW i \in Items, AddToQueue(c, i) PROVE [SlotNext]_slotVars
  BY <1>26 DEF AddToQueue
<1>27. ASSUME NEW c \in Stoppers, StopCall(c) PROVE [SlotNext]_slotVars
  BY <1>27 DEF StopCall
<1>28. ASSUME NEW c \in Callers, CancelSession(c) PROVE [SlotNext]_slotVars
  BY <1>28 DEF CancelSession, Active
<1>29. ASSUME NEW c \in Callers, CancelWaited(c) PROVE [SlotNext]_slotVars
  BY <1>29 DEF CancelWaited
<1>30. ASSUME NEW c \in Callers, PickPending(c) PROVE [SlotNext]_slotVars
  BY <1>30 DEF PickPending
<1>31. ASSUME NEW c \in Callers, ApplyCancelled(c) PROVE [SlotNext]_slotVars
  BY <1>31 DEF ApplyCancelled
<1>32. ASSUME NEW c \in Callers, ClearItems(c) PROVE [SlotNext]_slotVars
  BY <1>32 DEF ClearItems
<1>33. ASSUME NEW c \in Callers, StopReturns(c) PROVE [SlotNext]_slotVars
  BY <1>33 DEF StopReturns
<1>34. ASSUME NEW s \in Sessions, SessionCompletes(s) PROVE [SlotNext]_slotVars
  BY <1>34 DEF SessionCompletes
<1>35. ASSUME NEW s \in Sessions, Callback(s) PROVE [SlotNext]_slotVars
  BY <1>35 DEF Callback
<1>36. ASSUME NEW s \in Sessions, CallbackReturns(s) PROVE [SlotNext]_slotVars
  BY <1>36 DEF CallbackReturns
<1>37. ASSUME NEW s \in Sessions, CancelDownload(s) PROVE [SlotNext]_slotVars
  BY <1>37 DEF CancelDownload
<1>38. CASE UNCHANGED vars
  BY <1>38 DEF vars
<1>39. QED
  BY <1>1, <1>2, <1>3, <1>4, <1>5, <1>6, <1>7, <1>8, <1>9, <1>10, <1>11, <1>12, <1>13,
     <1>14, <1>15, <1>16, <1>17, <1>18, <1>19, <1>20, <1>21, <1>22, <1>23, <1>24,
     <1>25, <1>26, <1>27, <1>28, <1>29, <1>30, <1>31, <1>32, <1>33, <1>34, <1>35,
     <1>36, <1>37, <1>38
  DEF Next, ItemCommand, RunnerStep, ManualStep, Command, CallerStep, SlotStep

\* What a completed session says is an outcome.
LEMMA OutcomesStep ==
  ASSUME SlotTypeOK, Listed, [SlotNext]_slotVars
  PROVE  \A s \in Sessions : phase'[s] = "finalizing" => outcome'[s] \in Outcomes
<1> USE DEF SlotTypeOK, Listed
<1>1. ASSUME NEW s \in Sessions, NEW o \in Owners, Install(s, o)
      PROVE  \A r \in Sessions : phase'[r] = "finalizing" => outcome'[r] \in Outcomes
  BY <1>1 DEF Install
<1>2. ASSUME NEW s \in Sessions, RequestCancel(s)
      PROVE  \A r \in Sessions : phase'[r] = "finalizing" => outcome'[r] \in Outcomes
  BY <1>2 DEF RequestCancel
<1>3. ASSUME NEW s \in Sessions, NEW oc \in Outcomes, Complete(s, oc)
      PROVE  \A r \in Sessions : phase'[r] = "finalizing" => outcome'[r] \in Outcomes
  BY <1>3 DEF Complete
<1>4. ASSUME NEW s \in Sessions, Deliver(s)
      PROVE  \A r \in Sessions : phase'[r] = "finalizing" => outcome'[r] \in Outcomes
  BY <1>4 DEF Deliver
<1>5. ASSUME NEW s \in Sessions, Finish(s)
      PROVE  \A r \in Sessions : phase'[r] = "finalizing" => outcome'[r] \in Outcomes
  BY <1>5 DEF Finish
<1>6. CASE UNCHANGED slotVars
  BY <1>6 DEF slotVars
<1>7. QED
  BY <1>1, <1>2, <1>3, <1>4, <1>5, <1>6 DEF SlotNext

\* No step puts an item into the list twice or forgets its status.
LEMMA ListStep ==
  ASSUME Types, Listed, [Next]_vars
  PROVE  ListOK'
<1>0. QueueTypes /\ ListOK
  BY DEF Types, Listed
<1> USE <1>0
<1> USE DEF slotVars, state, runner, callers, held
<1>1. ASSUME Reorder PROVE ListOK'
  <2>1. PICK p, q \in 1 .. Len(items) :
          /\ items' = [items EXCEPT ![p] = items[q], ![q] = items[p]]
          /\ status' = status
    BY <1>1 DEF Reorder
  <2>2. items \in Seq(Items) /\ IsInjective(items)
    BY DEF ListOK
  <2>3. Len(items) \in Nat /\ DOMAIN items = 1 .. Len(items)
    BY <2>2
  <2>4. /\ items' \in [1 .. Len(items) -> Items]
        /\ \A n \in 1 .. Len(items) :
             items'[n] = IF n = q THEN items[p] ELSE IF n = p THEN items[q] ELSE items[n]
    BY <2>1, <2>2, <2>3
  <2>5. items' \in Seq(Items) /\ Len(items') = Len(items) /\ DOMAIN items' = 1 .. Len(items)
    BY <2>3, <2>4
  <2>6. IsInjective(items')
    <3>1. ASSUME NEW a \in 1 .. Len(items), NEW b \in 1 .. Len(items), items'[a] = items'[b]
          PROVE  a = b
      BY <2>2, <2>3, <2>4, <3>1 DEF IsInjective
    <3>2. QED
      BY <2>5, <3>1 DEF IsInjective
  <2>7. ASSUME NEW i \in Items PROVE Contains(items', i) <=> Contains(items, i)
    <3>1. ASSUME NEW n \in 1 .. Len(items), items'[n] = i PROVE Contains(items, i)
      BY <2>4, <3>1 DEF Contains
    <3>2. ASSUME NEW n \in 1 .. Len(items), items[n] = i
          PROVE  \E k \in 1 .. Len(items) : items'[k] = i
      <4>1. CASE n = p
        BY <2>4, <3>2, <4>1
      <4>2. CASE n = q
        BY <2>4, <3>2, <4>2
      <4>3. CASE n # p /\ n # q
        BY <2>4, <3>2, <4>3
      <4>4. QED
        BY <4>1, <4>2, <4>3
    <3>3. QED
      BY <2>5, <3>1, <3>2 DEF Contains
  <2>8. QED
    BY <2>1, <2>5, <2>6, <2>7 DEF ListOK
<1>2. ASSUME NEW i \in Items, RemoveFromQueue(i) PROVE ListOK'
  BY <1>2, ListDrop DEF RemoveFromQueue
<1>3. ASSUME NEW i \in Items, RetryItem(i) PROVE ListOK'
  <2>1. items' = items /\ \A k \in Items : status'[k] = "none" <=> status[k] = "none"
    BY <1>3 DEF RetryItem, NewAttempt
  <2>2. QED
    BY <2>1, ListSame
<1>4. ASSUME Claim PROVE ListOK'
  <2>1. PICK i \in Items : status[i] = "Pending" /\ status' = [status EXCEPT ![i] = "Downloading"]
    BY <1>4, ClaimEffect
  <2>2. items' = items /\ \A k \in Items : status'[k] = "none" <=> status[k] = "none"
    BY <1>4, <2>1 DEF Claim, QueueTypes
  <2>3. QED
    BY <2>2, ListSame
<1>5. ASSUME ClaimNothing PROVE ListOK'
  BY <1>5, ListSame DEF ClaimNothing
<1>6. ASSUME RunnerExit PROVE ListOK'
  BY <1>6, ListSame DEF RunnerExit
<1>7. ASSUME WindowCheck PROVE ListOK'
  <2>1. CASE window
    BY <1>7, <2>1, ListSame DEF WindowCheck
  <2>2. CASE ~window
    BY <1>7, <2>2, ListFinish DEF WindowCheck, Outcomes
  <2>3. QED
    BY <2>1, <2>2
<1>8. ASSUME CheckWanted PROVE ListOK'
  BY <1>8, ListSame DEF CheckWanted
<1>9. ASSUME CheckUnwanted PROVE ListOK'
  BY <1>9, ListSame DEF CheckUnwanted
<1>10. ASSUME StartSession PROVE ListOK'
  BY <1>10, ListSame DEF StartSession
<1>11. ASSUME StartConflict PROVE ListOK'
  BY <1>11, ListSame DEF StartConflict
<1>12. ASSUME SetupEnds PROVE ListOK'
  BY <1>12, ListSame DEF SetupEnds
<1>13. ASSUME StartReturns PROVE ListOK'
  BY <1>13, ListSame DEF StartReturns
<1>14. ASSUME Awaited PROVE ListOK'
  BY <1>14, ListSame DEF Awaited
<1>15. ASSUME FinishUnstarted PROVE ListOK'
  <2>1. CASE status[job] = "Downloading"
    BY <1>15, <2>1, ListFinish DEF FinishUnstarted, Outcomes
  <2>2. CASE status[job] # "Downloading"
    BY <1>15, <2>2, ListSame DEF FinishUnstarted
  <2>3. QED
    BY <2>1, <2>2
<1>16. ASSUME ManualCall PROVE ListOK'
  BY <1>16, ListSame DEF ManualCall
<1>17. ASSUME ManualAdmit PROVE ListOK'
  BY <1>17, ListSame DEF ManualAdmit
<1>18. ASSUME ManualStart PROVE ListOK'
  BY <1>18, ListSame DEF ManualStart
<1>19. ASSUME ManualInstall PROVE ListOK'
  BY <1>19, ListSame DEF ManualInstall
<1>20. ASSUME ManualReturns PROVE ListOK'
  BY <1>20, ListSame DEF ManualReturns
<1>21. ASSUME WindowOpens PROVE ListOK'
  BY <1>21, ListSame DEF WindowOpens
<1>22. ASSUME NEW c \in Commanders, StartQueue(c) PROVE ListOK'
  BY <1>22, ListSame DEF StartQueue
<1>23. ASSUME NEW c \in Commanders, ClearFinished(c) PROVE ListOK'
  BY <1>23, ListDrop DEF ClearFinished
<1>24. ASSUME NEW c \in Commanders, CancelQueueCall(c) PROVE ListOK'
  BY <1>24, ListSame DEF CancelQueueCall, Goto
<1>25. ASSUME NEW c \in Commanders, ClearQueueCall(c) PROVE ListOK'
  BY <1>25, ListSame DEF ClearQueueCall, Goto
<1>26. ASSUME NEW c \in Commanders, NEW i \in Items, AddToQueue(c, i) PROVE ListOK'
  <2>1. /\ items' = Append(items, i) /\ status[i] = "none"
        /\ status' = [k \in Items |-> IF k \in {i} THEN "Pending" ELSE status[k]]
    BY <1>26 DEF AddToQueue, NewAttempt
  <2>2. items \in Seq(Items) /\ IsInjective(items) /\ ~Contains(items, i)
    BY <2>1 DEF ListOK
  <2>3. Len(items) \in Nat /\ DOMAIN items = 1 .. Len(items)
    BY <2>2
  <2>4. /\ items' \in Seq(Items) /\ Len(items') = Len(items) + 1
        /\ \A n \in 1 .. Len(items) + 1 :
             items'[n] = IF n <= Len(items) THEN items[n] ELSE i
    BY <2>1, <2>2, <2>3
  <2>5. DOMAIN items' = 1 .. Len(items) + 1
    BY <2>4
  <2>6. IsInjective(items')
    <3>1. ASSUME NEW a \in 1 .. Len(items) + 1, NEW b \in 1 .. Len(items) + 1,
                 items'[a] = items'[b]
          PROVE  a = b
      <4>1. CASE a <= Len(items) /\ b <= Len(items)
        BY <2>2, <2>3, <2>4, <3>1, <4>1 DEF IsInjective
      <4>2. CASE a <= Len(items) /\ ~(b <= Len(items))
        BY <2>2, <2>3, <2>4, <3>1, <4>2 DEF Contains
      <4>3. CASE ~(a <= Len(items)) /\ b <= Len(items)
        BY <2>2, <2>3, <2>4, <3>1, <4>3 DEF Contains
      <4>4. CASE ~(a <= Len(items)) /\ ~(b <= Len(items))
        BY <2>3, <4>4
      <4>5. QED
        BY <4>1, <4>2, <4>3, <4>4
    <3>2. QED
      BY <2>5, <3>1 DEF IsInjective
  <2>7. ASSUME NEW k \in Items PROVE Contains(items', k) <=> Contains(items, k) \/ k = i
    <3>1. items'[Len(items) + 1] = i
      BY <2>3, <2>4
    <3>2. QED
      BY <2>3, <2>4, <3>1 DEF Contains
  <2>8. \A k \in Items : (Contains(items, k) \/ k = i) <=> status'[k] # "none"
    BY <2>1 DEF ListOK
  <2>9. QED
    BY <2>4, <2>6, <2>7, <2>8 DEF ListOK
<1>27. ASSUME NEW c \in Stoppers, StopCall(c) PROVE ListOK'
  BY <1>27, ListSame DEF StopCall, Goto
<1>28. ASSUME NEW c \in Callers, CancelSession(c) PROVE ListOK'
  BY <1>28, ListSame DEF CancelSession, Goto
<1>29. ASSUME NEW c \in Callers, CancelWaited(c) PROVE ListOK'
  BY <1>29, ListSame DEF CancelWaited, Goto
<1>30. ASSUME NEW c \in Callers, PickPending(c) PROVE ListOK'
  BY <1>30, ListSame DEF PickPending, Goto
<1>31. ASSUME NEW c \in Callers, ApplyCancelled(c) PROVE ListOK'
  <2>1. items' = items /\ \A k \in Items : status'[k] = "none" <=> status[k] = "none"
    BY <1>31 DEF ApplyCancelled, Pending, Goto, Returns
  <2>2. QED
    BY <2>1, ListSame
<1>32. ASSUME NEW c \in Callers, ClearItems(c) PROVE ListOK'
  BY <1>32, ListDrop DEF ClearItems
<1>33. ASSUME NEW c \in Callers, StopReturns(c) PROVE ListOK'
  <2>1. items' = items /\ \A k \in Items : status'[k] = "none" <=> status[k] = "none"
    BY <1>33 DEF StopReturns, NewAttempt, Goto, Returns
  <2>2. QED
    BY <2>1, ListSame
<1>34. ASSUME NEW s \in Sessions, SessionCompletes(s) PROVE ListOK'
  BY <1>34, ListSame DEF SessionCompletes
<1>35. ASSUME NEW s \in Sessions, Callback(s) PROVE ListOK'
  <2>1. phase[s] = "finalizing" => outcome[s] \in Outcomes
    BY DEF Listed
  <2>2. CASE itemOf[s] = NoItem
    BY <1>35, <2>2, ListSame DEF Callback
  <2>3. CASE itemOf[s] # NoItem
    BY <1>35, <2>1, <2>3, ListFinish DEF Callback, Deliver
  <2>4. QED
    BY <2>2, <2>3
<1>36. ASSUME NEW s \in Sessions, CallbackReturns(s) PROVE ListOK'
  BY <1>36, ListSame DEF CallbackReturns
<1>37. ASSUME NEW s \in Sessions, CancelDownload(s) PROVE ListOK'
  BY <1>37, ListSame DEF CancelDownload
<1>38. CASE UNCHANGED vars
  BY <1>38, ListSame DEF vars
<1>39. QED
  BY <1>1, <1>2, <1>3, <1>4, <1>5, <1>6, <1>7, <1>8, <1>9, <1>10, <1>11, <1>12, <1>13,
     <1>14, <1>15, <1>16, <1>17, <1>18, <1>19, <1>20, <1>21, <1>22, <1>23, <1>24,
     <1>25, <1>26, <1>27, <1>28, <1>29, <1>30, <1>31, <1>32, <1>33, <1>34, <1>35,
     <1>36, <1>37, <1>38
  DEF Next, ItemCommand, RunnerStep, ManualStep, Command, CallerStep, SlotStep

-----------------------------------------------------------------------------
(* The invariant                                                           *)

\* The invariant as a whole: initially, in every step, and so for ever.
LEMMA InitInv == Init => IInv
<1> SUFFICES ASSUME Init PROVE IInv
  OBVIOUS
<1>1. SlotTypeOK
  BY DEF Init, SlotInit, SlotTypeOK, Phases, Owners, Outcomes
<1>2. QueueTypes
  BY DEF Init, QueueTypes, Terminal
<1>3. RunnerTypes
  BY DEF Init, RunnerTypes
<1>4. CallerTypes
  <2>1. MaxCommands \in Nat
    BY QueueAssumption
  <2>2. QED
    BY <2>1 DEF Init, CallerTypes
<1>5. Locks
  BY CallerKinds DEF Init, Locks, Holding, Starting
<1>6. Active = {} /\ \A s \in Sessions : ~Carries(s)
  BY DEF Init, SlotInit, Carries, Active
<1>7. Carriers
  BY <1>6 DEF Init, Carriers, Carrying
<1>8. Jobs
  BY <1>6 DEF Init, Jobs, Working, DownloadingIsWorkedOn, RunHasRunner
<1>9. Cancels
  <2>1. QueueActive = {}
    BY <1>6 DEF QueueActive
  <2>2. QED
    BY <2>1 DEF Init, Cancels
<1>10. Records
  BY DEF Init, Records, RecordedOnce, Terminal
<1>11. Listed
  <2>1. items \in Lists /\ status = [i \in Items |-> IF Contains(items, i) THEN "Pending" ELSE "none"]
    BY DEF Init
  <2>2. \A i \in Items : Contains(items, i) <=> status[i] # "none"
    BY <2>1
  <2>3. ListOK
    BY <2>1, <2>2, ListsAreSequences DEF ListOK
  <2>4. \A s \in Sessions : phase[s] # "finalizing"
    BY DEF Init, SlotInit
  <2>5. QED
    BY <2>3, <2>4 DEF Listed
<1>12. QED
  BY <1>1, <1>2, <1>3, <1>4, <1>5, <1>7, <1>8, <1>9, <1>10, <1>11 DEF IInv, Types

\* Every step keeps IInv.
LEMMA StepInv ==
  ASSUME IInv, [Next]_vars
  PROVE  IInv'
<1>1. Types'
  BY SlotTypesStep, QueueTypesStep, RunnerTypesStep, CallerTypesStep DEF IInv, Types
<1>2. Listed'
  <2>1. ListOK'
    BY ListStep DEF IInv
  <2>2. \A s \in Sessions : phase'[s] = "finalizing" => outcome'[s] \in Outcomes
    BY SlotUsed, OutcomesStep DEF IInv, Types
  <2>3. QED
    BY <2>1, <2>2 DEF Listed
<1>3. QED
  BY <1>1, <1>2, LocksStep, CarriersStep, JobsStep, CancelsStep, RecordsStep DEF IInv

\* IInv holds in every reachable state.
LEMMA Invariant == Spec => []IInv
BY InitInv, StepInv, PTL DEF Spec

-----------------------------------------------------------------------------
(* Results                                                                 *)

\* Every variable keeps its type, and the list holds each id at most once and
\* exactly the ids that have a status, whatever is added, removed, cleared,
\* moved or finished meanwhile.
THEOREM TypesKept == Spec => []TypeOK
<1>1. IInv => TypeOK
  BY DEF IInv, Listed, TypeOK
<1>2. QED
  BY <1>1, Invariant, PTL

\* The runner, the manual command and all cancellers together use the session
\* slot only as SessionSlot allows, which is what DownloadSession implements.
THEOREM UsesSlot == Spec => SlotSafety
<1>1. Init => SlotInit
  BY DEF Init
<1>2. [Next]_vars => [SlotNext]_slotVars
  BY SlotUsed
<1>3. QED
  BY <1>1, <1>2, PTL DEF Spec, SlotSafety

\* Every attempt at an item has one activity record once it is over and none
\* before, whoever finishes, cancels, clears, removes or retries it, however
\* many commands and stops are at work.
THEOREM OnceRecorded == Spec => []RecordedOnce
<1>1. IInv => RecordedOnce
  BY DEF IInv, Records
<1>2. QED
  BY <1>1, Invariant, PTL

\* No item is shown as downloading that the runner does not work on, and no run
\* is left without a runner.
THEOREM WorkedOn == Spec => [](DownloadingIsWorkedOn /\ RunHasRunner)
<1>1. IInv => DownloadingIsWorkedOn /\ RunHasRunner
  BY DEF IInv, Jobs
<1>2. QED
  BY <1>1, Invariant, PTL

\* START_GUARD does what it is for: a cancelled queue holds no session and
\* starts none until its next run.
THEOREM CancelledHoldsNone == Spec => []CancelledQueueHoldsNoSession
<1>1. IInv => CancelledQueueHoldsNoSession
  BY DEF IInv, Cancels, QueueActive, CancelledQueueHoldsNoSession
<1>2. QED
  BY <1>1, Invariant, PTL

\* While one thread stops, nothing it waits for is started.
LEMMA StopsStep ==
  ASSUME \A c, d \in Stoppers : c = d, IInv, Stops, [Next]_vars
  PROVE  Stops'
<1>0. CallerTypes
  BY DEF IInv, Types
<1> USE <1>0 DEF Stops, CallerTypes, slotVars, state, runner, callers, held
<1>1. ASSUME Reorder PROVE Stops'
  BY <1>1, CallerKinds DEF Reorder
<1>2. ASSUME NEW i \in Items, RemoveFromQueue(i) PROVE Stops'
  BY <1>2, CallerKinds DEF RemoveFromQueue, Drop
<1>3. ASSUME NEW i \in Items, RetryItem(i) PROVE Stops'
  BY <1>3, CallerKinds DEF RetryItem, NewAttempt, Spend
<1>4. ASSUME Claim PROVE Stops'
  BY <1>4, CallerKinds DEF Claim
<1>5. ASSUME ClaimNothing PROVE Stops'
  BY <1>5, CallerKinds DEF ClaimNothing
<1>6. ASSUME RunnerExit PROVE Stops'
  BY <1>6, CallerKinds DEF RunnerExit
<1>7. ASSUME WindowCheck PROVE Stops'
  <2>1. (running' => running) /\ UNCHANGED stopping
    BY <1>7, FinishEffect DEF WindowCheck, Outcomes, IInv, Types, state
  <2>2. QED
    BY <1>7, <2>1 DEF WindowCheck
<1>8. ASSUME CheckWanted PROVE Stops'
  BY <1>8, CallerKinds DEF CheckWanted, StillWanted
<1>9. ASSUME CheckUnwanted PROVE Stops'
  BY <1>9, CallerKinds DEF CheckUnwanted, StillWanted
<1>10. ASSUME StartSession PROVE Stops'
  BY <1>10, CallerKinds DEF StartSession, NewSession, Install
<1>11. ASSUME StartConflict PROVE Stops'
  BY <1>11, CallerKinds DEF StartConflict
<1>12. ASSUME SetupEnds PROVE Stops'
  BY <1>12, CallerKinds DEF SetupEnds
<1>13. ASSUME StartReturns PROVE Stops'
  BY <1>13, CallerKinds DEF StartReturns
<1>14. ASSUME Awaited PROVE Stops'
  BY <1>14, CallerKinds DEF Awaited
<1>15. ASSUME FinishUnstarted PROVE Stops'
  <2>1. (running' => running) /\ UNCHANGED stopping
    BY <1>15, FinishEffect DEF FinishUnstarted, Outcomes, IInv, Types
  <2>2. QED
    BY <1>15, <2>1 DEF FinishUnstarted
<1>16. ASSUME ManualCall PROVE Stops'
  BY <1>16, CallerKinds DEF ManualCall, Spend
<1>17. ASSUME ManualAdmit PROVE Stops'
  BY <1>17, CallerKinds DEF ManualAdmit
<1>18. ASSUME ManualStart PROVE Stops'
  BY <1>18, CallerKinds DEF ManualStart, RequestCancel
<1>19. ASSUME ManualInstall PROVE Stops'
  BY <1>19, CallerKinds DEF ManualInstall, NewSession, Install
<1>20. ASSUME ManualReturns PROVE Stops'
  BY <1>20, CallerKinds DEF ManualReturns
<1>21. ASSUME WindowOpens PROVE Stops'
  BY <1>21, CallerKinds DEF WindowOpens
<1>22. ASSUME NEW c \in Commanders, StartQueue(c) PROVE Stops'
  BY <1>22, CallerKinds DEF StartQueue, Ready
<1>23. ASSUME NEW c \in Commanders, ClearFinished(c) PROVE Stops'
  BY <1>23, CallerKinds DEF ClearFinished, Drop, Ready
<1>24. ASSUME NEW c \in Commanders, CancelQueueCall(c) PROVE Stops'
  BY <1>24, CallerKinds DEF CancelQueueCall, Goto, Ready, Spend
<1>25. ASSUME NEW c \in Commanders, ClearQueueCall(c) PROVE Stops'
  BY <1>25, CallerKinds DEF ClearQueueCall, Goto, Ready, Spend
<1>26. ASSUME NEW c \in Commanders, NEW i \in Items, AddToQueue(c, i) PROVE Stops'
  BY <1>26, CallerKinds DEF AddToQueue, NewAttempt, Ready, Spend
<1>27. ASSUME NEW c \in Stoppers, StopCall(c) PROVE Stops'
  BY <1>27, CallerKinds DEF StopCall, Goto, Spend
<1>28. ASSUME NEW c \in Callers, CancelSession(c) PROVE Stops'
  BY <1>28, CallerKinds DEF CancelSession, Goto, RequestCancel
<1>29. ASSUME NEW c \in Callers, CancelWaited(c) PROVE Stops'
  <2>1. UNCHANGED <<cmd, running, stopping>> /\ \A d \in Callers \ {c} : pc'[d] = pc[d]
    BY <1>29 DEF CancelWaited, Goto
  <2>2. pc'[c] = "stop wait" => cmd[c] = "stop"
    BY <1>29 DEF CancelWaited, Goto
  <2>3. QED
    BY <2>1, <2>2
<1>30. ASSUME NEW c \in Callers, PickPending(c) PROVE Stops'
  BY <1>30, CallerKinds DEF PickPending, Goto
<1>31. ASSUME NEW c \in Callers, ApplyCancelled(c) PROVE Stops'
  BY <1>31, CallerKinds DEF ApplyCancelled, Goto, Returns
<1>32. ASSUME NEW c \in Callers, ClearItems(c) PROVE Stops'
  BY <1>32, CallerKinds DEF ClearItems, Goto, Returns, Drop
<1>33. ASSUME NEW c \in Callers, StopReturns(c) PROVE Stops'
  <2>1. cmd[c] = "stop" /\ c \in Stoppers
    BY <1>33 DEF StopReturns
  <2>2. cmd'[c] = "none" /\ pc'[c] = "idle" /\ UNCHANGED running
        /\ \A d \in Callers \ {c} : pc'[d] = pc[d] /\ cmd'[d] = cmd[d]
    BY <1>33 DEF StopReturns, Returns, Goto
  <2>3. \A d \in Callers \ {c} : cmd[d] # "stop"
    BY <2>1
  <2>4. QED
    BY <2>2, <2>3
<1>34. ASSUME NEW s \in Sessions, SessionCompletes(s) PROVE Stops'
  BY <1>34, CallerKinds DEF SessionCompletes, Complete
<1>35. ASSUME NEW s \in Sessions, Callback(s) PROVE Stops'
  <2>1. (running' => running) /\ UNCHANGED stopping
    BY <1>35, FinishEffect DEF Callback, IInv, Types, SlotTypeOK, state
  <2>2. QED
    BY <1>35, <2>1 DEF Callback
<1>36. ASSUME NEW s \in Sessions, CallbackReturns(s) PROVE Stops'
  BY <1>36, CallerKinds DEF CallbackReturns, Finish
<1>37. ASSUME NEW s \in Sessions, CancelDownload(s) PROVE Stops'
  BY <1>37, CallerKinds DEF CancelDownload, RequestCancel
<1>38. CASE UNCHANGED vars
  BY <1>38 DEF vars, slotVars, state, runner, callers, held
<1>39. QED
  BY <1>1, <1>2, <1>3, <1>4, <1>5, <1>6, <1>7, <1>8, <1>9, <1>10, <1>11, <1>12, <1>13,
     <1>14, <1>15, <1>16, <1>17, <1>18, <1>19, <1>20, <1>21, <1>22, <1>23, <1>24, <1>25,
     <1>26, <1>27, <1>28, <1>29, <1>30, <1>31, <1>32, <1>33, <1>34, <1>35, <1>36, <1>37,
     <1>38
  DEF Next, ItemCommand, RunnerStep, ManualStep, Command, CallerStep, SlotStep

\* If one thread at a time runs stop(), it waits for the runner it found: nothing
\* in the queue waits for what will never come.
THEOREM NotStuck ==
  ASSUME \A c, d \in Stoppers : c = d
  PROVE  Spec => []NothingIsStuck
<1>1. Init => Stops
  BY DEF Init, Stops
<1>2. IInv /\ Stops /\ [Next]_vars => Stops'
  BY StopsStep
<1>3. IInv /\ Stops => NothingIsStuck
  BY CallerKinds DEF IInv, Jobs, Stops, NothingIsStuck, StopWaitsForOldRunner
<1>4. QED
  BY <1>1, <1>2, <1>3, Invariant, PTL DEF Spec
==============================================================================
