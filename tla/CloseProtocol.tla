---------------------------- MODULE CloseProtocol ----------------------------
(***************************************************************************)
(* How ROSI closes (src-tauri/src/window.rs and the run events of main.rs):*)
(* a close request is confirmed while work is in progress, the renderer    *)
(* saves and acknowledges under the request's generation, the queue is     *)
(* saved, stopped and saved again, and the window is destroyed. A timer    *)
(* retires a request nobody acknowledged and offers to close regardless.   *)
(* Quitting (macOS), restarting and the end of the process use the same    *)
(* shutdown.                                                               *)
(*                                                                         *)
(* The threads are the main thread (the event loop), and for each close    *)
(* request the thread of its confirmation, of the renderer's command and   *)
(* of its timer, which may go on as the forced close. One action is what a *)
(* thread does under one acquisition of CLOSE_STATE_LOCK; outside of it,   *)
(* tests and stores of the atomic flags that are not next to each other    *)
(* are actions of their own. No specification uses the operators named     *)
(* Bad...: each is the operator after it with a plausible bug.             *)
(***************************************************************************)
EXTENDS Naturals

CONSTANTS MaxCloses,     \* bounds the close requests,
          MaxFaults,     \* the calls that fail,
          MaxCommands    \* and what the user starts, reopens or restarts

ASSUME CloseAssumption == {MaxCloses, MaxFaults, MaxCommands} \subseteq Nat

Closes == 1 .. MaxCloses

\* Who runs shutdown(): the renderer's command of a close, the thread of a
\* restart, and the main thread when the app quits or exits.
Restart == MaxCloses + 1
Main == MaxCloses + 2
Shutdowns == Closes \cup {Restart, Main}

VARIABLES
  flag,        \* the statics CLOSE_IN_PROGRESS, CLOSE_CONFIRMING,
               \* CLOSE_ACKNOWLEDGED, CLOSE_GENERATION, APP_QUITTING and
               \* CLOSE_TIMEOUT_DIALOG_VISIBLE
  macos,       \* cfg!(target_os = "macos")
  window,      \* the main window; "doomed" until the event loop removes it
  main,        \* what the main thread is doing
  posted,      \* whether the close() of request_quit waits in the event loop
  phase,       \* how far each close request has come
  gen,         \* its generation
  warn,        \* its timer, the dialog that offers a forced close, the forced close
  shut,        \* where each shutdown is
  working,     \* is_busy() or a running queue
  left         \* what the bounds still allow

loop   == <<window, main, posted>>
closes == <<phase, gen, warn>>
closeVars == <<flag, macos, loop, closes, shut, working, left>>

CloseInit ==
  /\ flag = [inProgress |-> FALSE, confirming |-> FALSE, acknowledged |-> FALSE,
             generation |-> 0, quitting |-> FALSE, warning |-> FALSE]
  /\ macos \in BOOLEAN
  /\ window = "open" /\ main = "idle" /\ posted = FALSE
  /\ phase = [a \in Closes |-> "unused"]
  /\ gen = [a \in Closes |-> 0]
  /\ warn = [a \in Closes |-> "none"]
  /\ shut = [t \in Shutdowns |-> "none"]
  /\ working = FALSE
  /\ left = [faults |-> MaxFaults, commands |-> MaxCommands]

Running == main # "ended"
Spend(what) == left[what] > 0 /\ left' = [left EXCEPT ![what] = @ - 1]
Phase(a, label) == phase' = [phase EXCEPT ![a] = label]
Warn(a, label)  == warn' = [warn EXCEPT ![a] = label]
Shut(t, label)  == shut' = [shut EXCEPT ![t] = label]

\* A call of the operating system may fail.
Succeeds == UNCHANGED left
Fails == Spend("faults")

\* cancel_close_locked
CancelClose ==
  flag' = [flag EXCEPT !.inProgress = FALSE, !.confirming = FALSE, !.acknowledged = FALSE,
                       !.generation = @ + 1, !.quitting = FALSE]

\* close_generation_is_current
CloseIsCurrent(a) == flag.inProgress /\ flag.generation = gen[a]

\* Downloads and queue runs are started while there is a window, and end.
StartWork ==
  /\ Running /\ window # "none"
  /\ ~working /\ Spend("commands")
  /\ working' = TRUE
  /\ UNCHANGED <<flag, macos, loop, closes, shut>>

WorkEnds ==
  /\ Running /\ working
  /\ working' = FALSE
  /\ UNCHANGED <<flag, macos, loop, closes, shut, left>>

-----------------------------------------------------------------------------
\* on_main_close_requested

\* The user or request_quit closes the window: the main thread looks at
\* CLOSE_IN_PROGRESS ...
CloseRequested ==
  /\ main = "idle" /\ window # "none" /\ \E a \in Closes : phase[a] = "unused"
  /\ ~flag.inProgress
  /\ main' = "swap"
  /\ posted' \in {posted, FALSE}
  /\ UNCHANGED <<flag, macos, window, closes, shut, working, left>>

CloseIgnored ==
  /\ main = "idle" /\ posted
  /\ flag.inProgress \/ window = "none"
  /\ posted' = FALSE
  /\ UNCHANGED <<flag, macos, window, main, closes, shut, working, left>>

\* ... swaps CLOSE_CONFIRMING, and returns if it was set ...
AlreadyConfirming ==
  /\ main = "swap" /\ flag.confirming
  /\ main' = "idle"
  /\ UNCHANGED <<flag, macos, window, posted, closes, shut, working, left>>

NewClose(a) == phase[a] = "unused" /\ \A b \in Closes : b < a => phase[b] # "unused"

StartConfirming(a) ==
  /\ main = "swap" /\ ~flag.confirming /\ NewClose(a)
  /\ flag' = [flag EXCEPT !.confirming = TRUE]
  /\ Phase(a, "deciding") /\ main' = "deciding"
  /\ UNCHANGED <<macos, window, posted, gen, warn, shut, working, left>>

BadAskUser(a) ==
  /\ phase[a] = "deciding" /\ working
  /\ Phase(a, "asking")
  /\ UNCHANGED <<flag, macos, loop, gen, warn, shut, working, left>>

\* ... and asks, on a thread of its own, only while work is in progress.
AskUser(a) ==
  /\ phase[a] = "deciding" /\ working
  /\ Phase(a, "asking") /\ main' = "idle"
  /\ UNCHANGED <<flag, macos, window, posted, gen, warn, shut, working, left>>

CloseUnasked(a) ==
  /\ phase[a] = "deciding" /\ ~working
  /\ flag' = [flag EXCEPT !.confirming = FALSE]
  /\ Phase(a, "confirmed") /\ main' = "begin"
  /\ UNCHANGED <<macos, window, posted, gen, warn, shut, working, left>>

UserConfirms(a) ==
  /\ Running /\ phase[a] = "asking"
  /\ flag' = [flag EXCEPT !.confirming = FALSE]
  /\ Phase(a, "answered")
  /\ UNCHANGED <<macos, loop, gen, warn, shut, working, left>>

UserDeclines(a) ==
  /\ Running /\ phase[a] = "asking"
  /\ flag' = [flag EXCEPT !.confirming = FALSE, !.quitting = FALSE]
  /\ Phase(a, "done")
  /\ UNCHANGED <<macos, loop, gen, warn, shut, working, left>>

\* begin_flush_and_close, on the main thread ("confirmed") or on the thread
\* of the confirmation ("answered"): a new generation, the event for the
\* renderer and the timer.
BeginFlush(a) ==
  /\ Running /\ phase[a] \in {"confirmed", "answered"}
  /\ flag' = [flag EXCEPT !.inProgress = TRUE, !.acknowledged = FALSE, !.generation = @ + 1]
  /\ gen' = [gen EXCEPT ![a] = flag.generation + 1]
  /\ Warn(a, "armed")
  /\ Phase(a, IF window = "none" THEN "unheard" ELSE "flushing")
  /\ main' = IF phase[a] = "confirmed" THEN "idle" ELSE main
  /\ UNCHANGED <<macos, window, posted, shut, working, left>>

-----------------------------------------------------------------------------
\* The timer and the forced close

\* expire_unacknowledged_close_generation
Expires(a) == CloseIsCurrent(a) /\ ~flag.acknowledged

TimerFires(a) ==
  /\ Running /\ warn[a] = "armed"
  /\ IF Expires(a) THEN CancelClose /\ Warn(a, "expired")
                   ELSE UNCHANGED flag /\ Warn(a, "done")
  /\ UNCHANGED <<macos, loop, phase, gen, shut, working, left>>

\* The timeout offers a forced close, unless such a warning is still shown.
ShowWarning(a) ==
  /\ Running /\ warn[a] = "expired"
  /\ flag' = [flag EXCEPT !.warning = TRUE]
  /\ Warn(a, IF flag.warning THEN "done" ELSE "warning")
  /\ UNCHANGED <<macos, loop, phase, gen, shut, working, left>>

\* offer_forced_close: "warning" is the dialog of a timeout, "error" that of a
\* failed shutdown.
Offered(a) == Running /\ warn[a] \in {"warning", "error"}
StillWarning(a) == flag.warning /\ warn[a] # "warning"

KeepOpen(a) ==
  /\ Offered(a)
  /\ flag' = [flag EXCEPT !.warning = StillWarning(a), !.quitting = FALSE]
  /\ Warn(a, "done")
  /\ UNCHANGED <<macos, loop, phase, gen, shut, working, left>>

CloseAnyway(a) ==
  /\ Offered(a)
  /\ flag' = [flag EXCEPT !.warning = StillWarning(a)]
  /\ Warn(a, "stop")
  /\ UNCHANGED <<macos, loop, phase, gen, shut, working, left>>

\* force_close: stop the work, save what can be saved, claim the close ...
ForceStop(a) ==
  /\ Running /\ warn[a] = "stop"
  /\ working' = FALSE
  /\ Warn(a, "claim")
  /\ UNCHANGED <<flag, macos, loop, phase, gen, shut, left>>

ForceClaim(a) ==
  /\ Running /\ warn[a] = "claim"
  /\ flag' = [flag EXCEPT !.inProgress = TRUE, !.generation = @ + 1]
  /\ Warn(a, "destroy")
  /\ UNCHANGED <<macos, loop, phase, gen, shut, working, left>>

\* window.destroy()
Destroy ==
  /\ window # "none"
  /\ \/ Succeeds /\ window' = "doomed" /\ UNCHANGED flag
     \/ Fails /\ CancelClose /\ UNCHANGED window

\* ... and destroy the window on the main thread, if it is still there.
ForceDestroy(a) ==
  /\ main = "idle" /\ warn[a] = "destroy"
  /\ \/ Destroy /\ Warn(a, "done")
     \/ window = "none" /\ Warn(a, "missed") /\ UNCHANGED <<flag, window, left>>
  /\ UNCHANGED <<macos, main, posted, phase, gen, shut, working>>

-----------------------------------------------------------------------------
\* notify_settings_flushed

\* acknowledge_close_generation. Only the window that was told to prepare
\* answers, and not when saving the settings failed.
RendererFlushed(a) ==
  /\ Running /\ window # "none" /\ phase[a] = "flushing"
  /\ IF CloseIsCurrent(a)
     THEN /\ flag' = [flag EXCEPT !.acknowledged = TRUE]
          /\ Phase(a, "shutdown") /\ Shut(a, "first")
     ELSE Phase(a, "done") /\ UNCHANGED <<flag, shut>>
  /\ UNCHANGED <<macos, loop, gen, warn, working, left>>

\* shutdown_with_close_generation: save, look whether the close that asked for
\* it is current, stop the work, save again.
Flush(t, before, after) ==
  /\ Running /\ shut[t] = before
  /\ \/ Succeeds /\ Shut(t, after)
     \/ Fails /\ Shut(t, "failed")
  /\ UNCHANGED <<flag, macos, loop, closes, working>>

FlushFirst(t)  == Flush(t, "first", IF t \in Closes THEN "check" ELSE "stop")
FlushSecond(t) == Flush(t, "second", "ok")

CheckCurrent(a) ==
  /\ Running /\ shut[a] = "check"
  /\ Shut(a, IF CloseIsCurrent(a) THEN "stop" ELSE "failed")
  /\ UNCHANGED <<flag, macos, loop, closes, working, left>>

StopWork(t) ==
  /\ Running /\ shut[t] = "stop"
  /\ working' = FALSE
  /\ Shut(t, "second")
  /\ UNCHANGED <<flag, macos, loop, closes, left>>

BadShutdownFailed(a) ==
  /\ Running /\ shut[a] = "failed"
  /\ UNCHANGED flag
  /\ Phase(a, "done") /\ Shut(a, "none") /\ Warn(a, "error")
  /\ UNCHANGED <<macos, loop, gen, working, left>>

\* cancel_close_generation; the dialog comes even if another close is current.
ShutdownFailed(a) ==
  /\ Running /\ shut[a] = "failed"
  /\ IF CloseIsCurrent(a) THEN CancelClose ELSE UNCHANGED flag
  /\ Phase(a, "done") /\ Shut(a, "none") /\ Warn(a, "error")
  /\ UNCHANGED <<macos, loop, gen, working, left>>

BadConsumed(a) == flag.inProgress /\ flag.acknowledged

\* consume_close_generation
Consumed(a) == CloseIsCurrent(a) /\ flag.acknowledged

Consume(a) ==
  /\ Running /\ shut[a] = "ok"
  /\ IF Consumed(a)
     THEN /\ flag' = [flag EXCEPT !.generation = @ + 1, !.acknowledged = FALSE]
          /\ Phase(a, "destroy")
     ELSE Phase(a, "done") /\ UNCHANGED flag
  /\ Shut(a, "none")
  /\ UNCHANGED <<macos, loop, gen, warn, working, left>>

DestroyMain(a) ==
  /\ Running /\ phase[a] = "destroy"
  /\ Phase(a, "done")
  /\ \/ Destroy
     \/ window = "none" /\ CancelClose /\ UNCHANGED <<window, left>>
  /\ UNCHANGED <<macos, main, posted, gen, warn, shut, working>>

-----------------------------------------------------------------------------
\* The main thread: the window goes, the app quits, restarts or exits

Exit == main' = "exit" /\ Shut(Main, "first")

\* The event loop has destroyed the window ...
WindowRemoved ==
  /\ main = "idle" /\ window = "doomed"
  /\ window' = "none" /\ main' = "destroyed"
  /\ UNCHANGED <<flag, macos, posted, closes, shut, working, left>>

\* ... on_main_destroyed resets the close ...
OnMainDestroyed ==
  /\ main = "destroyed"
  /\ flag' = [flag EXCEPT !.inProgress = FALSE, !.acknowledged = FALSE, !.generation = @ + 1]
  /\ main' = "after"
  /\ UNCHANGED <<macos, window, posted, closes, shut, working, left>>

\* ... and exits if the app quits; on macOS the work stops otherwise.
AppExits ==
  /\ main = "after" /\ flag.quitting
  /\ Exit
  /\ UNCHANGED <<flag, macos, window, posted, closes, working, left>>

WindowOnlyCloses ==
  /\ main = "after" /\ ~flag.quitting
  /\ working' = (working /\ ~macos)
  /\ main' = "last"
  /\ UNCHANGED <<flag, macos, window, posted, closes, shut, left>>

\* RunEvent::ExitRequested: the last window is gone; macOS stays in the Dock.
LastWindowClosed ==
  /\ main = "last"
  /\ IF macos /\ ~flag.quitting THEN main' = "idle" /\ UNCHANGED shut ELSE Exit
  /\ UNCHANGED <<flag, macos, window, posted, closes, working, left>>

\* RunEvent::Exit: a last shutdown, and the process ends even if it fails.
ProcessEnds ==
  /\ main = "exit" /\ shut[Main] \in {"ok", "failed"}
  /\ main' = "ended"
  /\ UNCHANGED <<flag, macos, window, posted, closes, shut, working, left>>

\* RunEvent::Reopen
Reopen ==
  /\ macos /\ main = "idle" /\ window = "none" /\ Spend("commands")
  /\ window' = "open"
  /\ UNCHANGED <<flag, macos, main, posted, closes, shut, working>>

\* request_quit: close the window, or shut down if there is none.
RequestQuit ==
  /\ macos /\ main = "idle" /\ window # "none"
  /\ \/ Succeeds /\ posted' = TRUE /\ flag' = [flag EXCEPT !.quitting = TRUE]
     \/ Fails /\ CancelClose /\ UNCHANGED posted
  /\ UNCHANGED <<macos, window, main, closes, shut, working>>

QuitWithoutWindow ==
  /\ macos /\ main = "idle" /\ window = "none"
  /\ flag' = [flag EXCEPT !.quitting = TRUE]
  /\ main' = "quit" /\ Shut(Main, "first")
  /\ UNCHANGED <<macos, window, posted, closes, working, left>>

QuitReturns ==
  /\ main = "quit"
  /\ \/ shut[Main] = "ok" /\ Exit /\ UNCHANGED flag
     \/ /\ shut[Main] = "failed"
        /\ flag' = [flag EXCEPT !.quitting = FALSE]
        /\ main' = "idle" /\ UNCHANGED shut
  /\ UNCHANGED <<macos, window, posted, closes, working, left>>

\* restart_with: shut down on a thread of its own, then exit to start again.
RestartApp ==
  /\ Running /\ window # "none" /\ shut[Restart] = "none" /\ Spend("commands")
  /\ flag' = [flag EXCEPT !.quitting = TRUE]
  /\ Shut(Restart, "first")
  /\ UNCHANGED <<macos, loop, closes, working>>

\* The caller's before_restart may fail, too.
RestartFails ==
  /\ Running
  /\ \/ shut[Restart] = "failed" /\ Succeeds
     \/ shut[Restart] = "ok" /\ Fails
  /\ flag' = [flag EXCEPT !.quitting = FALSE]
  /\ Shut(Restart, "none")
  /\ UNCHANGED <<macos, loop, closes, working>>

RestartSucceeds ==
  /\ Running /\ shut[Restart] = "ok"
  /\ Shut(Restart, "requested")
  /\ UNCHANGED <<flag, macos, loop, closes, working, left>>

ExitToRestart ==
  /\ main = "idle" /\ shut[Restart] = "requested"
  /\ main' = "exit" /\ shut' = [shut EXCEPT ![Restart] = "exiting", ![Main] = "first"]
  /\ UNCHANGED <<flag, macos, window, posted, closes, working, left>>

-----------------------------------------------------------------------------
User ==
  \/ StartWork \/ WorkEnds \/ CloseRequested \/ RequestQuit \/ QuitWithoutWindow
  \/ RestartApp \/ Reopen

MainStep ==
  \/ CloseIgnored \/ AlreadyConfirming \/ WindowRemoved \/ OnMainDestroyed \/ AppExits
  \/ WindowOnlyCloses \/ LastWindowClosed \/ ProcessEnds \/ QuitReturns \/ ExitToRestart

CloseStep(a) ==
  \/ StartConfirming(a) \/ AskUser(a) \/ CloseUnasked(a) \/ UserConfirms(a)
  \/ UserDeclines(a) \/ BeginFlush(a) \/ RendererFlushed(a) \/ CheckCurrent(a)
  \/ ShutdownFailed(a) \/ Consume(a) \/ DestroyMain(a)

TimerStep(a) ==
  \/ TimerFires(a) \/ ShowWarning(a) \/ KeepOpen(a) \/ CloseAnyway(a)
  \/ ForceStop(a) \/ ForceClaim(a) \/ ForceDestroy(a)

CloseNext ==
  \/ User \/ MainStep \/ RestartFails \/ RestartSucceeds
  \/ \E a \in Closes : CloseStep(a) \/ TimerStep(a)
  \/ \E t \in Shutdowns : FlushFirst(t) \/ StopWork(t) \/ FlushSecond(t)

CloseSpec == CloseInit /\ [][CloseNext]_closeVars

-----------------------------------------------------------------------------
FlagType == [inProgress : BOOLEAN, confirming : BOOLEAN, acknowledged : BOOLEAN,
             generation : Nat, quitting : BOOLEAN, warning : BOOLEAN]

Types ==
  /\ flag \in FlagType
  /\ {macos, posted, working} \subseteq BOOLEAN
  /\ window \in {"open", "doomed", "none"}
  /\ main \in {"idle", "swap", "deciding", "begin", "destroyed", "after", "last", "quit",
              "exit", "ended"}
  /\ phase \in [Closes -> {"unused", "deciding", "asking", "confirmed", "answered", "flushing",
                          "unheard", "shutdown", "destroy", "done"}]
  /\ gen \in [Closes -> 0 .. flag.generation]
  /\ warn \in [Closes -> {"none", "armed", "expired", "warning", "error", "stop", "claim",
                         "destroy", "missed", "done"}]
  /\ shut \in [Shutdowns -> {"none", "first", "check", "stop", "second", "ok", "failed",
                            "requested", "exiting"}]

HandlersMatch ==
  /\ \A a \in Closes : phase[a] = "shutdown" <=> shut[a] # "none"
  /\ \A a \in Closes : phase[a] = "deciding" => main = "deciding"
  /\ \A a \in Closes : phase[a] = "confirmed" => main = "begin"
  /\ main = "deciding" => \E a \in Closes : phase[a] = "deciding"
  /\ main = "begin" => \E a \in Closes : phase[a] = "confirmed"
  /\ \A a, b \in Closes : phase[a] \in {"deciding", "confirmed"} /\ phase[b] = phase[a] => a = b

\* Every variable keeps its type, a shutdown of a close runs exactly while its
\* command does, and the main thread handles one request exactly when it says
\* so.
CloseTypeOK == Types /\ HandlersMatch

\* A close "must leave the app open and permit a fresh close generation"
\* (e2e/round2-native-failure-modes.md:36): while CLOSE_IN_PROGRESS is set, and
\* no close can begin, something is on its way that clears it. The exception is
\* a forced close that finds no window, which macOS survives.
CloseHasOwner ==
  flag.inProgress /\ Running =>
    \/ \E a \in Closes :
         \/ gen[a] = flag.generation /\ warn[a] = "armed" /\ ~flag.acknowledged
         \/ gen[a] = flag.generation /\ phase[a] = "shutdown" /\ flag.acknowledged
         \/ phase[a] = "destroy" \/ warn[a] = "destroy"
    \/ window = "doomed" \/ main \in {"destroyed", "exit"}
    \/ macos /\ \E a \in Closes : warn[a] = "missed"

\* While the app is quitting, a close, a shutdown or the user's answer is on its
\* way that ends it or takes the quit back: otherwise the app would later end
\* when its user only closes the window.
QuitHasOwner ==
  flag.quitting /\ Running =>
    \/ posted \/ flag.inProgress
    \/ \E a \in Closes : phase[a] \in {"deciding", "asking", "confirmed", "answered"}
    \/ window = "doomed" \/ main # "idle"
    \/ shut[Restart] # "none"

\* Neither flag is left set with nobody to clear it, and however often the user
\* retries there is one timeout warning on the screen that offers to do it.
FlagsHaveOwners ==
  /\ CloseHasOwner /\ QuitHasOwner
  /\ \A a, b \in Closes : warn[a] = "warning" /\ warn[b] = "warning" => a = b

\* What a late step of an old request may not do. "Once the current generation
\* acknowledges flush, its renderer timer must no longer cancel the close" (the
\* same document, 33), nor an older one's; and a flush for an older request,
\* which lacks what changed since, does not close the window for a newer one.
LateStepsHarmless ==
  [][\A a, b \in Closes :
       /\ phase[a] \in {"shutdown", "destroy"} /\ warn[b] = "armed" /\ warn'[b] = "expired"
            => gen[b] > gen[a]
       /\ phase[a] = "shutdown" /\ phase'[a] = "destroy" => gen[b] <= gen[a]]_closeVars
==============================================================================
