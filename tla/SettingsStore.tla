---------------------------- MODULE SettingsStore ----------------------------
(***************************************************************************)
(* The settings of the renderer and their way to settings.json             *)
(* (src/engine/settings-store.ts, src-tauri/src/settings.rs).  The         *)
(* renderer is a write-back cache: an edit changes its copy and asks for a *)
(* save, at once or after a debounce; one save is under way at a time and  *)
(* sends the whole copy as it was when the save began; the answers say     *)
(* which requests it has served and may correct the copy.  Two commands of *)
(* the backend replace the file as a whole, import_settings and            *)
(* reset_settings.                                                         *)
(*                                                                         *)
(* Between two awaits the renderer's code is one step.  No specification   *)
(* uses the operators named Bad...: each is the operator after it with a   *)
(* plausible bug that a property must catch.                               *)
(***************************************************************************)
EXTENDS Naturals

CONSTANTS Calls,       \* calls of persistSettings, each made at most once
          Keys, Values,
          Normal,      \* what the migration of settings makes of each value
          Refused,     \* values the validation refuses
          Original, Imported, Defaults,   \* whole settings
          Replacements,  \* which of "import" and "reset" the user asks for
          MaxFaults    \* bound: writes and calls of the backend that fail

Settings == [Keys -> Values]
NormalForm(s) == [k \in Keys |-> Normal[s[k]]]

ASSUME SettingsAssumption ==
  /\ Normal \in [Values -> Values]
  /\ \A v \in Values : Normal[Normal[v]] = Normal[v] /\ (v \in Refused => Normal[v] = v)
  /\ {Original, Imported, Defaults} \subseteq Settings
  /\ \A s \in {Original, Imported, Defaults} : NormalForm(s) = s
  /\ Replacements \subseteq {"import", "reset"}
  /\ MaxFaults \in Nat

VARIABLES
  settings,   \* settingsStore.settings
  revision,   \* settingsStore.settingsRevision
  debounce,   \* persistDebounceTimer is armed
  requests,   \* settingsSaveWaiters, with the answers the others have had
  save,       \* the save under way and its snapshot
  errorCode,  \* lastSettingsSaveErrorCode
  disk,       \* settings.json
  newer,      \* settings.json belongs to a newer ROSI
  replacing,  \* the import or reset of the user
  faults

renderer == <<settings, revision, debounce, requests, errorCode>>
vars == <<renderer, save, disk, newer, replacing, faults>>

Unmade == [state |-> "unmade", revision |-> 0, immediate |-> FALSE]
Waiting(r, immediate) == [state |-> "waiting", revision |-> r, immediate |-> immediate]

NoSave == [phase |-> "none", revision |-> 0, snapshot |-> Original,
           changed |-> {}, refused |-> {}, data |-> Original]

Sent(s, r) == [NoSave EXCEPT !.phase = "sent", !.revision = r, !.snapshot = s]

Init ==
  /\ settings = Original /\ disk = Original
  /\ revision = 0 /\ debounce = FALSE
  /\ requests = [c \in Calls |-> Unmade]
  /\ save = NoSave
  /\ errorCode = "none"
  /\ newer \in BOOLEAN
  /\ replacing = [what |-> "nothing", stage |-> "none", call |-> {}]
  /\ faults = MaxFaults

Fault == faults > 0 /\ faults' = faults - 1
SomeoneWaits(rs) == \E c \in Calls : rs[c].state = "waiting"

-----------------------------------------------------------------------------
\* Edits and requests

\* persistSettings(silent, immediate), its drainSettingsSaves() included
Persist(c, immediate) ==
  /\ requests[c] = Unmade
  /\ requests' = [requests EXCEPT ![c] = Waiting(revision', immediate)]
  /\ debounce' = ~immediate
  /\ save' = IF immediate /\ save.phase = "none" THEN Sent(settings', revision') ELSE save
  /\ UNCHANGED errorCode

\* A control of the renderer: trackSettings counts the change, the handler
\* asks for a save in the same turn.
Edit(c, k, v, immediate) ==
  /\ settings[k] # v
  /\ settings' = [settings EXCEPT ![k] = v]
  /\ revision' = revision + 1
  /\ Persist(c, immediate)
  /\ UNCHANGED <<disk, newer, replacing, faults>>

\* A command that needs the settings on the disk: adding to the queue, the
\* export, closing and restarting.
Flush(c) ==
  /\ UNCHANGED <<settings, revision, disk, newer, replacing, faults>>
  /\ Persist(c, TRUE)

\* The debounce ends; drainSettingsSaves() returns early if a save is under way.
DebounceEnds ==
  /\ debounce /\ debounce' = FALSE
  /\ save' = IF save.phase = "none" /\ SomeoneWaits(requests)
             THEN Sent(settings, revision) ELSE save
  /\ UNCHANGED <<settings, revision, requests, errorCode, disk, newer, replacing, faults>>

-----------------------------------------------------------------------------
\* save_settings in the backend

\* Only what differs from the stored settings is looked at; what the
\* validation refuses is left out of the patch.
Validate ==
  /\ save.phase = "sent"
  /\ LET differs == {k \in Keys : save.snapshot[k] # disk[k]}
         refused == {k \in differs : save.snapshot[k] \in Refused}
     IN  save' = [save EXCEPT !.phase = "validated",
                              !.changed = differs \ refused, !.refused = refused]
  /\ UNCHANGED <<renderer, disk, newer, replacing, faults>>

\* save_patch loads the file again under SETTINGS_LOCK and merges the patch.
Patched == NormalForm([k \in Keys |-> IF k \in save.changed THEN save.snapshot[k] ELSE disk[k]])

WritePatch ==
  /\ save.phase = "validated"
  /\ \/ /\ ~newer
        /\ disk' = Patched
        /\ save' = [save EXCEPT !.phase = IF save.refused = {} THEN "saved" ELSE "refused",
                                !.data = Patched]
        /\ UNCHANGED faults
     \/ /\ newer
        /\ save' = [save EXCEPT !.phase = "newer"]
        /\ UNCHANGED <<disk, faults>>
     \/ /\ ~newer /\ Fault
        /\ save' = [save EXCEPT !.phase = "failed"]
        /\ UNCHANGED disk
  /\ UNCHANGED <<renderer, newer, replacing>>

-----------------------------------------------------------------------------
\* The rest of drainSettingsSaves, when an answer arrives

BadOutlived(c) == FALSE

\* A caller that asked for an immediate save needs the newest revision, even
\* if its own has been saved.
Outlived(c) == requests[c].immediate /\ revision > save.revision

BadServed(c) == requests[c].state = "waiting" /\ ~Outlived(c)

Served(c) ==
  /\ requests[c].state = "waiting"
  /\ requests[c].revision <= save.revision
  /\ ~Outlived(c)

\* settleSettingsSaveWaiters
Settled(answer) ==
  [c \in Calls |->
     IF Served(c) THEN [requests[c] EXCEPT !.state = answer]
     ELSE IF requests[c].state = "waiting" /\ requests[c].revision <= save.revision
     THEN [requests[c] EXCEPT !.revision = revision]
     ELSE requests[c]]

BadMustContinue(rs) == \E c \in Calls : rs[c].state = "waiting" /\ rs[c].immediate

\* Immediate callers go on at once; the others wait for their debounce, unless
\* it ended while this save was under way.
MustContinue(rs) ==
  \E c \in Calls : rs[c].state = "waiting" /\ (rs[c].immediate \/ ~debounce)

Finish(saved) ==
  LET preserved == ~saved /\ errorCode' = "newer"
      rs == Settled(IF saved \/ preserved THEN "true" ELSE "false")
  IN  /\ requests' = rs
      /\ save' = IF MustContinue(rs) THEN Sent(settings', revision) ELSE NoSave
      /\ UNCHANGED <<revision, debounce, disk, newer, replacing>>

BadStillNewest == TRUE
StillNewest == save.revision = revision

SavedReply ==
  /\ save.phase = "saved"
  /\ settings' = IF StillNewest THEN save.data ELSE settings
  /\ errorCode' = "none"
  /\ Finish(TRUE)
  /\ UNCHANGED faults

ErrorReply ==
  /\ save.phase \in {"newer", "failed"}
  /\ errorCode' = save.phase
  /\ UNCHANGED <<settings, faults>>
  /\ Finish(FALSE)

\* The other fields were saved: the refused ones are read back ...
ReadStored ==
  /\ save.phase = "refused"
  /\ save' = [save EXCEPT !.phase = "read back", !.data = disk]
  /\ UNCHANGED <<renderer, disk, newer, replacing, faults>>

\* ... and restored, unless the user has changed them again.
RefusedReply ==
  /\ save.phase = "read back"
  /\ settings' = [k \in Keys |-> IF k \in save.refused /\ settings[k] = save.snapshot[k]
                                 THEN save.data[k] ELSE settings[k]]
  /\ errorCode' = "none"
  /\ Finish(TRUE)
  /\ UNCHANGED faults

\* A call of the bridge that throws; the error code stays what it was.
CallThrows ==
  /\ save.phase \in {"saved", "newer", "failed", "read back"} /\ Fault
  /\ UNCHANGED <<settings, errorCode>>
  /\ Finish(FALSE)

-----------------------------------------------------------------------------
\* Import and reset, which replace the file

Stage(what, stage) == replacing.what = what /\ replacing.stage = stage
Goto(stage) == replacing' = [replacing EXCEPT !.stage = stage]

\* Both begin with persistSettings(false, true).
ReplaceAsked(c, what) ==
  /\ replacing.what = "nothing"
  /\ UNCHANGED <<settings, revision, disk, newer, faults>>
  /\ Persist(c, TRUE)
  /\ replacing' = [what |-> what, stage |-> "flushing", call |-> {c}]

\* The import then shows the file dialog, the reset stops the queue and the
\* downloads; without the flush neither happens.
ReplaceFlushed ==
  /\ replacing.stage = "flushing"
  /\ \E c \in replacing.call :
       \/ requests[c].state = "true" /\ Goto("working")
       \/ requests[c].state = "false" /\ Goto("given up")
  /\ UNCHANGED <<renderer, save, disk, newer, faults>>

\* save_all of the import, which then announces the settings it has written,
\* and of the reset, which then restarts the program
ReplaceFile ==
  /\ replacing.stage = "working"
  /\ \/ /\ ~newer
        /\ disk' = IF replacing.what = "import" THEN Imported ELSE Defaults
        /\ Goto("replaced")
        /\ UNCHANGED faults
     \/ newer /\ Goto("given up") /\ UNCHANGED <<disk, faults>>
     \/ Fault /\ Goto("given up") /\ UNCHANGED disk
  /\ UNCHANGED <<renderer, save, newer>>

\* onSettingsImported
ImportAnnounced ==
  /\ Stage("import", "replaced")
  /\ settings' = Imported
  /\ revision' = revision + 1
  /\ Goto("over")
  /\ UNCHANGED <<debounce, requests, errorCode, save, disk, newer, faults>>

\* app.restart(): the next renderer begins with what is on the disk.
Restart ==
  /\ Stage("reset", "replaced")
  /\ Goto("restarted")
  /\ settings' = disk /\ revision' = 0 /\ debounce' = FALSE
  /\ requests' = [c \in Calls |-> IF requests[c].state = "waiting" THEN Unmade ELSE requests[c]]
  /\ save' = NoSave /\ errorCode' = "none"
  /\ UNCHANGED <<disk, newer, faults>>

Running == replacing.stage # "restarted"

UserStep ==
  \E c \in Calls :
    \/ \E k \in Keys, v \in Values, immediate \in BOOLEAN : Edit(c, k, v, immediate)
    \/ Flush(c)
    \/ \E what \in Replacements : ReplaceAsked(c, what)

Backend == Validate \/ WritePatch \/ ReadStored
Reply == SavedReply \/ ErrorReply \/ RefusedReply \/ CallThrows
Replace == ReplaceFlushed \/ ReplaceFile \/ ImportAnnounced \/ Restart

Next == Running /\ (UserStep \/ DebounceEnds \/ Backend \/ Reply \/ Replace)

Spec == Init /\ [][Next]_vars

-----------------------------------------------------------------------------
\* Properties

Requests ==
  [state : {"unmade", "waiting", "true", "false"}, revision : Nat, immediate : BOOLEAN]

Phases == {"none", "sent", "validated", "saved", "refused", "newer", "failed", "read back"}
Stages == {"none", "flushing", "working", "replaced", "over", "restarted", "given up"}

Saves == [phase : Phases, revision : Nat, snapshot : Settings, changed : SUBSET Keys,
          refused : SUBSET Keys, data : Settings]

Replacings == [what : {"nothing"} \cup Replacements, stage : Stages, call : SUBSET Calls]

RendererTypes ==
  /\ settings \in Settings /\ revision \in Nat /\ debounce \in BOOLEAN
  /\ requests \in [Calls -> Requests]
  /\ errorCode \in {"none", "newer", "failed"}

BackendTypes ==
  /\ save \in Saves
  /\ disk \in Settings /\ newer \in BOOLEAN
  /\ replacing \in Replacings
  /\ faults \in 0..MaxFaults

\* Nothing is ahead of the renderer's revision; the restart counts anew.
Revisions ==
  /\ save.revision <= revision
  /\ \A c \in Calls : requests[c].state = "waiting" => requests[c].revision <= revision

TypeOK == RendererTypes /\ BackendTypes /\ Revisions

\* The file holds what the renderer shows.
OnDisk(s) == NormalForm(s) = disk

\* An import or reset has written the file: ImportHolds and ResetHolds are about
\* what follows.
Replaced == replacing.stage \in {"replaced", "over"}

Quiet == ~debounce /\ save.phase = "none"
AllSaved == ~newer /\ \A c \in Calls : requests[c].state # "false"

\* A caller of an immediate save that is told "saved" (the close, the queue, the
\* export, which read the file next) finds the newest edits in the file, also
\* those made while the save was under way.
SavedMeansOnDisk ==
  [][\A c \in Calls :
       /\ requests[c].state = "waiting" /\ requests'[c].state = "true"
       /\ requests[c].immediate
       /\ ~newer /\ ~Replaced
       => OnDisk(settings)']_vars

\* No edit and no caller is forgotten: once no timer is armed and no save is under
\* way, nobody waits for an answer, and if every answer was "saved" the file holds
\* the renderer's settings.
QuietMeansSaved ==
  Quiet => /\ ~SomeoneWaits(requests)
           /\ AllSaved /\ ~Replaced => OnDisk(settings)

\* What the runs check of every state.
StoreInv == TypeOK /\ QuietMeansSaved

\* The late answer of a save takes no edit back: it changes only fields that
\* still have the value which was sent.
RepliesSpareEdits ==
  [][Reply => \A k \in Keys : settings'[k] # settings[k] => settings[k] = save.snapshot[k]]_vars

\* The import dialog promises that the current settings are overwritten; when
\* everything has settled, file and renderer both have the imported settings or
\* later edits of them. Violated: a save that began before the announcement
\* puts the old fields back into the file and nothing saves again.
ImportHolds == Quiet /\ AllSaved /\ Stage("import", "over") => OnDisk(settings)

\* The reset dialog promises all defaults after the restart. Violated: a save
\* of the old renderer may run between save_all and the restart.
ResetHolds == Stage("reset", "restarted") => disk = Defaults
==============================================================================
