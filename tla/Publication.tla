---------------------------- MODULE Publication ----------------------------
(***************************************************************************)
(* The files of one session on the disk (src-tauri/src/downloader.rs and   *)
(* staging.rs): yt-dlp fills a private staging directory, the worker       *)
(* converts the finished files or not, moves them to the download folder,  *)
(* retires originals and drops the staging directory, and the sweep of a   *)
(* later start recovers what a crash or an error left in it.               *)
(*                                                                         *)
(* Every rename, removal or check of the worker is an action, because      *)
(* another program may write to both directories in between, any of them   *)
(* may fail, and the program may die before the next. A file is followed   *)
(* by its identity (device and inode) to the place where it is; its bytes  *)
(* are left out. Names that carry a fresh UUID are out of the reach of     *)
(* other programs. Who holds the session is the module DownloadSession.    *)
(* No specification uses the operators named Bad...: each is the operator  *)
(* after it with a bug.                                                    *)
(***************************************************************************)
EXTENDS Integers, Sequences, FiniteSets

CONSTANTS Media,       \* the entries of the download
          Captioned,   \* those that come with a caption file
          Strangers,   \* files that other programs write
          Thumbnails,  \* whether the request embeds thumbnails
          Choices,     \* the settings of the session, see Settings
          MaxFaults    \* file operations that fail

\* flagged: the file system has a rename that fails rather than replace.
Settings == [convert : BOOLEAN, keepOriginal : BOOLEAN,
             subtitles : BOOLEAN, flagged : BOOLEAN]

ASSUME PublicationAssumption ==
  /\ Captioned \subseteq Media /\ IsFiniteSet(Strangers) /\ Thumbnails \in BOOLEAN
  /\ Choices \subseteq Settings /\ MaxFaults \in Nat

VARIABLES
  choice,     \* one of Choices
  at,         \* where each file is
  root,       \* the staging directory: under its name, retired or gone
  recorded,   \* the entries yt-dlp has reported as finished, in that order
  pc,         \* where the worker, or the sweep, is
  todo,       \* the inputs it has still to publish
  known,      \* whether it has a snapshot of the staging directory
  owned,      \* that snapshot: places and the files that were there
  preserve,   \* DownloadStage.preserve_on_drop
  cancelled,  \* Session.cancelled
  completed, failed,   \* what the session will report
  task,       \* the publication in progress
  move,       \* the install in progress
  sweep,      \* the progress of the sweep of one directory
  faults,     \* how many operations have failed
  excused     \* history: files another program replaced, or gave away

session == <<recorded, cancelled, completed, failed>>
stage   == <<root, known, owned, preserve>>
vars    == <<choice, at, stage, session, pc, todo, task, move, sweep, faults, excused>>

\* Files, which also name the places yt-dlp gives them.
Whole(m)   == <<"media", m>>
Stream(m)  == <<"stream", m>>    \* the format streams that are merged into it
Part(m)    == <<"part", m>>      \* only a name: of streams not yet complete
Thumb(m)   == <<"thumb", m>>
Caption(m) == <<"caption", m>>
Output(m)  == <<"output", m>>
Placeholder == <<"placeholder", "empty">>
Foreign == {"stranger"} \X Strangers
Files == ({"media", "stream", "thumb", "output"} \X Media)
         \cup ({"caption"} \X Captioned) \cup Foreign \cup {Placeholder}
Names == Files \cup ({"part"} \X Media)

\* "stage" is the staging directory, "held" and "convert" the private
\* directories the worker makes in it, "download" the folder of the user,
\* where n counts the names that were tried.
Dirs == {"stage", "held", "convert", "download"}
Tries == 0 .. Cardinality(Strangers) + 1
Places == [dir : Dirs, name : Names, n : Tries]
Nowhere == [dir |-> "nowhere", name |-> Placeholder, n |-> 0]
In(dir, name) == [dir |-> dir, name |-> name, n |-> 0]
Staged(m) == In("stage", Whole(m))

FilesIn(dirs) == {f \in Files : at[f].dir \in dirs}
StageFiles == FilesIn({"stage", "held", "convert"})
Taken(place) == \E f \in Files : at[f] = place
FileAt(place) == CHOOSE f \in Files : at[f] = place

\* The place an install without replacement gets: the names are tried in turn.
FreePlaces(name) ==
  {p \in [dir : {"download"}, name : {name}, n : Tries] :
     /\ ~Taken(p)
     /\ \A k \in 0 .. p.n - 1 : Taken([p EXCEPT !.n = k])}

Fault == faults < MaxFaults /\ faults' = faults + 1
NoFault == UNCHANGED faults

NoTask == [media |-> "none", captions |-> FALSE, installing |-> FALSE,
           fails |-> FALSE, next |-> "none"]
NoMove == [from |-> Nowhere, to |-> Nowhere, name |-> Placeholder,
           next |-> "none", result |-> "ok", file |-> Placeholder]
NoSweep == [left |-> {}, merged |-> {}, retained |-> FALSE]

Init ==
  /\ choice \in Choices
  /\ at = [f \in Files |-> Nowhere] /\ root = "stage"
  /\ recorded = <<>> /\ cancelled = FALSE /\ completed = {} /\ failed = {}
  /\ pc = "ytdlp" /\ todo = <<>>
  /\ known = TRUE /\ owned = {} /\ preserve = FALSE
  /\ task = NoTask /\ move = NoMove /\ sweep = NoSweep
  /\ faults = 0 /\ excused = {}

Goto(there) == pc' = there /\ UNCHANGED <<choice, root, recorded, cancelled>>
Entries(s) == {s[i] : i \in 1 .. Len(s)}
Reported == Entries(recorded)

-----------------------------------------------------------------------------
(* yt-dlp: it downloads the streams of an entry, its captions and its      *)
(* thumbnail, merges the streams, removes what went into the merged file   *)
(* and reports that file. It may stop at any point.                        *)

YtdlpStep(moved) ==
  /\ pc = "ytdlp"
  /\ at' = [f \in Files |-> IF f \in DOMAIN moved THEN moved[f] ELSE at[f]]
  /\ UNCHANGED <<choice, stage, session, pc, todo, task, move, sweep, faults, excused>>

Fetch(m) ==
  /\ at[Stream(m)] = Nowhere /\ at[Whole(m)] = Nowhere /\ m \notin Reported
  /\ ~Taken(Staged(m)) /\ Whole(m) \notin excused
  /\ YtdlpStep([f \in {Stream(m)} \cup (IF Thumbnails THEN {Thumb(m)} ELSE {})
                       \cup (IF m \in Captioned THEN {Caption(m)} ELSE {}) |->
                  IF f = Stream(m) THEN In("stage", Part(m)) ELSE In("stage", f)])

FinishStreams(m) ==
  /\ at[Stream(m)] = In("stage", Part(m))
  /\ YtdlpStep([f \in {Stream(m)} |-> In("stage", f)])

Merge(m) ==
  /\ at[Stream(m)] = In("stage", Stream(m))
  /\ at[Whole(m)] = Nowhere /\ ~Taken(Staged(m)) /\ Whole(m) \notin excused
  /\ YtdlpStep([f \in {Whole(m)} |-> Staged(m)])

Tidy(m) ==
  /\ at[Stream(m)] = In("stage", Stream(m)) /\ Taken(Staged(m))
  /\ YtdlpStep([f \in {Stream(m)} \cup {Thumb(m)} |-> Nowhere])

ReportFinished(m) ==
  /\ pc = "ytdlp" /\ at[Stream(m)] = Nowhere /\ at[Whole(m)] = Staged(m)
  /\ m \notin Reported
  /\ recorded' = Append(recorded, m)
  /\ UNCHANGED <<choice, at, stage, cancelled, completed, failed, pc, todo, task,
                 move, sweep, faults, excused>>

-----------------------------------------------------------------------------
(* Another program. It renames a file over a staged one, adds one to the   *)
(* staging directory, or takes a name in the download folder that is free. *)

Interfere(x, place, victim) ==
  /\ at[x] = Nowhere /\ x \notin excused
  /\ at' = [f \in Files |-> IF f = x THEN place ELSE IF f = victim THEN Nowhere ELSE at[f]]
  /\ excused' = excused \cup (IF victim = x THEN {} ELSE {victim})
  /\ UNCHANGED <<choice, stage, session, pc, todo, task, move, sweep, faults>>

Replace(x) ==
  \E victim \in FilesIn({"stage"}) :
     /\ victim[1] \in {"media", "caption"} /\ root = "stage"
     /\ Interfere(x, at[victim], victim)

Deposit(x) == root = "stage" /\ Interfere(x, In("stage", x), x)

Squat(x) ==
  \E f \in ({"media", "output"} \X Media) :
    \E place \in FreePlaces(f) : Interfere(x, place, x)

CancelSession ==
  /\ ~cancelled /\ pc \notin {"ytdlp", "drop", "verify", "done", "down", "sweep"}
  /\ cancelled' = TRUE
  /\ UNCHANGED <<choice, at, stage, recorded, completed, failed, pc, todo, task, move,
                 sweep, faults, excused>>

-----------------------------------------------------------------------------
(* on_ytdlp_exit: the snapshot says which files are the session's own; the *)
(* reported files that are still there are published, converted first if   *)
(* the run counts as successful and nobody has cancelled it.               *)

\* The reported files that are still there, in the order of the reports.
Finished == {m \in Reported : Taken(Staged(m))}
Present ==
  {s \in UNION {[1 .. n -> Finished] : n \in 0 .. Cardinality(Finished)} :
     /\ Entries(s) = Finished
     /\ \A i, j \in 1 .. Len(s) : i < j =>
          \E k, l \in 1 .. Len(recorded) : k < l /\ recorded[k] = s[i] /\ recorded[l] = s[j]}

Snapshot(valid) ==
  /\ known' = valid
  /\ owned' = IF valid THEN {<<at[f], f>> : f \in StageFiles} ELSE {}
  /\ excused' = IF valid THEN excused \cup (StageFiles \cap Foreign) ELSE excused

\* recover_staged_downloads found no finished file: is it safe to discard?
NothingOfWorth(drained) ==
  \A f \in StageFiles :
    drained /\ cancelled /\ at[f].name[1] = "part"

\* usable: exit code 0, or a playlist of which some entries failed.
YtdlpExits(usable, drained) ==
  /\ pc = "ytdlp"
  /\ \E valid \in BOOLEAN :
       /\ IF valid THEN NoFault ELSE Fault
       /\ Snapshot(valid)
       /\ todo' \in Present
       /\ preserve' = \/ ~valid
                      \/ /\ Finished = {}
                         /\ \/ usable /\ drained /\ ~cancelled
                            \/ ~NothingOfWorth(drained)
  /\ Goto(IF choice.convert /\ usable /\ drained /\ ~cancelled /\ Finished # {}
          THEN "handoff" ELSE "install")
  /\ UNCHANGED <<at, completed, failed, task, move, sweep>>

\* The hand-off to conversion looks at the flag again.
HandOff ==
  /\ pc = "handoff" /\ Goto(IF cancelled THEN "install" ELSE "convert")
  /\ UNCHANGED <<at, known, owned, preserve, completed, failed, todo, task, move, sweep,
                 faults, excused>>

-----------------------------------------------------------------------------
(* install_download_output_named and install_conversion_output: sync the   *)
(* file, rename it to the first name that is free, sync the directory.     *)
(* Where renames cannot refuse to replace, an exclusively created empty    *)
(* file reserves the name. "unsynced": moved, but the last sync failed.    *)

Install(from, name, next) ==
  /\ move' = [NoMove EXCEPT !.from = from, !.name = name, !.next = next]
  /\ Goto("move")

Moved(result, file) ==
  /\ move' = [move EXCEPT !.result = result, !.file = file]
  /\ Goto(move.next)

MoveFails ==
  /\ pc = "move" /\ (IF Taken(move.from) THEN Fault ELSE NoFault)
  /\ Moved("failed", Placeholder)
  /\ UNCHANGED at

Rename(to) ==
  \E result \in {"ok", "unsynced"} :
    /\ IF result = "ok" THEN NoFault ELSE Fault
    /\ at' = [f \in Files |-> IF at[f] = move.from THEN to
                              ELSE IF at[f] = to THEN Nowhere ELSE at[f]]
    /\ Moved(result, FileAt(move.from))

MoveFlagged ==
  /\ pc = "move" /\ choice.flagged /\ Taken(move.from)
  /\ \E place \in FreePlaces(move.name) : Rename(place)

BadReserve ==
  /\ pc = "move" /\ ~choice.flagged /\ Taken(move.from)
  /\ \E place \in FreePlaces(move.name) : move' = [move EXCEPT !.to = place]
  /\ Goto("rename") /\ NoFault /\ UNCHANGED at

Reserve ==
  /\ pc = "move" /\ ~choice.flagged /\ Taken(move.from)
  /\ \E place \in FreePlaces(move.name) :
       /\ at' = [at EXCEPT ![Placeholder] = place]
       /\ move' = [move EXCEPT !.to = place]
  /\ Goto("rename") /\ NoFault

RenameReserved ==
  /\ pc = "rename"
  /\ \/ Taken(move.from) /\ Rename(move.to)
     \/ /\ IF Taken(move.from) THEN Fault ELSE NoFault
        /\ at' = [at EXCEPT ![Placeholder] = Nowhere]
        /\ Moved("failed", Placeholder)

MoveKeeps == UNCHANGED <<known, owned, preserve, completed, failed, todo, task, sweep,
                         excused>>

MoveFile == (MoveFails \/ MoveFlagged \/ Reserve \/ RenameReserved) /\ MoveKeeps

-----------------------------------------------------------------------------
(* publish_staged_source_with_captions, and the same of one entry of       *)
(* install_downloaded_file_paths (task.installing). task.fails: the entry  *)
(* is reported as failed whatever becomes of its file.                     *)

Publish(m, captions, installing, fails, next) ==
  /\ task' = [media |-> m, captions |-> captions /\ choice.subtitles,
              installing |-> installing, fails |-> fails, next |-> next]
  /\ Install(Staged(m), Whole(m), "published")

\* The publication ends; file: what of it is reported as completed.
Ends(ok, file) ==
  /\ completed' = completed \cup file
  /\ failed' = IF ok /\ ~task.fails THEN failed ELSE failed \cup {task.media}
  /\ Goto(task.next)

BadPublished ==
  LET there == Taken(Staged(task.media)) IN
  /\ pc = "published"
  /\ IF move.result = "ok"
     THEN /\ completed' = completed \cup {move.file}
          /\ failed' = IF task.fails THEN failed \cup {task.media} ELSE failed
          /\ Goto(IF task.captions THEN "captions" ELSE task.next)
     ELSE Ends(FALSE, {f \in {move.file} : /\ ~task.installing /\ ~there
                                           /\ move.result = "unsynced"
                                           /\ <<Staged(task.media), f>> \in owned})
  /\ UNCHANGED <<at, known, owned, preserve, todo, task, move, sweep, faults, excused>>

Published ==
  LET there == Taken(Staged(task.media)) IN
  /\ pc = "published"
  /\ IF move.result = "ok"
     THEN /\ completed' = completed \cup {move.file}
          /\ failed' = IF task.fails THEN failed \cup {task.media} ELSE failed
          /\ Goto(IF task.captions THEN "captions" ELSE task.next)
          /\ UNCHANGED preserve
     ELSE /\ preserve' = (preserve \/ there)
          /\ Ends(FALSE, {f \in {move.file} : /\ ~task.installing /\ ~there
                                              /\ move.result = "unsynced"
                                              /\ <<Staged(task.media), f>> \in owned})
  /\ UNCHANGED <<at, known, owned, todo, task, move, sweep, faults, excused>>

CaptionPlace == In("stage", Caption(task.media))
HeldCaption  == In("held", Caption(task.media))
OwnedCaption(f) == <<CaptionPlace, f>> \in owned

\* A caption could not be published: the staging directory stays.
CaptionFails ==
  /\ preserve' = TRUE
  /\ failed' = IF task.installing \/ task.next = "caption fallback"
               THEN failed ELSE failed \cup {task.media}
  /\ Goto(task.next)

\* caption_sidecar_paths, and the move of the caption into quarantine.
TakeCaption ==
  /\ pc = "captions" /\ UNCHANGED completed
  /\ IF known /\ \A f \in Files : ~OwnedCaption(f)
     THEN /\ Goto(IF task.next = "caption fallback" THEN "decide" ELSE task.next)
          /\ UNCHANGED <<at, preserve, failed>> /\ NoFault
     ELSE \/ /\ IF Taken(CaptionPlace) /\ OwnedCaption(FileAt(CaptionPlace))
                THEN Fault ELSE NoFault
             /\ CaptionFails /\ UNCHANGED at
          \/ /\ Taken(CaptionPlace) /\ OwnedCaption(FileAt(CaptionPlace))
             /\ Goto("take caption") /\ UNCHANGED <<at, preserve, failed>> /\ NoFault
  /\ UNCHANGED <<known, owned, todo, task, move, sweep, excused>>

QuarantineCaption ==
  /\ pc = "take caption" /\ Taken(CaptionPlace)
  /\ at' = [at EXCEPT ![FileAt(CaptionPlace)] = HeldCaption]
  /\ Goto("check caption")
  /\ UNCHANGED <<known, owned, preserve, completed, failed, todo, task, move, sweep, faults,
                 excused>>

Restored == IF Taken(HeldCaption) /\ ~Taken(CaptionPlace)
            THEN [at EXCEPT ![FileAt(HeldCaption)] = CaptionPlace] ELSE at

CheckCaption ==
  /\ pc = "check caption" /\ UNCHANGED completed
  /\ IF OwnedCaption(FileAt(HeldCaption))
     THEN /\ Install(HeldCaption, Caption(task.media), "caption published")
          /\ UNCHANGED <<at, preserve, failed>>
     ELSE at' = Restored /\ CaptionFails /\ UNCHANGED move
  /\ UNCHANGED <<known, owned, todo, task, sweep, faults, excused>>

CaptionPublished ==
  /\ pc = "caption published" /\ UNCHANGED completed
  /\ IF move.result = "ok"
     THEN /\ Goto(IF task.next = "caption fallback" THEN "decide" ELSE task.next)
          /\ UNCHANGED <<at, preserve, failed>>
     ELSE at' = Restored /\ CaptionFails
  /\ UNCHANGED <<known, owned, todo, task, move, sweep, faults, excused>>

Publishes == \/ Published \/ TakeCaption \/ QuarantineCaption \/ CheckCaption
             \/ CaptionPublished

-----------------------------------------------------------------------------
(* install_downloaded_file_paths, publish_pending_sources and the loop of  *)
(* run_conversion.                                                         *)

InstallNext ==
  /\ pc = "install"
  /\ IF todo = <<>>
     THEN Goto("drop") /\ UNCHANGED <<task, move, todo>>
     ELSE /\ Publish(Head(todo), TRUE, TRUE, FALSE, "install")
          /\ todo' = Tail(todo)
  /\ UNCHANGED <<at, known, owned, preserve, completed, failed, sweep, faults, excused>>

BadPublishPending ==
  /\ pc = "pending" /\ Goto("drop")
  /\ UNCHANGED <<at, known, owned, preserve, completed, failed, todo, task, move, sweep,
                 faults, excused>>

PublishPending ==
  /\ pc = "pending"
  /\ IF todo = <<>>
     THEN Goto("drop") /\ UNCHANGED <<task, move, todo>>
     ELSE /\ todo' = Tail(todo)
          /\ IF Taken(Staged(Head(todo)))
             THEN Publish(Head(todo), TRUE, FALSE, FALSE, "pending")
             ELSE Goto("pending") /\ UNCHANGED <<task, move>>
  /\ UNCHANGED <<at, known, owned, preserve, completed, failed, sweep, faults, excused>>

\* convert_one until ffmpeg starts. A file of the target format is published
\* as it is; a failed setup publishes the original and reports the entry.
ConvertNext ==
  LET m == Head(todo)
      fallback == Publish(m, TRUE, FALSE, TRUE, "converted") IN
  /\ pc = "convert"
  /\ \/ todo = <<>> /\ Goto("drop") /\ UNCHANGED <<at, task, move>> /\ NoFault
     \/ /\ todo # <<>> /\ cancelled
        /\ Goto("pending") /\ UNCHANGED <<at, task, move>> /\ NoFault
     \/ /\ todo # <<>> /\ ~cancelled
        /\ \/ Publish(m, TRUE, FALSE, FALSE, "converted") /\ UNCHANGED at /\ NoFault
           \/ fallback /\ UNCHANGED at /\ Fault
           \/ /\ at' = [at EXCEPT ![Output(m)] = In("convert", Output(m))]
              /\ Goto("ffmpeg") /\ UNCHANGED <<task, move>> /\ NoFault
  /\ UNCHANGED <<known, owned, preserve, completed, failed, todo, sweep, excused>>

RemoveTemp(m) == [at EXCEPT ![Output(m)] = IF @ = In("convert", Output(m)) THEN Nowhere ELSE @]

FfmpegEnds ==
  LET m == Head(todo) IN
  /\ pc = "ffmpeg"
  /\ \/ cancelled /\ at' = RemoveTemp(m) /\ Goto("pending") /\ UNCHANGED <<task, move>>
     \/ /\ at' = RemoveTemp(m)
        /\ Publish(m, TRUE, FALSE, TRUE, "converted")
     \/ /\ ~cancelled
        /\ Install(In("convert", Output(m)), Output(m), "output")
        /\ UNCHANGED <<at, task>>
  /\ UNCHANGED <<known, owned, preserve, completed, failed, todo, sweep, faults, excused>>

\* What follows the install of the converted file. keep: the original carries
\* artwork or captions that the target cannot, or they could not be probed.
OutputInstalled ==
  LET m == Head(todo) IN
  /\ pc = "output" /\ UNCHANGED failed
  /\ IF move.result # "ok"
     THEN /\ at' = RemoveTemp(m)
          /\ Publish(m, TRUE, FALSE, TRUE, "converted") /\ UNCHANGED completed
     ELSE /\ completed' = completed \cup {Output(m)} /\ UNCHANGED at
          /\ \/ cancelled /\ Goto("pending") /\ UNCHANGED <<task, move>>
             \/ /\ ~cancelled
                /\ \/ Publish(m, TRUE, FALSE, FALSE, "converted")
                   \/ /\ task' = [NoTask EXCEPT !.media = m, !.next = "caption fallback"]
                      /\ Goto(IF choice.subtitles THEN "captions" ELSE "decide")
                      /\ UNCHANGED move
  /\ UNCHANGED <<known, owned, preserve, todo, sweep, faults, excused>>

CaptionFallback ==
  /\ pc = "caption fallback" /\ Publish(Head(todo), TRUE, FALSE, TRUE, "converted")
  /\ UNCHANGED <<at, known, owned, preserve, completed, failed, todo, sweep, faults, excused>>

Converted ==
  /\ pc = "converted" /\ todo' = Tail(todo) /\ Goto("convert")
  /\ UNCHANGED <<at, known, owned, preserve, completed, failed, task, move, sweep, faults,
                 excused>>

-----------------------------------------------------------------------------
(* The original of a converted file: published if the setting says so, or  *)
(* retire_staged_source. It is moved to a private directory and removed    *)
(* there, if it is still the file of the snapshot; a replacement goes to   *)
(* the download folder.                                                    *)

Held(m) == In("held", Whole(m))
IsOwned(m, f) == <<Staged(m), f>> \in owned

Decide ==
  LET m == Head(todo) IN
  /\ pc = "decide"
  /\ IF choice.keepOriginal \/ \A f \in Files : ~IsOwned(m, f)
     THEN Publish(m, FALSE, FALSE, FALSE, "converted")
     ELSE Goto("retire") /\ UNCHANGED <<task, move>>
  /\ UNCHANGED <<at, known, owned, preserve, completed, failed, todo, sweep, faults, excused>>

Retire ==
  LET m == Head(todo) IN
  /\ pc = "retire" /\ UNCHANGED completed
  /\ \/ /\ Fault                                 \* no private directory
        /\ preserve' = Taken(Staged(m))
        /\ failed' = failed \cup {m}
        /\ Goto("converted") /\ UNCHANGED at
     \/ /\ IF Taken(Staged(m)) THEN Fault ELSE NoFault
        /\ preserve' = (preserve \/ Taken(Staged(m)))
        /\ failed' = failed \cup {m}
        /\ Goto("converted") /\ UNCHANGED at
     \/ /\ Taken(Staged(m)) /\ NoFault
        /\ at' = [at EXCEPT ![FileAt(Staged(m))] = Held(m)]
        /\ Goto("check retired") /\ UNCHANGED <<preserve, failed>>
  /\ UNCHANGED <<known, owned, todo, task, move, sweep, excused>>

CheckRetired ==
  LET m == Head(todo)
      f == FileAt(Held(m)) IN
  /\ pc = "check retired" /\ UNCHANGED completed
  /\ IF ~IsOwned(m, f)
     THEN Install(Held(m), Whole(m), "replacement") /\ UNCHANGED <<at, preserve, failed>>
          /\ NoFault
     ELSE /\ Goto("converted") /\ UNCHANGED move
          /\ \/ /\ at' = [at EXCEPT ![f] = Nowhere]   \* and its directory, or not
                /\ \/ NoFault /\ UNCHANGED <<preserve, failed>>
                   \/ Fault /\ preserve' = TRUE /\ failed' = failed \cup {m}
             \/ Fault /\ preserve' = TRUE /\ failed' = failed \cup {m} /\ UNCHANGED at
  /\ UNCHANGED <<known, owned, todo, task, sweep, excused>>

ReplacementInstalled ==
  LET m == Head(todo) IN
  /\ pc = "replacement" /\ Goto("converted")
  /\ IF move.result = "ok"
     THEN completed' = completed \cup {move.file} /\ UNCHANGED <<failed, preserve>>
     ELSE /\ failed' = failed \cup {m} /\ UNCHANGED completed
          /\ preserve' = Taken(Held(m))
  /\ UNCHANGED <<at, known, owned, todo, task, move, sweep, faults, excused>>

-----------------------------------------------------------------------------
(* The end of the session: it is reported (complete_session), then         *)
(* DownloadStage is dropped. The directory is moved to a private name and  *)
(* removed there if it holds nothing that is not in the snapshot.          *)

Drop ==
  /\ pc = "drop"
  /\ \/ /\ IF preserve \/ ~known THEN NoFault ELSE Fault   \* retained
        /\ pc' = "done" /\ UNCHANGED root
     \/ /\ ~preserve /\ known /\ NoFault
        /\ pc' = "verify" /\ root' = "retired"
  /\ UNCHANGED <<choice, at, known, owned, preserve, session, todo, task, move, sweep,
                 excused>>

Verified == \A f \in StageFiles : <<at[f], f>> \in owned

Remove(files) == [f \in Files |-> IF f \in files THEN Nowhere ELSE at[f]]

Verify ==
  /\ pc = "verify" /\ pc' = "done"
  /\ IF Verified
     THEN \/ at' = Remove(StageFiles) /\ root' = "gone" /\ NoFault
          \/ \E some \in SUBSET StageFiles : at' = Remove(some) /\ UNCHANGED root /\ Fault
     ELSE /\ UNCHANGED at
          /\ \/ root' = "stage" /\ NoFault
             \/ UNCHANGED root /\ Fault
  /\ UNCHANGED <<choice, known, owned, preserve, session, todo, task, move, sweep, excused>>

\* The program ends, or dies: nothing but the disk is left.
Stops ==
  /\ pc \notin {"down", "sweep"} /\ pc' = "down"
  /\ todo' = <<>> /\ known' = TRUE /\ owned' = {} /\ preserve' = FALSE
  /\ completed' = {} /\ failed' = {} /\ cancelled' = FALSE
  /\ task' = NoTask /\ move' = NoMove
  /\ UNCHANGED <<choice, at, root, recorded, sweep, faults, excused>>

-----------------------------------------------------------------------------
(* sweep_staging_dir, in a start at least STALE_AFTER later. It removes    *)
(* what yt-dlp had not finished, and streams whose merged file it sees,    *)
(* and installs every other file in the download folder.                   *)

SweepKeeps == <<choice, known, owned, preserve, session, todo, task, move, excused>>

IsStream(name) == name[1] = "stream"
IsIntermediate(name) == name[1] = "part"

\* merged_output_stems: the stems of files that are no intermediates. The
\* stem of a caption ends in its language.
StemOf(name) == IF name[1] \in {"caption", "stranger"} THEN name ELSE <<"entry", name[2]>>

BadMergedStems ==
  {StemOf(name) : name \in {n \in {at[f].name : f \in FilesIn({"stage"})} :
                              ~IsIntermediate(n)}}

MergedStems ==
  {StemOf(name) : name \in {n \in {at[f].name : f \in FilesIn({"stage"})} :
                              ~IsIntermediate(n) /\ ~IsStream(n)}}

SweepBegins ==
  /\ pc = "down" /\ root # "gone" /\ pc' = "sweep"
  /\ sweep' = [left |-> {at[f] : f \in StageFiles}, merged |-> MergedStems,
               retained |-> FALSE]
  /\ UNCHANGED <<at, root, faults>> /\ UNCHANGED SweepKeeps

Unwanted(place) ==
  \/ place.dir = "convert"
  \/ place.dir = "stage" /\ IsIntermediate(place.name)
  \/ place.dir = "stage" /\ IsStream(place.name) /\ StemOf(place.name) \in sweep.merged

SweepOne(place) ==
  /\ pc = "sweep" /\ place \in sweep.left
  /\ \/ /\ (IF Taken(place) THEN Fault ELSE NoFault) /\ UNCHANGED at
        /\ sweep' = [sweep EXCEPT !.left = @ \ {place}, !.retained = TRUE]
     \/ /\ Taken(place) /\ NoFault
        /\ sweep' = [sweep EXCEPT !.left = @ \ {place}]
        /\ IF Unwanted(place)
           THEN at' = Remove({FileAt(place)})
           ELSE \E free \in FreePlaces(place.name) :
                  at' = [at EXCEPT ![FileAt(place)] = free]
  /\ UNCHANGED <<pc, root>> /\ UNCHANGED SweepKeeps

SweepEnds ==
  /\ pc = "sweep" /\ sweep.left = {} /\ pc' = "down" /\ sweep' = NoSweep
  /\ root' = IF sweep.retained \/ StageFiles # {} THEN root ELSE "gone"
  /\ UNCHANGED <<at, faults>> /\ UNCHANGED SweepKeeps

SweepDies ==
  /\ pc = "sweep" /\ pc' = "down" /\ sweep' = NoSweep
  /\ UNCHANGED <<at, root, faults>> /\ UNCHANGED SweepKeeps

-----------------------------------------------------------------------------

Ytdlp ==
  \/ \E m \in Media : Fetch(m) \/ FinishStreams(m) \/ Merge(m) \/ Tidy(m) \/ ReportFinished(m)
  \/ \E usable, drained \in BOOLEAN : YtdlpExits(usable, drained)

Stranger == \E x \in Foreign : Replace(x) \/ Deposit(x) \/ Squat(x)

Worker == \/ HandOff \/ MoveFile \/ Publishes \/ InstallNext \/ PublishPending
          \/ ConvertNext \/ FfmpegEnds \/ OutputInstalled \/ CaptionFallback \/ Converted
          \/ Decide \/ Retire \/ CheckRetired \/ ReplacementInstalled \/ Drop \/ Verify

Sweep == SweepBegins \/ SweepEnds \/ SweepDies \/ \E p \in Places : SweepOne(p)

Next == Ytdlp \/ Stranger \/ CancelSession \/ Worker \/ Stops \/ Sweep

Spec == Init /\ [][Next]_vars

-----------------------------------------------------------------------------
(* Properties.                                                             *)

Kept(f) == at[f] # Nowhere

\* No two files are in one place; the worker's bookkeeping is well formed.
TypeOK ==
  /\ choice \in Choices /\ at \in [Files -> Places \cup {Nowhere}]
  /\ \A f, g \in Files : Kept(f) /\ at[f] = at[g] => f = g
  /\ root \in {"stage", "retired", "gone"} /\ faults \in 0 .. MaxFaults
  /\ Reported \subseteq Media /\ Entries(todo) \subseteq Media
  /\ completed \subseteq Files /\ failed \subseteq Media /\ excused \subseteq Files
  /\ known \in BOOLEAN /\ preserve \in BOOLEAN /\ cancelled \in BOOLEAN
  /\ owned \subseteq Places \X Files
  /\ root = "gone" => StageFiles = {}

\* Whatever fails and whenever the program dies: of an entry that yt-dlp has
\* reported as finished there is the downloaded file, or the converted one
\* under its final name, unless another program has replaced it.
FinishedSurvives ==
  \A m \in Reported :
    Kept(Whole(m)) \/ Whole(m) \in excused \/ at[Output(m)].dir = "download"

\* A file that another program wrote is neither overwritten in the download
\* folder nor removed with the staging directory, whatever it lies in for.
\* Only what is there when yt-dlp exits counts as the session's own.
StrangersSurvive ==
  [][\A x \in Foreign : Kept(x) /\ x \notin excused => Kept(x)']_vars

\* The session answers for every entry when it ends: a file it reports as
\* completed is in the download folder, and an entry of which it reports
\* neither a file nor a failure had no finished file when yt-dlp exited.
EveryEntryAnswered ==
  pc = "drop" =>
    /\ \A f \in completed : at[f].dir = "download" \/ f \in excused
    /\ \A m \in Reported :
         \/ m \in failed
         \/ Whole(m) \in completed \cup excused \/ Output(m) \in completed

PublicationInv == TypeOK /\ EveryEntryAnswered

\* The sweep only tidies: it removes no finished file, and no streams but
\* those whose merged file is still there, in staging or where the sweep
\* has installed it.
SweepRemovesOnlyRedundant ==
  [][pc = "sweep" =>
       \A m \in Media :
         /\ Kept(Whole(m)) => Kept(Whole(m))' \/ Whole(m) \in excused'
         /\ at[Stream(m)] = In("stage", Stream(m)) =>
              Kept(Stream(m))' \/ Kept(Whole(m)) \/ Whole(m) \in excused]_vars

=============================================================================
