# ROSI in TLA+

ROSI is a desktop front end for yt-dlp: a Tauri application whose Rust side
(`src/src-tauri/src`) runs downloads, a queue and their persistence, and whose
TypeScript side (`src/src`) is the user interface. This directory holds the
TLA+ model of the part whose correctness depends on the order in which threads,
processes and file operations do things: the one download session, the download
queue, how the queue gets to disk, how the window closes, how finished files get
from the staging directory to the user, the metadata probes, the proxy that vets
yt-dlp's connections, how the settings get from the renderer to disk, and the import
of the previous version's data. TLC checks the models on small instances; TLAPS
proves what matters most about all of them for every instance.

    tlc -workers 2 -config DownloadSession_cancels.cfg MCDownloadSession.tla
    tlapm --threads 4 DownloadSession_proofs.tla

`PROJECT.json` lists the runs with their properties, the bugs ("mutants") each
property has been shown to catch, the source lines each definition stands for,
the hazards and the theorems.

## 1. The system

Paths are relative to `src/src-tauri/src` unless they start with `src/`.

| Component | State it keeps | Operations | Module |
|---|---|---|---|
| Download session (`downloader.rs`) | `ACTIVE`: at most one `Session` (owner, cancel flags, child handles, callback); `FINALIZING`: sessions whose callback is pending; `COUNTER`; locks `STARTUP`, `EVENT_PUBLISH` | `start_download`, `cancel_active_session`, `kill_all_processes`, the exit waiter and `on_ytdlp_exit`, `run_conversion`, `complete_session` | `DownloadSession` |
| Queue (`queue.rs`) | `QueueState`: items, running, cancelled, active item, runner alive, stopping; `START_GUARD` | `run_queue` (the runner), add, remove, retry, reorder, clear, clear finished, start, cancel, `stop` | `DownloadQueue` |
| Queue persistence (`queue.rs`, `fs_util.rs`) | revision, `PERSIST_SIGNAL`, `highest_attempted`, `last_persisted`, the primary and the backup file | `broadcast`, the background worker, `flush`, `atomic_write`, `guard_before_replace` | `QueuePersistence` |
| Close protocol (`window.rs`, `main.rs`) | close generation, in progress, acknowledged, confirming, warning, quitting | close request, renderer acknowledgement, timeout, forced close, quit, restart, run events | `CloseProtocol` |
| File publication (`downloader.rs`, `staging.rs`) | the staging directory, identities of staged files, `preserve_on_drop` | no-replace installs, captions, quarantine of originals, drop of the stage | `Publication` |
| Startup staging sweep (`staging.rs`) | the staging directories crashes left | sweep, recovery | `Publication` |
| Media information probes (`media_info.rs`, `process_util.rs`) | `TrackedSlot`: generation, current operation; `ManagedChild`: state, status | get formats, get video info, cancel; `wait_timeout`, `terminate_tree` | `MediaProbe` |
| Network guard (`network_security.rs`, `ip_policy.rs`) | queue of clients, table of active sockets, DNS queue, flags | accept, serve, resolve, vet, connect, relay, stop, drop | `NetworkGuard` |
| Helper processes (`process_util.rs`) | process trees | spawn, wait, `terminate_tree` | `MediaProbe`, partly `DownloadSession` |
| Settings store (`settings-store.ts`, `settings.rs`) | the renderer's copy, its revision, debounce, pending requests, the save under way; `settings.json` under `SETTINGS_LOCK` | edit, flush, save, import, reset | `SettingsStore` |
| Statistics, activity (`stats.rs`, `activity.rs`) | one JSON file each under one lock | read-modify-write | - |
| Legacy import (`legacy.rs`) | the marker of a first-launch import, the copied files | import, resume, recover | `LegacyImport` |
| Updater, controllers (`src/src/updater.ts`, `src/src/engine/*`) | channel, pending update, action locks | check, download, install, queue and manual commands | partly `DownloadQueue` |
| Pure parts (`validation.rs`, `command_builders.rs`, `progress.rs`, `types.rs`) | none | validation, argument building, parsing | - |
| Shell (`app_menu.rs`, `logging.rs`, `platform.rs`, ...) | none of interest | menus, paths, logs | - |

Also in the repository and not modelled: `scripts/`, `e2e/`, `testdata`, the
vendored `tauri-plugin-updater`, the view code.

How they interact. A manual download (`download_video`) and the queue runner
both call `start_download`; a session carries a completion callback that for the
queue ends in `finish_item`, which takes the queue lock and broadcasts.
`cancel_queue`, `clear_queue` and `stop` call `cancel_active_session` holding
`START_GUARD`; closing, quitting and restarting call `stop` between two `flush`
calls. Every change of the queue calls `broadcast`, which wakes the persistence
worker. A session owns a staging directory, whose files its worker publishes, and
a network guard, which is told of a cancel by the session's flag; a probe has a
guard of its own. The renderer issues commands, saves the settings, which commands of
the backend read from disk, and acknowledges the close once they are saved. The import
of ROSI 4's data ends before anything else reads the data folder.

What is hard about it:

* *Concurrency.* Starters, cancellers, the exit waiter, the conversion thread,
  reader threads, the runner, the persistence worker, proxy and DNS workers and
  Tauri's command threads share a handful of locks that are deliberately not held
  across file, network and process operations, so every decision may be stale
  when it is acted on.
* *Other programs.* They write to the download folder and to staging between any
  two file operations, and the kernel gives the number of a reaped process away.
* *Failure.* Helpers fail, stall or are killed; files cannot be renamed; a lookup
  hangs; the program dies between two writes, also of an import it has to resume.
* *Ordering.* Events of an old session against those of its successor; a late
  snapshot against a newer one; an old timer against a new close; a probe's answer
  against a newer request; the answer of a save against newer edits.
* *Waiting.* `cancel_session` waits for a worker, `start_download` for a cancel,
  `stop` for the runner, the runner for a callback or for the slot, a dropped guard
  for its listener.

`PROJECT.json` lists each hazard at its line, with the properties that watch it. A hazard
the code does meet, against its own words, has none: its note points to section 6.

What makes each component correct: of the *session*, one callback, one outcome,
no orphaned helper, ordered events, cancels that return and have seen what they
waited for; of the *queue*, one record per attempt, no item stuck in
"downloading", no run without a runner, no download left after a cancel; of
*persistence*, that what a flush confirmed survives and nothing foreign is lost;
of the *close protocol*, that no flag is left set with nobody to clear it, and
that late steps of an old request do nothing; of *publication*, that no finished
file and no stranger's file is lost; of the *probes*, that only the latest request
succeeds and no process is left or signalled by mistake; of the *network guard*,
that it connects to vetted addresses only and leaves nothing open; of the *settings
store*, that "saved" means on disk and that no edit is lost or taken back; of the
*import*, that no file is forgotten and none of ROSI 5's overwritten.

## 2. The modules

    SessionSlot            what the session slot promises its clients
       ^  implemented by            ^  used by (EXTENDS)
    DownloadSession        DownloadQueue

    QueuePersistence       the queue's way to the disk
    CloseProtocol          closing, quitting, restarting
    Publication            files from staging to the download folder, the sweep
    MediaProbe             metadata probes and their process trees
    NetworkGuard           the loopback proxy and its DNS pool
    SettingsStore          the renderer's settings and settings.json
    LegacyImport           the import of ROSI 4's files

Each of them has its MC module, if it needs one, and a module `..._proofs` that extends
it with its theorems. `MediaProbe` and `CloseProtocol` share one, `Generations_proofs`: in
both a generation number decides what a late step may still do. For its sake the
specification of `CloseProtocol` is called `CloseSpec`.

The MC modules only add symmetry sets and sets of instances. `GuardInv`, `StoreInv`,
`ImportInv` and `PublicationInv` are the type invariant together with another invariant
that is cheap to look at with it. Operators named
`Bad...` are no part of a specification: each is the operator after it with a
plausible bug.

### DownloadSession

One action is what a thread does under one acquisition of `ACTIVE`, so that lock
needs no variable. `STARTUP` and `EVENT_PUBLISH` are held across several
acquisitions; `startup` and `publish` hold their owners. `pc` says where each
starter, canceller and session worker is.

| Code | Actions |
|---|---|
| `complete_session` | `CompleteTake` (slot to `FINALIZING`, under `EVENT_PUBLISH`; returns if somebody else took the session; a partial playlist's success becomes a failure), `CompletePublish`, `CompleteCallback`, `CompleteFinish` (drop of `CompletionFinalizer`) |
| `cancel_session` | `CancelCall` or `StartReplace`, `CancelKill`, then the worker is waited for (`WaitSlot`, `WaitFinal`) or the canceller completes; `CancelReturn` |
| `start_download` | `StartCall`, `StartConflict`, `StartExisting`, `StartReplace`, `Install`, `SetupFails`, `SetupAbandoned`, `SpawnYtdlp`, `RegisterYtdlp`, `RegisterRefused`, `ReapYtdlp` |
| waiter, `on_ytdlp_exit` | `YtdlpExits`, `ExitSeen`, `ExitFailed`, `ExitUsable`, `InstallFiles`, `Handoff` |
| `run_conversion`, `convert_one`, `execute_ffmpeg` | `ConvertNext`, `PublishSame`, `SpawnHelper`, `SpawnHelperFails`, `RegisterHelper`, `HelperExits`, `HelperDone`, `PublishOutput`, `PublishSource` |
| `send_progress`, `emit_job_progress` | `Progress` |

Abstractions. Files are a count (`Files`), a file's fate is whether it failed.
The waiter and the conversion thread are one worker, because the first ends as
the second begins. The check before the spawn of yt-dlp and the spawn are one
action: a cancel between them is refused at the registration, as is one after
the spawn. The setup of a session (validation, directories, media tools, proxy)
is one state from which it fails, is abandoned or goes on. After completion a
session's fields are reset, except for its owner and whether it was cancelled,
which properties look at. The exit waiter's early return for a session that is
no longer in the slot has no action: `WorkerOwnsSession`, which is proved, says
that it is unreachable.

### SessionSlot

The slot without locks, threads and processes: a session is unused, active,
finalizing, calling or done; only one is active; `Complete` chooses an outcome,
`Cancelled` only after `RequestCancel`; `Deliver` and `Finish` are the callback.
`DownloadSession` implements it (`ImplementsSlot`, and with fairness
`ImplementsFairSlot`) under the mapping at the end of that module.

### DownloadQueue

The runner (`rpc`), commands (`pc`, `cmd`), `stop` and the manual command over
`SessionSlot`. One action is one acquisition of the queue lock or of `ACTIVE`;
`START_GUARD` and `STARTUP` are variables. What the slot's implementation
restricts further, because the client is itself inside `start_download` or
`cancel_session`, is in `MayComplete` (who can complete a session that is being
set up) and `Settled` (which cancels return before the callback).

*Who may issue what.* In the renderer start, cancel, clear and add hold
`queueActionLocks` (`src/src/engine/queue-controller.ts`), so one Commander
issues them one at a time; the buttons of an item (remove, retry, reorder) look
at no lock, so `ItemCommand` may happen at any time. `cancel_queue` called twice
concurrently would record an item twice; the renderer excludes that, and the
model follows it. The threads of `window.rs` are Stoppers: they go on when the
renderer does not, and there may be several.

The activity record is counted together with the change of status it belongs to.
An item's id may return after removal only when nobody remembers it, since real
ids are never used twice.

### QueuePersistence

The queue's content is the number of changes it has seen. A file has its present
content and the contents that a power loss may leave (`after`): a rename is
durable once the directory was synced (`sync_directory`; on Windows the rename
itself writes through, which is the case where the loss does not happen). The
temporary file is never visible under the real name and needs no state.
`Crash` may happen between any two steps. A flush refused because the file
belongs to a newer version returns Ok in the code; it confirms no version here,
since that refusal keeps the file on purpose.

### CloseProtocol

One close request is one `a \in Closes`. `phase[a]` is how far it has come on the
main thread (`on_main_close_requested`), the thread of its confirmation and the
command of the renderer (`notify_settings_flushed`); `warn[a]` is its timer, the
dialog that offers the forced close, and the thread of the forced close; `shut`
is where each `shutdown` is: of a close, of a restart, or of the main thread when
the app quits or exits. `flag` holds the statics. The main thread does one thing
at a time (`main`), which is why `ForceDestroy`, `WindowRemoved`, `RequestQuit`
and the others wait until it is idle. `macos` is chosen at the start: quitting
without closing, the Dock and `Reopen` exist only there.

| Code | Actions |
|---|---|
| `on_main_close_requested` | `CloseRequested`, `CloseIgnored`, `AlreadyConfirming`, `StartConfirming`, `AskUser`, `CloseUnasked`, `UserConfirms`, `UserDeclines` |
| `begin_flush_and_close`, its timer | `BeginFlush`, `TimerFires`, `ShowWarning` |
| `offer_forced_close`, `force_close` | `KeepOpen`, `CloseAnyway`, `ForceStop`, `ForceClaim`, `ForceDestroy` |
| `notify_settings_flushed` | `RendererFlushed`, `FlushFirst`, `CheckCurrent`, `StopWork`, `FlushSecond`, `ShutdownFailed`, `Consume`, `DestroyMain` |
| run events of `main.rs`, `on_main_destroyed` | `WindowRemoved`, `OnMainDestroyed`, `AppExits`, `WindowOnlyCloses`, `LastWindowClosed`, `ProcessEnds`, `Reopen` |
| `request_quit`, `restart_with` | `RequestQuit`, `QuitWithoutWindow`, `QuitReturns`, `RestartApp`, `RestartFails`, `RestartSucceeds`, `ExitToRestart` |

`queue::stop` and `queue::flush` are one step each here, the second with failure;
what they do inside is in `DownloadQueue` and `QueuePersistence`. `window.destroy()`
only sends a message: the window is "doomed" until the event loop removes it. The
renderer may never answer, and answers a request at most once, in the window that
was told. `restart_app` is called again only after it has failed. Stores to
atomic flags that stand next to each other (a dialog's answer) are one action.

`CloseHasOwner` and `QuitHasOwner`, the parts of `FlagsHaveOwners`, say as invariants
what would be liveness: a set `CLOSE_IN_PROGRESS` or `APP_QUITTING` has somebody who
will clear it.

### Publication

One session's files, followed by identity (`at`: where each file is), from yt-dlp's
writes to the download folder, and the sweep of a later start. The worker is one
thread; what runs beside it is another program that writes to either directory, a
cancel, and the end of the program, which may come before any step (`Stops`). Each
operation on the file system may fail as long as `MaxFaults` allows.

| Code | Actions |
|---|---|
| yt-dlp | `Fetch`, `FinishStreams`, `Merge`, `Tidy`, `ReportFinished`; what it prints and leaves is external |
| `on_ytdlp_exit`, `snapshot_owned_contents`, `recover_staged_downloads` | `YtdlpExits`, `HandOff` |
| `install_no_replace` with and without a no-replace rename | `MoveFlagged`, `Reserve`, `RenameReserved`, `MoveFails` |
| `publish_staged_source_with_captions`, `publish_owned_caption_sidecar` | `Publish`, `Published`, `TakeCaption`, `QuarantineCaption`, `CheckCaption`, `CaptionPublished` |
| `install_downloaded_file_paths`, `publish_pending_sources` | `InstallNext`, `PublishPending` |
| `run_conversion`, `convert_one` | `ConvertNext`, `FfmpegEnds`, `OutputInstalled`, `CaptionFallback`, `Converted`, `Decide` |
| `retire_staged_source` | `Retire`, `CheckRetired`, `ReplacementInstalled` |
| `DownloadStage::drop` | `Drop`, `Verify` |
| `sweep_download_folder`, `sweep_staging_dir` | `SweepBegins`, `SweepOne`, `SweepEnds`, `SweepDies` |

Abstractions. The streams of an entry are one file, with the name `part` until
they are complete. An install takes the first free of a few numbered names. A name
that carries a fresh UUID is out of the reach of other programs. Only an entry that
yt-dlp reported counts as finished. `excused` is a history variable: files that
another program replaced, and a stranger's file that was in staging when yt-dlp
exited and therefore counts as the session's own. Left out: the identity check of
the root and `is_busy`, empty directories, the files in which staging directories
are recorded, what a power loss undoes (the order of syncs), the suffix of
recovered names, captions of two entries of which one name begins with the other's
("Foo" and "Foo. Bar"; 1428-1486), and the age limit of the sweep: it only runs when the
program that made the directory is gone. The branch of `run_conversion` for a
session that is not in the slot any more is unreachable by `WorkerOwnsSession`.

### MediaProbe

The threads are the requests (`get_formats`, `get_video_info`) and the calls of
cancel; each request has at most one child, which is a leader and a helper, in its
process group or escaped from it. `holder` says who holds `ManagedChild.state` over
more than one step, `starting` who holds `TrackedSlot.starting`. `taken` is the
operation a thread took out of the slot and will end, `after` where it goes on then.

| Code | Actions |
|---|---|
| `TrackedSlot::reserve`, `cancel` | `Reserve`, `Cancel`, `Poison` (marks the predecessor), `Return` |
| `terminate_tree` | `Kill`, `Term`, `Grace`, `Reap` |
| `fetch_formats`, `fetch_video_info` | `Prepare`, `Transform`, `Answer` |
| `run_reserved_with` | `Gate`, `Spawn`, `Register`, `Check`, `Release` |
| `wait_timeout`, `receive_drain` | `Wait`, `Collect`, `Drain` |
| processes (external) | `LeaderExits`, `HelperStarts`, `HelperExits` |

The answer is one of ok, failed, cancelled, refused and timed out. `windows`
chooses job objects, where no helper escapes. On Unix only the branch where the
child leads its group is modelled; `owned_group_survivors` is never TRUE there,
since nothing but a signal ends the group and both are one step; a failing `waitid`
counts as a timeout; the generation does not wrap.

### NetworkGuard

One guard: `Owner` holds it, `Listener` accepts, the workers `1 .. setup.workers` serve
the clients `1 .. setup.clients`, and `DnsWorkers` are the pool all lookups go
through. One action is one acquisition of the queue, of the table of active sockets
or of the DNS state, or one blocking call. `asleep` says who waits for its
condition variable.

| Code | Actions |
|---|---|
| `start_inner`'s listener, `ProxyShared::enqueue` | `Accept`, `Enqueue` |
| `next_client`, `proxy_worker`, `handle_proxy_client` | `NextClient`, `RegisterClient`, `Resolve`, `Finish` |
| `resolve_system_dns_with_cancel`, `DnsResolverPool::enqueue`, `cancel` | `Resolve`, `AwaitReply` (which also abandons the job), `Retain` |
| `vet_destination` | `Allowed`, `Vet` |
| `connect_addresses`, `connect_to_upstream_proxy`, `connect_via_upstream` | `Connect` |
| `ActiveSockets::register`, `relay_bidirectional` | `RegisterUpstream`, `Relay` |
| `ProxyShared::stop`, `NetworkSecurityGuard::drop` | `StopStore`, `StopSweep`, `DropGuard`, `JoinListener` |
| `dns_resolver_worker` | `DnsPop`, `DnsBegin`, `DnsReply` |

An answer of the DNS is a set of "public" and "private": the table of `ip_policy.rs`
is left out, and so are the parsing of requests, credentials, the framing of bodies
and the download of thumbnails. A body or tunnel only ends. The check
of an answer and the connection are two actions, between which the worker keeps the
answer in `lookup`: a `Connect` that resolved the name again would break
`ConnectsOnlyToVetted`. `stop` locks the queue
and the table one after the other; as nothing enters either of them once the flag
is set, both are emptied in one action.

### SettingsStore

The renderer as a write-back cache of `settings.json`. What runs between two awaits is
one action; the backend's `save_settings` is two, because it compares the renderer's copy
with the file before `save_patch` takes the lock and merges. `requests` are
`settingsSaveWaiters` together with the answers given, `save` is the one save under way
(`settingsSaveInFlight`) with its snapshot and revision.

| Code | Actions |
|---|---|
| `trackSettings`, `persistSettings`, the debounce | `Edit`, `Flush`, `DebounceEnds` |
| `save_settings`, `save_patch` | `Validate`, `WritePatch` |
| `drainSettingsSaves` after its awaits, `settleSettingsSaveWaiters` | `SavedReply`, `RefusedReply` (after `ReadStored`), `ErrorReply`, `CallThrows`, each ending in `Finish` |
| `import_settings`, `onSettingsImported`; `reset_settings`, `restart_with` | `ReplaceAsked`, `ReplaceFlushed`, `ReplaceFile`, `ImportAnnounced`, `Restart` |

A field holds one of a few values; what the migration makes of each is the constant
`Normal`, what the validation refuses the set `Refused`. Fields do not depend on each
other, which they do in the download mode. A file of a newer ROSI (`newer`) is never
written and its saves are answered with "saved", as the code does. The file is neither
missing nor damaged: `guard_before_replace` is in `QueuePersistence`.

### LegacyImport

Launch after launch. `marker` is `legacy-v4-import.json`, `work` the marker in memory,
`attempt` the arguments of `import_from`. A file is whose it is: a candidate folder's of
ROSI 4, or ROSI 5's own. Every write is atomic (`atomic_write`), any of them and any read
may fail, and the program may stop between all of them.

| Code | Actions |
|---|---|
| `import_on_first_launch` up to the call | `Launch` (with `Found`, `Recovered`, `Resumes`) |
| `import_from` | `Afresh` or `Resume` within `Launch`, `ReadSettings`, `WriteIntent`, `Copy` (one file of `DATA_FILES`), `CommitSettings` |
| the rest of `import_on_first_launch` | `WriteOutcome` |
| outside | `WriteOwnData`, `WriteOwnSettings`, `Quit`, `Crash`, `Move` |

Left out are `recovery_message`, the version of the marker, its list of imported files (it is only shown) and
reads of ROSI 4's files that fail while an early marker is recovered, which only delay it
to the next launch.

## 3. The runs

| Run | Instance | Shows |
|---|---|---|
| `session_cancels` | 1 starter, 2 cancellers, all cancel modes, 1 session, 2 files | `NoOrphanProcess`, `KilledReportsCancelled`, `WaitingCancelSeesCallback`, types; refinement with liveness `ImplementsFairSlot` |
| `session_starts` | 2 starters, 1 canceller, all modes, 2 sessions, 1 file | `CallbackExactlyOnce`, `WorkerOwnsSession`, `CleanReplacement`, `WaitsAreAnswered`, refinement `ImplementsSlot` |
| `queue_safety` | 2 items, 1 commander, 1 stopper, 1 counted command | `RecordedOnce`, `NothingIsStuck`, `CancelledQueueHoldsNoSession`, types |
| `queue_live` | 1 item, 1 commander, 1 stopper, 2 counted commands | `CommandsReturn`, `CancelledRunEnds` |
| `persistence_crash` | 2 flushers and the worker, 2 changes, 2 flushes, 1 fault, 1 damage, 1 crash | `FlushedSurvives`, `ChangesAreOnTheWay`, `ForeignBytesKept` (the types are proved) |
| `close_protocol` | 2 close requests, 1 failing call, 2 of start of work, restart, reopen; both kinds of platform | `FlagsHaveOwners`, `LateStepsHarmless`, types |
| `media_probe` | 2 requests, 1 cancel, with and without job objects | `SignalsOwnGroup`, `NoProbeIsLeft`, `AnswersFitTheSlot`, `CallsReturn` (the types are proved) |
| `network_guard` | 2 workers for 2 clients, and 1 worker for 3 clients behind an upstream proxy; 1 DNS worker, queues of 1 | `StopLeavesNothingOpen`, `ConnectsOnlyToVetted`, `DropEndsWorkers`, `GuardInv` (types, `QueuedLookupIsAwaited`) |
| `publication` | 2 entries, one with captions, 1 stranger's file, 3 settings, 1 fault | `FinishedSurvives`, `StrangersSurvive`, `SweepRemovesOnlyRedundant`, `PublicationInv` (types, `EveryEntryAnswered`) |
| `settings_saves` | 3 requests (edits, flushes, an import or reset), 2 fields of 4 values, 1 fault | `SavedMeansOnDisk`, `RepliesSpareEdits`, `StoreInv` (types, `QuietMeansSaved`) |
| `legacy_import` | 2 installations, 3 data files, 2 faults, installations that come or go twice | `SettledProfileIsKept`, `MissingFilesArrive`, `ImportInv` (types, `NothingIsForgotten`) |
| `publication_two_faults` | 2 entries, 1 stranger's file, 2 faults | the bug of section 6, by the violation of `FinishedSurvives` |

What the types say is a little more than types where that is what the code relies
on: `TypeOK` of the queue has no item twice, that of publication no two files at one
place, that of the close protocol (`HandlersMatch`) which handlers can be at work
at the same time, that of the guard the limits of its queues.

Why the bounds are enough to be interesting. Two cancellers are needed for a
cancel that loses its race, two starters of either owner for a conflict, two
sessions for a replacement and for order between sessions, and two files so that
a cancel finds a batch partly done. In the queue the second item is there for
a run that goes on after the first, and `MaxCommands` counts only commands that
lead to more sessions (add, retry, cancel, clear, stop, manual); the others are
unbounded. Two items with two counted commands (4.5 million states) pass as well,
but take too long for a run that is repeated often. Two close requests are what it
takes for a newer one to overtake an older one's flush, timer or forced close. In
persistence two flushers and the worker are three writers with different
revisions at once, enough for a skipped, a superseded and a written snapshot. Two
probes and a cancel give a predecessor that is overtaken in any phase while
somebody else is ending its tree. In the guard, two workers race each other and
every stop(); one worker with three clients serves one, lets one wait and refuses
one; one DNS worker that hangs is the whole pool hanging. Two entries are needed for
what one entry's publication does to another's, one fault at any operation for every
error path. Three requests for a save are one that is under way, one that its answer
must not serve, and one that waits for the debounce; a second field is there for a
refused one beside a saved one. Two faults in the import are a failed attempt and a failed
retry; the second installation is there to be found instead of the first, or after it.
`MaxSessions`, `MaxCommands`, `MaxCloses`, `MaxChanges`, `MaxFlushes`,
`MaxFaults`, `MaxDamages`, `MaxCrashes`, `MaxMoves`, the requests for a save (`Calls`) and the names an install tries (`Tries`) are the
only bounds besides the sets of threads, files and clients. When they are used up
the system stops, and so it may in reality, when nobody issues a command any more;
hence `CHECK_DEADLOCK FALSE`. That no thread is stuck half way is what the liveness
properties say. Symmetry is used in runs without liveness only.

## 4. Fairness

Only threads that have something to do are assumed to run (weak fairness of each
thread's steps): each is an operating-system thread, the locks are released in
finite time, and every condition variable wait is in a loop over the condition.
Nothing is assumed of the environment: no command has to be issued, yt-dlp need
not end by itself (`YtdlpExits` is not fair), no progress line has to come, no
fault has to happen. ffmpeg does end (`HelperExits` is fair) because
`execute_ffmpeg` kills it after ten minutes without output; a helper that a
cancel killed is dead because `terminate_tree` waits for that. The queue's
fairness assumes of the session exactly what `ImplementsFairSlot` checks: a
cancelled session completes, a completed one calls back. In the queue, a manual
download that nobody cancels may run for ever, and then so may the runner's
polling: `CancelledRunEnds` says that a cancel ends it all the same.

`MediaProbe` assumes as much of the thread of a call once it is made, and nothing of
the processes: leaders and helpers may live for ever, and a request returns because
its waits are bounded. In `NetworkGuard` the blocking calls of a worker are bounded
(`IO_TIMEOUT`, the wait for a lookup) and therefore fair, with two exceptions. A lookup
of the operating system may hang (`DnsReply` is not fair). And a relay lasts as long as
its two ends keep it going: the copy of an answer (`network_security.rs:869`) does not look at
`stopped`, so `Relay` is fair only once one of its sockets is shut, and `DropEndsWorkers`
rests on the scan of `stop`. One condition stands for all threads there: each turn of a
loop uses up a client, a job or a stop, so no thread can keep the others from running.
`LegacyImport` assumes that a launch ends and that
the user starts ROSI again, as `recovery_message` asks, and that faults end, as their
bound says: without either no file need ever arrive. `Publication`, `QueuePersistence`,
`CloseProtocol` and `SettingsStore` have no fairness; where something must come, their
properties say that somebody is on the way to it (`ChangesAreOnTheWay`, `FlagsHaveOwners`,
`EveryEntryAnswered`, and `QuietMeansSaved`, by which nobody waits for a save when neither
a save nor a timer is there). For `start_download`, which may wait with `STARTUP` held,
`WaitsAreAnswered` says the same.

## 5. The proofs

Each theorem holds for any number of threads, sessions, requests, clients, files,
changes and faults, under the assumption of its module alone (threads are distinct,
bounds are natural numbers). None of the properties is inductive; each module
strengthens them to an invariant, has one lemma for each of its conjuncts with a case
for each action that can disturb it, and combines them. The invariants were
checked by TLC before they were proved.

| Module | Theorems | Property |
|---|---|---|
| `DownloadSession_proofs` | `TypeCorrect`, `ExactlyOnce`, `WorkerOwns`, `Implements` | `TypeOK`, `CallbackExactlyOnce`, `WorkerOwnsSession`, the refinement `ImplementsSlot` |
| | `NoOrphans`, `WaitsAnswered`, `Replacement` | `NoOrphanProcess`, `WaitsAreAnswered`, `CleanReplacement` |
| | `KilledCancelled`, `CallbackSeen` | `KilledReportsCancelled`, `WaitingCancelSeesCallback` |
| `DownloadQueue_proofs` | `OnceRecorded`, `CancelledHoldsNone` | `RecordedOnce`, `CancelledQueueHoldsNoSession` |
| | `NotStuck`, `WorkedOn` | `NothingIsStuck` with one stopper, its first two parts with any number |
| | `TypesKept`, `UsesSlot` | `TypeOK`; that each step of the queue is one of `SessionSlot` or leaves the slot alone |
| `QueuePersistence_proofs` | `TypeCorrect`, `FlushSurvives`, `ForeignKept`, `ChangesArrive` | the types, `FlushedSurvives`, `ForeignBytesKept`, `ChangesAreOnTheWay` |
| `Publication_proofs` | `PublicationHolds`, `OneFaultSurvives` | `PublicationInv`, `FinishedSurvives` while at most one operation has failed |
| | `StrangersAreKept`, `SweepOnlyTidies` | `StrangersSurvive`, `SweepRemovesOnlyRedundant` without thumbnails |
| `Generations_proofs` | `CloseTypeCorrect`, `FlagsOwned`, `LateHarmless` | `CloseTypeOK`, `FlagsHaveOwners`, `LateStepsHarmless` |
| | `TypeCorrect`, `OwnGroup`, `NoneLeft`, `AnswersFit` | of `MediaProbe`: the types, `SignalsOwnGroup`, `NoProbeIsLeft`, `AnswersFitTheSlot` |
| `NetworkGuard_proofs` | `NothingOpen`, `OnlyVetted`, `LookupsAwaited` | `StopLeavesNothingOpen`, `ConnectsOnlyToVetted`, `GuardInv` |
| `SettingsStore_proofs` | `NothingForgotten`, `SavedOnDisk`, `EditsSpared` | `StoreInv`, `SavedMeansOnDisk`, `RepliesSpareEdits` |
| `LegacyImport_proofs` | `FilesOnRecord`, `ProfileKept` | `ImportInv`, `SettledProfileIsKept` |

### The session

`CallbackExactlyOnce` counts calls, so one has to know who is about to call;
`WorkerOwnsSession` needs to know that nobody else is on the way to
`complete_session` with a session whose worker exists, and this is decided from
flags that were read earlier. The inductive invariant `IInv` is the conjunction of

* `TypeOK`;
* `LabelInv`: which kind of thread can be at which label, and who holds which
  lock there;
* `SidInv`: which session a thread works on at each label (a worker's is its
  own, a starter's is the one it installed and still starts);
* `StartupInv`: every starter inside `start_download` holds `STARTUP`, and from its
  look at the slot to its own `Install` the slot is empty or still holds the
  session it cancels, so that `Install` overwrites nothing;
* `WorkerInv`: the session of a live worker is in the slot, with one of the
  flags set by which a canceller can tell - the heart of the argument, since it
  is why a canceller leaves completion to the worker, also between two phases;
* `ConversionInv`: the loop over the files is not past its end;
* `HandoverInv`: a session that its starter has not handed over yet has no
  worker, and one that a canceller or starter is about to complete has none and,
  being cancelled, gets none;
* `CallbackInv`: a session that was started is in the slot, or in the hands of
  exactly one thread that took it, or has been called back once.

The refinement adds `OutcomeInv`: an outcome is chosen once,
and a thread reports "Cancelled" only of a session that was cancelled while it was
in the slot. With it every action of `DownloadSession` is a named action of
`SessionSlot` under the mapping, or leaves the mapped variables alone. On top of
that comes what is known of processes (`ProcessInv`: a running
one has a worker waiting for it, or a starter with the handle in its hand), of
waiting threads (`WaitInv`), of events (`EventInv`), of handles that a cancel took (`KillInv`:
the worker of such a session reads the flag before anything else and has only the
report "Cancelled" to make) and of who returns from a wait (`ReturnInv`).

### The queue

The invariant speaks of three actors at once. `Locks` says who holds `START_GUARD` and in
which command a caller is there. `Carriers` and `Jobs` say what each place of the runner
tells of its item and its session: while it sets a session up or awaits one, that session
is the only one that will finish the item, and the item is downloading or was cleared.
`Cancels` is about the callers: as long as nobody cancels under the guard, the session
of the queue belongs to a run that goes on, and who has killed it or waited for it finds
none. `Records` adds that what `cancel_queue` picked is not recorded twice. `NotStuck`
needs one hypothesis, that one thread at a time is in `stop`: `stopping` is one flag,
which the first of two stops to return clears (section 6). What it says of items and
runs (`WorkedOn`) does not need it. `Listed` is the part of `TypeOK` about the list: it
holds no id twice and agrees with the statuses, whether an id is appended, dropped or
moved. `UsesSlot` is the other half of the refinement: `DownloadSession` implements the
slot, and whatever the queue does is what the slot allows.

### Publication

The invariant `Base` has one part for where files of each kind may be (`PlaceInv`;
`OneEach`: no two in one place), parts for the worker and its entry (`TodoInv`,
`TaskInv`, `MoveInv`), and the link between the two: what the worker will need next is
there, whoever interferes, or has been replaced by somebody else (`HandInv`, `HeldInv`),
what an install reports has happened in the folder (`ResultInv`, `OutputInv`), and an
entry is still to come, being published or answered for (`AnswerInv`). About 140 lemmas:
first what each action does to the files (a `Moves`, a `Remove`), with three lemmas for
what any such step keeps, then each part of `Base` from that and the control of the
action alone.

`OneFaultSurvives` adds `SurviveInv`: an entry the worker is done with is in the
download folder, under its own or its converted name, or it is where yt-dlp put it and
the directory will be kept (`Retained`: there is no snapshot, or a fault has set
`preserve`). A second fault breaks just that, by the assignment of section 6. So the
theorem has the hypothesis `faults <= 1`, and not a bound on `MaxFaults`: it speaks of
all behaviours up to their second fault. `StrangersAreKept` holds with any number of
faults: every install goes to a free place, and what is removed is either the session's
own by name or in the snapshot (`OwnedInv`). `SweepOnlyTidies` needs `Thumbnails =
FALSE`, without which it is false (section 6): then only a whole file has the stem of an
entry (`StemInv`).

### The others

*Persistence.* Revisions order snapshots as versions do (`OrderInv`), one writer holds
the lock and is newer than everything attempted before (`MutexInv`), and unless somebody
damaged a file, whatever a power loss leaves of the primary is at least the last completed
write, and of the backup at least the one before (`PrimaryInv`, `BackupInv`). The
replacement of foreign bytes needs `ForeignInv`: they are alone in their file, and a
writer past `guard_before_replace` has a copy. `ChangesArrive` needs to know why a writer that
finds itself superseded may give up: whoever has the newest revision without the newest
content knows that a broadcast is still due (`LateInv`), and until a write fails the newest
content is in the files, announced, or with a writer (`OnWay`).

*Close protocol.* `MainInv` says what the main thread knows of the window while it
handles an event, `GenInv` how the generations of requests, their timers and their
shutdowns relate: one whose timer has expired is never the acknowledged one.

*Probes.* `LockInv`: from the first signal to the reaping of the leader one thread
holds the state of the child, and a known status means reaped, so nobody signals a
group whose number is free. `SlotInv` says what generations tell of the owner of
the slot: who is cancelled was overtaken, and who was overtaken is not current.

*Network guard.* `SocketInv`: a client is in the queue or in the hands of one worker, and
in the table only between register and the end of its request; so the scan of
`stop` shuts each socket once, and what a worker holds during the scan is refused
by `register`, which looks at the flag under the lock of the table. `VetInv` ties an
open upstream socket to the answer that was vetted. For the lookups, `DnsInv` follows the
job of each client: it is in the queue, with one DNS worker or answered, and no trace of it
is left (`Clean`) when a worker takes the client or has had the reply. So the one entry that
giving up removes from the queue is the worker's own, and every other still has its worker.

*Settings.* The properties speak of revisions, the invariant of what a revision stands for:
a save of the newest revision has what the renderer shows, and one of an older revision has
somebody waiting for a newer one (`Fresh`); what the backend has compared and written is
still in the file (`Written`); between two saves a renderer that differs from the file has a
caller who will cause one (`Clean`). It holds until an import or a reset replaces the file,
which is where the code breaks it (section 6).

*Import.* Every marker, on disk or in memory, accounts for each well-formed file of its
installation: the file is there, to be retried, on record as refused, or still ahead of the
copying (`MarkerInv`, `AttemptInv`). Settings of ROSI 4 are those of the installation which
the marker and the attempt name (`OriginInv`), so a retry cannot mix in another one.

### Only model-checked

All liveness (`ImplementsFairSlot`, `CommandsReturn`, `CancelledRunEnds`,
`CallsReturn`, `DropEndsWorkers`, `MissingFilesArrive`): fairness and `ENABLED` are
beyond TLAPS here.
`QueueCancelSparesManual`, `ImportHolds` and `ResetHolds` are false of the code (section 6),
and so is `FinishedSurvives` after a second fault; these are counterexamples and no theorems.

## 6. Where the code and its words disagree

The first is a bug, which the run `publication_two_faults` finds. The next four were
found by TLC as well; no listed run repeats them, but each can be seen with the property
and instance named.

1. The user is told "The original remains in owned staging"
   (`downloader.rs:2664`) and `preserve_on_drop` is set. `retire_staged_source` of a
   later entry assigns that flag (2778, 2835, 2871) instead of adding to it, and if
   nothing of its own is left the staging directory, with the first entry's only copy,
   is removed. It takes two failing operations. With assignments that only ever
   set the flag, `FinishedSurvives` holds for `MaxFaults = 2` (1.1 million states).
2. `queue.rs:1503`: the cancel "Completes the running
   session synchronously; its callback records the item's single cancelled outcome."
   `cancel_queue` infers that a session of the queue is running from
   `active_item_id`, but the runner may still be waiting for a manual
   download to leave the slot; that download is what gets cancelled.
   `QueueCancelSparesManual`, with the instance of `queue_live`.
3. `staging.rs:174`: "A format stream is redundant only when
   its merged output survived beside it." Any file that is no intermediate counts as
   the merged output (188), also the thumbnail that `--embed-thumbnail`
   (`command_builders.rs:582`) leaves under the same stem when the program dies before
   the merge; the sweep then removes the streams. `SweepRemovesOnlyRedundant`, with
   `Thumbnails = TRUE`.
4. The dialog (`settings-controls.ts:421`): "Importing settings will
   overwrite your current settings." `import_settings` writes the file, then announces the
   new settings (`settings.rs:756`, 763). A debounced save sends the renderer's whole copy;
   if the backend compares it with the file in between, every old field goes back into it,
   and as the announcement asks for no save the file stays so until the next edit. It takes
   an edit that is saved while the import runs. `ImportHolds`, with the instance of
   `settings_saves`.
5. The dialog (`settings-controls.ts:368`): "Are you sure you want to reset
   all settings to default? Rosi will restart." In the same way a save of the old renderer,
   usable while `restart_with` stops the downloads, may land between the defaults
   (`window.rs:657`) and the restart. `ResetHolds`, with the same instance.

Others came up while modelling; the models follow the code.

* `legacy.rs:69`: "Repair the destination and restart ROSI to retry; existing ROSI 5 data
  will be preserved." Existing files are looked at only by a launch that resumes
  (`legacy.rs:287`). One that cannot read the marker, and one that follows a retry which
  copied its files but could not write `settings.json` (its marker says "failed" and has
  nothing to retry), start afresh and copy ROSI 4's queue over ROSI 5's. Hence the
  condition in `SettledProfileIsKept`: it needs a settings file.
* `downloader.rs:550`: "Manual sessions always announce their cancellation."
  `on_ytdlp_exit` reads the flags at 1733, and when the hand-off to conversion is
  refused at 1883 because a cancel came since, it announces with the old, unset
  flag (1900): the user's cancel ends silently.
* The test at `downloader.rs:3377` demands that a cancel does not return before the
  completion callback has finished. Of two cancels of a session that is still being
  set up, the one that loses the race in `complete_session` returns at once.
  `WaitingCancelSeesCallback` is the part that holds: cancels that wait for a worker or
  found the slot empty.
* `queue.rs:32`: `stopping` is there "so a start cannot replace that runner and leave
  `stop()` waiting on the new one". It is one flag for all callers of `stop`, and the
  first to return clears it. With one stopper `NothingIsStuck` holds.
* `window.rs:605`: on macOS a forced close whose `stop_active_work` takes long enough for
  another request to close the window claims `CLOSE_IN_PROGRESS`, finds no window at 609
  and leaves the flag set; a window reopened from the Dock then cannot be closed.
  `FlagsHaveOwners` excepts this state. Elsewhere the process has ended with its
  last window.
* `network_security.rs:600`: the proxy "shuts down its listener and active sockets when
  the owning tracked operation is cancelled". After an error of `accept()` the listener
  thread ends (`Err(_) => break`) and nobody looks at the flag any more but workers that
  wake up: sockets that are open stay until their timeout or until the guard is
  dropped.
* `downloader.rs:2665`: when the move of a file succeeded and only the sync of the
  directory failed, its captions are not published and, nothing being
  preserved for them, go with the staging directory.

## 7. Not modelled, and the plan

Left out for good: parsing, validation, argument building, wording, menus, logging
(pure or without protocol); permissions and sandboxing (operating system); the
address policy (a table); trimming of the activity log (a pure function).
`PROJECT.json` gives the reason for each component.

Worth modelling next: `Updater` and the correlation of manual downloads in the
renderer, where only the latest request may have an effect.

Theorems worth proving next: what the code could be changed to guarantee. With assignments
that only ever set `preserve_on_drop`, `SurviveInv` should hold for any number of faults, and
`SweepOnlyTidies` for requests with thumbnails once a merged output must be a media file.
