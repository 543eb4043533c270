--------------------------- MODULE QueuePersistence ---------------------------
(***************************************************************************)
(* How the download queue gets to disk (src-tauri/src/queue.rs, with       *)
(* fs_util::atomic_write): every change is broadcast with a new revision   *)
(* and wakes the background worker; flush() writes at once. Both write     *)
(* download-queue.json and then its backup, in the order of the revisions, *)
(* and the program or the machine may stop between any two steps.          *)
(*                                                                         *)
(* The content of the queue is a version number: how many changes it has   *)
(* seen. No specification uses the operators named Bad...: each is the     *)
(* operator after it with a plausible bug that a property must catch.      *)
(***************************************************************************)
EXTENDS Naturals, FiniteSets

CONSTANTS Flushers,      \* threads that call flush()
          Worker,        \* the thread of schedule_persist
          NoWriter,
          MaxChanges, MaxFlushes, MaxFaults, MaxDamages, MaxCrashes   \* bounds

Writers == Flushers \cup {Worker}

ASSUME PersistenceAssumption ==
  /\ Worker \notin Flushers /\ NoWriter \notin Writers
  /\ {MaxChanges, MaxFlushes, MaxFaults, MaxDamages, MaxCrashes} \subseteq Nat

VARIABLES
  queue,       \* the version of the queue in memory
  due,         \* changes whose broadcast is still to come
  revision,    \* QueueState.revision
  signal,      \* PERSIST_SIGNAL
  pc,          \* where each writer is
  snapshot,    \* the revision and version it took
  highest, last,  \* highest_attempted, last_persisted
  writing,     \* the holder of QueuePersistence.revisions
  previous,    \* the generation it will write to the backup
  primary, backup,  \* the two files
  recovered,   \* whether the damaged bytes have a recovery copy
  acked,       \* the newest version a flush() has confirmed
  written,     \* the versions of the last two completed writes, newest first
  left         \* what the bounds still allow

memory == <<queue, due, revision, signal>>
order  == <<highest, last, writing, previous>>
files  == <<primary, backup, recovered>>
vars == <<memory, pc, snapshot, order, files, acked, written, left>>

\* What a file can hold: a list this build may replace, nothing, damaged
\* bytes, or the list of a newer version of the program.
Good(v) == [kind |-> "good", version |-> v]
Missing == [kind |-> "missing", version |-> 0]
Damaged == [kind |-> "damaged", version |-> 0]
Newer   == [kind |-> "newer", version |-> 0]

Readable(content) == content.kind \in {"good", "newer"}

\* load_persisted: the primary if it is a list, else the backup, else nothing.
Load(p, b) == IF Readable(p) THEN p ELSE IF Readable(b) THEN b ELSE Missing

\* A file has its present content and the contents a power loss may leave: a
\* rename lasts only once its directory has been flushed.
Settled(content) == [now |-> content, after |-> {content}]
Rename(file, content) == [now |-> content, after |-> file.after \cup {content}]
Flushed(file) == Settled(file.now)

NoSnapshot == [rev |-> 0, version |-> 0]

Init ==
  /\ \E p \in {Missing, Good(1), Damaged, Newer}, b \in {Missing, Good(0), Good(1)} :
       /\ primary = Settled(p) /\ backup = Settled(b)
       /\ queue = Load(p, b).version
  /\ recovered = FALSE
  /\ due = 0 /\ revision = 0 /\ signal = FALSE
  /\ pc = [w \in Writers |-> "idle"]
  /\ snapshot = [w \in Writers |-> NoSnapshot]
  /\ highest = 0 /\ last = 0 /\ writing = NoWriter /\ previous = Missing
  /\ acked = 0 /\ written = <<0, 0>>
  /\ left = [changes |-> MaxChanges, flushes |-> MaxFlushes, faults |-> MaxFaults,
             damages |-> MaxDamages, crashes |-> MaxCrashes]

Spend(what) == left[what] > 0 /\ left' = [left EXCEPT ![what] = @ - 1]
Goto(w, label) == pc' = [pc EXCEPT ![w] = label]

-----------------------------------------------------------------------------
\* Changes and snapshots

\* A command or the runner changes the items under the queue lock ...
Change ==
  /\ Spend("changes")
  /\ queue' = queue + 1 /\ due' = due + 1
  /\ UNCHANGED <<revision, signal, pc, snapshot, order, files, acked, written>>

\* ... and broadcasts them under another acquisition, which wakes the worker.
Broadcast ==
  /\ due > 0
  /\ due' = due - 1 /\ revision' = revision + 1
  /\ signal' = TRUE
  /\ UNCHANGED <<queue, pc, snapshot, order, files, acked, written, left>>

\* revisioned_snapshot(increment)
Take(w, newRevision) ==
  /\ revision' = newRevision
  /\ snapshot' = [snapshot EXCEPT ![w] = [rev |-> newRevision, version |-> queue]]
  /\ Goto(w, "persist")

\* The worker takes the signal after its delay, and only then the snapshot.
WorkerWakes ==
  /\ pc[Worker] = "idle" /\ signal
  /\ signal' = FALSE
  /\ Goto(Worker, "snapshot")
  /\ UNCHANGED <<queue, due, revision, snapshot, order, files, acked, written, left>>

WorkerSnapshot ==
  /\ pc[Worker] = "snapshot"
  /\ Take(Worker, revision)
  /\ UNCHANGED <<queue, due, signal, order, files, acked, written, left>>

FlushCall(f) ==
  /\ pc[f] = "idle" /\ Spend("flushes")
  /\ Take(f, revision + 1)
  /\ UNCHANGED <<queue, due, signal, order, files, acked, written>>

-----------------------------------------------------------------------------
\* QueuePersistence::persist and persist_queue_files

\* What a writer does with Ok: a flush confirms the version to its caller.
Ok(w) ==
  /\ Goto(w, "idle")
  /\ acked' = IF w \in Flushers /\ snapshot[w].version > acked
              THEN snapshot[w].version ELSE acked

Failed(w) == Goto(w, "idle") /\ UNCHANGED acked

Superseded(w) == snapshot[w].rev < highest
BadCommitted(w) == snapshot[w].rev <= highest
Committed(w) == snapshot[w].rev <= last

\* An older snapshot is not written after a newer one was; it counts as saved
\* only if the newer one was.
PersistSkipped(w) ==
  /\ pc[w] = "persist" /\ writing = NoWriter
  /\ \/ Committed(w) /\ Ok(w)
     \/ ~Committed(w) /\ Superseded(w) /\ Failed(w)
  /\ UNCHANGED <<memory, snapshot, order, files, written, left>>

BadPersistBegins(w) ==
  /\ pc[w] = "persist" /\ writing = NoWriter
  /\ ~Committed(w) /\ ~Superseded(w)
  /\ writing' = w
  /\ highest' = snapshot[w].rev
  /\ signal' = FALSE
  /\ Goto(w, "guard")
  /\ UNCHANGED <<queue, due, revision, snapshot, last, previous, files, acked, written, left>>

PersistBegins(w) ==
  /\ pc[w] = "persist" /\ writing = NoWriter
  /\ ~Committed(w) /\ ~Superseded(w)
  /\ writing' = w
  /\ highest' = snapshot[w].rev
  /\ Goto(w, "guard")
  /\ UNCHANGED <<memory, snapshot, last, previous, files, acked, written, left>>

\* The list of a newer version is never replaced; flush() counts that as
\* saved, the other failures are reported.
RefusedByNewer(w) ==
  /\ pc[w] = "guard" /\ primary.now = Newer
  /\ writing' = NoWriter
  /\ Failed(w)
  /\ UNCHANGED <<memory, snapshot, highest, last, previous, files, written, left>>

BadGuardPasses(w) ==
  /\ pc[w] = "guard" /\ primary.now # Newer
  /\ previous' = Load(primary.now, backup.now)
  /\ Goto(w, "replace")
  /\ UNCHANGED <<memory, snapshot, highest, last, writing, files, acked, written, left>>

\* guard_before_replace copies damaged bytes aside; previous_generation reads
\* the newest good bytes before the primary is replaced.
GuardPasses(w) ==
  /\ pc[w] = "guard" /\ primary.now # Newer
  /\ recovered' = (recovered \/ primary.now = Damaged)
  /\ previous' = Load(primary.now, backup.now)
  /\ Goto(w, "replace")
  /\ UNCHANGED <<memory, snapshot, highest, last, writing, primary, backup, acked, written,
                 left>>

\* atomic_write of the primary: the rename ...
ReplacePrimary(w) ==
  /\ pc[w] = "replace"
  /\ primary' = Rename(primary, Good(snapshot[w].version))
  /\ Goto(w, "sync")
  /\ UNCHANGED <<memory, snapshot, order, backup, recovered, acked, written, left>>

\* ... and sync_directory, which covers whatever was renamed in the directory.
SyncDirectory(w) ==
  /\ pc[w] \in {"sync", "sync backup"}
  /\ primary' = Flushed(primary) /\ backup' = Flushed(backup)
  /\ IF pc[w] = "sync"
     THEN Goto(w, "backup") /\ UNCHANGED <<last, writing, acked, written>>
     ELSE /\ last' = snapshot[w].rev
          /\ writing' = NoWriter
          /\ written' = <<snapshot[w].version, written[1]>>
          /\ Ok(w)
  /\ UNCHANGED <<memory, snapshot, highest, previous, recovered, left>>

ReplaceBackup(w) ==
  /\ pc[w] = "backup"
  /\ backup' = Rename(backup, IF Readable(previous) THEN previous
                              ELSE Good(snapshot[w].version))
  /\ Goto(w, "sync backup")
  /\ UNCHANGED <<memory, snapshot, order, primary, recovered, acked, written, left>>

\* Any step may fail: disk full, no permission, an antivirus with the file
\* open. What was renamed stays.
WriteFails(w) ==
  /\ pc[w] \in {"guard", "replace", "sync", "backup", "sync backup"}
  /\ Spend("faults")
  /\ writing' = NoWriter
  /\ Failed(w)
  /\ UNCHANGED <<memory, snapshot, highest, last, previous, files, written>>

-----------------------------------------------------------------------------
\* The environment

\* Something else damages the primary while nobody writes it.
Damage ==
  /\ writing = NoWriter /\ primary.now.kind = "good" /\ Spend("damages")
  /\ primary' = Settled(Damaged)
  /\ recovered' = FALSE
  /\ UNCHANGED <<memory, pc, snapshot, order, backup, acked, written>>

\* The program dies or the machine loses power, and is started again.
Crash ==
  /\ Spend("crashes")
  /\ \E p \in primary.after, b \in backup.after :
       /\ primary' = Settled(p) /\ backup' = Settled(b)
       /\ queue' = Load(p, b).version
  /\ due' = 0 /\ revision' = 0 /\ signal' = FALSE
  /\ pc' = [w \in Writers |-> "idle"]
  /\ snapshot' = [w \in Writers |-> NoSnapshot]
  /\ highest' = 0 /\ last' = 0 /\ writing' = NoWriter /\ previous' = Missing
  /\ UNCHANGED <<recovered, acked, written>>

WriteStep(w) ==
  \/ PersistSkipped(w) \/ PersistBegins(w) \/ RefusedByNewer(w) \/ GuardPasses(w)
  \/ ReplacePrimary(w) \/ SyncDirectory(w) \/ ReplaceBackup(w)

Next ==
  \/ Change \/ Broadcast \/ WorkerWakes \/ WorkerSnapshot \/ Damage \/ Crash
  \/ \E f \in Flushers : FlushCall(f)
  \/ \E w \in Writers : WriteStep(w) \/ WriteFails(w)

Spec == Init /\ [][Next]_vars

-----------------------------------------------------------------------------
Content == {content \in [kind : {"good", "missing", "damaged", "newer"}, version : Nat] :
              content.kind # "good" => content.version = 0}
File == [now : Content, after : SUBSET Content]
Snapshot == [rev : Nat, version : Nat]
Labels == {"idle", "snapshot", "persist", "guard", "replace", "sync", "backup", "sync backup"}
Bounds == [changes : 0 .. MaxChanges, flushes : 0 .. MaxFlushes, faults : 0 .. MaxFaults,
           damages : 0 .. MaxDamages, crashes : 0 .. MaxCrashes]

Types ==
  /\ queue \in Nat /\ due \in Nat /\ revision \in Nat /\ acked \in Nat
  /\ highest \in Nat /\ last \in Nat
  /\ signal \in BOOLEAN /\ recovered \in BOOLEAN
  /\ pc \in [Writers -> Labels]
  /\ snapshot \in [Writers -> Snapshot]
  /\ writing \in Writers \cup {NoWriter}
  /\ previous \in Content
  /\ primary \in File /\ backup \in File
  /\ written \in Nat \X Nat
  /\ left \in Bounds

Ages ==
  /\ last <= highest /\ highest <= revision
  /\ \A w \in Writers : snapshot[w].rev <= revision /\ snapshot[w].version <= queue

\* Every variable keeps its type, no snapshot is newer than the queue,
\* revisions are written in order, and a file's present content is one of those
\* that may survive.
TypeOK ==
  Types /\ Ages /\ primary.now \in primary.after /\ backup.now \in backup.after

AfterPowerLoss == {Load(p, b) : p \in primary.after, b \in backup.after}

\* What flush() has confirmed survives a crash at any point, and no delayed
\* older snapshot of another thread overwrites it; failed writes in between
\* change nothing about that. "Every flush writes the backup, and a failed
\* backup write fails the flush": if the primary is damaged at any time after
\* a completed write, the backup still has the generation before it.
FlushedSurvives ==
  left.damages = MaxDamages =>
    /\ \A content \in AfterPowerLoss : content.version >= acked
    /\ last > 0 => \A b \in backup.after : b.kind = "good" /\ b.version >= written[2]

\* "a save never discards them": the bytes of a damaged primary leave it only
\* after they were copied, and the list of a newer version is never replaced.
ForeignBytesKept ==
  [][/\ primary.now = Newer => primary'.now = Newer
     /\ primary.now = Damaged /\ primary'.now # Damaged => recovered]_vars

\* Every change reaches the disk without any further change: as long as no
\* write fails, what a restart would load is the newest list, or somebody is
\* on the way to write it. The worker does not lose the wake-up of a change
\* made while it was writing, and no snapshot is given up for an older one.
ChangesAreOnTheWay ==
  left.faults = MaxFaults /\ left.damages = MaxDamages /\ primary.now # Newer =>
    \/ Load(primary.now, backup.now).version = queue
    \/ due > 0 \/ signal \/ pc[Worker] = "snapshot"
    \/ \E w \in Writers : snapshot[w].version = queue /\ pc[w] \in {"persist", "guard", "replace"}
==============================================================================
