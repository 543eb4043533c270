----------------------- MODULE QueuePersistence_proofs ------------------------
(***************************************************************************)
(* What QueuePersistence guarantees for any number of flushers, changes,   *)
(* faults and crashes: a confirmed flush is never lost, a completed write  *)
(* leaves the generation before it in the backup, and the bytes of damaged *)
(* or newer files are kept.                                                *)
(*                                                                         *)
(* The invariant IInv says which snapshots are newer than which (OrderInv),*)
(* that one writer writes and its snapshot is the newest attempted         *)
(* (MutexInv), what the files hold while nobody has damaged them           *)
(* (WrittenInv, PrimaryInv, BackupInv), and what foreign bytes a writer    *)
(* may meet (ForeignInv).                                                  *)
(***************************************************************************)
EXTENDS QueuePersistence, TLAPS

Writing == {"guard", "replace", "sync", "backup", "sync backup"}

\* A later revision never has an older content; nor has an equal one, unless
\* the worker took it, which announces no revision of its own.
OrderInv ==
  /\ \A f \in Flushers, w \in Writers :
       snapshot[f].rev <= snapshot[w].rev => snapshot[f].version <= snapshot[w].version
  /\ \A w, u \in Writers :
       snapshot[w].rev < snapshot[u].rev => snapshot[w].version <= snapshot[u].version

\* The writer holds the lock of the revisions and is newer than all writes.
MutexInv ==
  \A w \in Writers :
    pc[w] \in Writing => writing = w /\ snapshot[w].rev = highest /\ last < snapshot[w].rev

\* What was confirmed was written, and who is newer than the last write holds
\* newer content.
WrittenInv ==
  /\ acked <= written[1] /\ written[2] <= written[1] /\ written[1] <= queue
  /\ \A f \in Flushers : snapshot[f].rev <= last => snapshot[f].version <= written[1]
  /\ \A w \in Writers : last < snapshot[w].rev => written[1] <= snapshot[w].version

AtLeast(content, version) == content.kind = "good" /\ version <= content.version

\* After a completed write the primary is that version or a newer one,
\* whatever a power loss undoes.
PrimaryInv ==
  /\ written[1] > 0 => \A p \in primary.after : AtLeast(p, written[1])
  /\ \A w \in Writers :
       pc[w] \in {"sync", "backup", "sync backup"} => primary.now = Good(snapshot[w].version)

\* The backup is never a newer program's list; what a writer saves into it is
\* no older than the last completed write.
BackupInv ==
  /\ \A b \in backup.after : b.kind # "newer"
  /\ last > 0 => \A b \in backup.after : AtLeast(b, written[2])
  /\ \A w \in Writers :
       /\ pc[w] \in {"replace", "sync", "backup"} /\ Readable(previous)
            => AtLeast(previous, written[1])
       /\ pc[w] = "sync backup" => AtLeast(backup.now, written[1])

Undamaged == left.damages = MaxDamages
FilesInv == Undamaged => WrittenInv /\ PrimaryInv /\ BackupInv

\* Foreign bytes are alone in their file, and a writer about to replace the
\* primary has a copy of them.
ForeignInv ==
  /\ primary.now \in {Newer, Damaged} => primary.after = {primary.now}
  /\ \A w \in Writers :
       pc[w] = "replace" => primary.now # Newer /\ (primary.now = Damaged => recovered)

IInv == TypeOK /\ OrderInv /\ MutexInv /\ FilesInv /\ ForeignInv

-----------------------------------------------------------------------------
(* Facts about the types                                                   *)

\* A writer's snapshot has a revision and a version.
LEMMA SnapshotFacts ==
  ASSUME Types
  PROVE  \A w \in Writers : snapshot[w].rev \in Nat /\ snapshot[w].version \in Nat
BY DEF Types, Snapshot

\* A revision and a version make a snapshot.
LEMMA SnapshotType ==
  ASSUME NEW r \in Nat, NEW v \in Nat
  PROVE  [rev |-> r, version |-> v] \in Snapshot
BY DEF Snapshot

\* The worker is no flusher, and both are writers.
LEMMA WriterFacts ==
  /\ Flushers \subseteq Writers /\ Worker \in Writers /\ Worker \notin Flushers
  /\ NoWriter \notin Writers
BY PersistenceAssumption DEF Writers

\* What a file can hold, and what loading a pair of files gives.
LEMMA ContentType ==
  /\ Missing \in Content /\ Damaged \in Content
  /\ \A v \in Nat : Good(v) \in Content
  /\ \A content \in Content : content.version \in Nat
  /\ \A p, b \in Content : Load(p, b) \in Content
BY DEF Content, Missing, Damaged, Good, Load

\* What is visible in a file and what a crash can leave of it are contents.
LEMMA FileType ==
  ASSUME NEW file \in File
  PROVE  file.now \in Content /\ file.after \subseteq Content /\ Flushed(file) \in File
BY DEF File, Flushed, Settled

\* A settled file survives a crash as it is.
LEMMA SettledType ==
  ASSUME NEW content \in Content
  PROVE  /\ Settled(content) \in File
         /\ Settled(content).now = content /\ Settled(content).after = {content}
BY DEF File, Settled

\* A rename shows the new content; a crash may still bring back the old.
LEMMA RenameType ==
  ASSUME NEW file \in File, NEW content \in Content
  PROVE  /\ Rename(file, content) \in File
         /\ Rename(file, content).now = content
         /\ Rename(file, content).after = file.after \cup {content}
BY DEF File, Rename

\* A bound is only ever used up.
LEMMA Spent ==
  ASSUME left \in Bounds,
         NEW what \in {"changes", "flushes", "faults", "damages", "crashes"}, Spend(what)
  PROVE  /\ left' \in Bounds
         /\ what # "damages" => left'.damages = left.damages
         /\ what = "damages" => left'.damages # MaxDamages
         /\ what # "faults" => left'.faults = left.faults
         /\ what = "faults" => left'.faults # MaxFaults
BY PersistenceAssumption DEF Spend, Bounds

\* What every step needs to know of the variables.
LEMMA Known ==
  ASSUME Types
  PROVE  /\ pc \in [Writers -> Labels] /\ snapshot \in [Writers -> Snapshot]
         /\ primary \in File /\ backup \in File /\ previous \in Content /\ left \in Bounds
         /\ queue \in Nat /\ due \in Nat /\ revision \in Nat /\ acked \in Nat
         /\ highest \in Nat /\ last \in Nat
         /\ written[1] \in Nat /\ written[2] \in Nat /\ written = <<written[1], written[2]>>
BY DEF Types


-----------------------------------------------------------------------------
(* Types                                                                   *)

\* Every step keeps the types.
LEMMA TypesStep ==
  ASSUME Types, [Next]_vars
  PROVE  Types'
<1> USE DEF Types, memory, order, files
<1>1. ASSUME Change PROVE Types'
  BY <1>1, Spent DEF Change
<1>2. ASSUME Broadcast PROVE Types'
  <2>1. due' \in Nat /\ revision' \in Nat /\ signal' \in BOOLEAN
    BY <1>2 DEF Broadcast
  <2>2. QED
    BY <1>2, <2>1 DEF Broadcast
<1>3. ASSUME WorkerWakes PROVE Types'
  BY <1>3 DEF WorkerWakes, Goto, Labels
<1>4. ASSUME WorkerSnapshot PROVE Types'
  BY <1>4, SnapshotType DEF WorkerSnapshot, Take, Goto, Labels
<1>5. ASSUME Damage PROVE Types'
  BY <1>5, Spent, SettledType, ContentType DEF Damage
<1>6. ASSUME Crash PROVE Types'
  <2> PICK p \in primary.after, b \in backup.after :
           /\ primary' = Settled(p) /\ backup' = Settled(b)
           /\ queue' = Load(p, b).version
    BY <1>6 DEF Crash
  <2>1. p \in Content /\ b \in Content
    BY FileType
  <2>2. primary' \in File /\ backup' \in File
    BY <2>1, SettledType
  <2>3. queue' \in Nat
    BY <2>1, ContentType
  <2>4. snapshot' \in [Writers -> Snapshot] /\ pc' \in [Writers -> Labels]
    BY <1>6, SnapshotType DEF Crash, NoSnapshot, Labels
  <2>5. left' \in Bounds
    BY <1>6, Spent DEF Crash
  <2>6. QED
    BY <1>6, <2>2, <2>3, <2>4, <2>5, ContentType DEF Crash
<1>7. ASSUME NEW f \in Flushers, FlushCall(f) PROVE Types'
  <2>1. revision + 1 \in Nat /\ [rev |-> revision + 1, version |-> queue] \in Snapshot
    BY SnapshotType
  <2>2. pc' \in [Writers -> Labels]
    BY <1>7 DEF FlushCall, Take, Goto, Labels
  <2>3. snapshot' \in [Writers -> Snapshot]
    BY <1>7, <2>1 DEF FlushCall, Take
  <2>4. left' \in Bounds
    BY <1>7, Spent DEF FlushCall
  <2>5. QED
    BY <1>7, <2>1, <2>2, <2>3, <2>4 DEF FlushCall, Take
<1>8. ASSUME NEW w \in Writers, PersistSkipped(w) PROVE Types'
  <2>1. acked' \in Nat /\ pc' \in [Writers -> Labels]
    BY <1>8, SnapshotFacts DEF PersistSkipped, Ok, Failed, Goto, Labels
  <2>2. QED
    BY <1>8, <2>1 DEF PersistSkipped
<1>9. ASSUME NEW w \in Writers, PersistBegins(w) PROVE Types'
  BY <1>9, SnapshotFacts DEF PersistBegins, Goto, Labels
<1>10. ASSUME NEW w \in Writers, RefusedByNewer(w) PROVE Types'
  BY <1>10 DEF RefusedByNewer, Failed, Goto, Labels
<1>11. ASSUME NEW w \in Writers, GuardPasses(w) PROVE Types'
  BY <1>11, FileType, ContentType DEF GuardPasses, Goto, Labels
<1>12. ASSUME NEW w \in Writers, ReplacePrimary(w) PROVE Types'
  BY <1>12, RenameType, ContentType, SnapshotFacts DEF ReplacePrimary, Goto, Labels
<1>13. ASSUME NEW w \in Writers, SyncDirectory(w) PROVE Types'
  <2>1. /\ primary' \in File /\ backup' \in File
        /\ pc' \in [Writers -> Labels]
    BY <1>13, FileType DEF SyncDirectory, Ok, Goto, Labels
  <2>2. last' \in Nat /\ acked' \in Nat
    BY <1>13, SnapshotFacts DEF SyncDirectory, Ok
  <2>5. written' \in Nat \X Nat
    <3>1. written' = written \/ written' = <<snapshot[w].version, written[1]>>
      BY <1>13 DEF SyncDirectory
    <3>2. QED
      BY <3>1, SnapshotFacts, Known
  <2>3. writing' \in Writers \cup {NoWriter}
    BY <1>13 DEF SyncDirectory
  <2>4. QED
    BY <1>13, <2>1, <2>2, <2>3, <2>5 DEF SyncDirectory
<1>14. ASSUME NEW w \in Writers, ReplaceBackup(w) PROVE Types'
  <2>1. backup' \in File
    BY <1>14, RenameType, ContentType, SnapshotFacts DEF ReplaceBackup
  <2>2. QED
    BY <1>14, <2>1 DEF ReplaceBackup, Goto, Labels
<1>15. ASSUME NEW w \in Writers, WriteFails(w) PROVE Types'
  BY <1>15, Spent DEF WriteFails, Failed, Goto, Labels
<1>16. ASSUME UNCHANGED vars PROVE Types'
  BY <1>16 DEF vars, memory, order, files
<1>17. QED
  BY <1>1, <1>2, <1>3, <1>4, <1>5, <1>6, <1>7, <1>8, <1>9, <1>10, <1>11, <1>12, <1>13,
     <1>14, <1>15, <1>16
  DEF Next, WriteStep

\* No step makes a version newer than the queue.
LEMMA AgesStep ==
  ASSUME TypeOK, MutexInv, [Next]_vars
  PROVE  Ages'
<1> USE SnapshotFacts, Known DEF TypeOK, Ages, memory, order
<1>1. ASSUME Change PROVE Ages'
  BY <1>1 DEF Change, Spend
<1>2. ASSUME Broadcast PROVE Ages'
  BY <1>2 DEF Broadcast
<1>3. ASSUME WorkerWakes PROVE Ages'
  BY <1>3 DEF WorkerWakes, Goto
<1>4. ASSUME WorkerSnapshot PROVE Ages'
  BY <1>4, SnapshotType DEF WorkerSnapshot, Take, Goto
<1>5. ASSUME Damage PROVE Ages'
  BY <1>5 DEF Damage, Spend
<1>6. ASSUME Crash PROVE Ages'
  <2>1. queue' \in Nat
    BY <1>6, FileType, ContentType DEF Crash
  <2>2. \A w \in Writers : snapshot'[w].rev = 0 /\ snapshot'[w].version = 0
    BY <1>6 DEF Crash, NoSnapshot
  <2>3. revision' = 0 /\ highest' = 0 /\ last' = 0
    BY <1>6 DEF Crash
  <2>4. QED
    BY <2>1, <2>2, <2>3
<1>7. ASSUME NEW f \in Flushers, FlushCall(f) PROVE Ages'
  <2>1. /\ revision' = revision + 1 /\ queue' = queue
        /\ snapshot'[f] = [rev |-> revision + 1, version |-> queue]
        /\ \A w \in Writers : w # f => snapshot'[w] = snapshot[w]
        /\ UNCHANGED <<highest, last>>
    BY <1>7, WriterFacts DEF FlushCall, Take, order
  <2>2. QED
    BY <2>1
<1>8. ASSUME NEW w \in Writers, PersistSkipped(w) PROVE Ages'
  BY <1>8 DEF PersistSkipped, Ok, Failed, Goto
<1>9. ASSUME NEW w \in Writers, PersistBegins(w) PROVE Ages'
  BY <1>9 DEF PersistBegins, Committed, Superseded, Goto
<1>10. ASSUME NEW w \in Writers, RefusedByNewer(w) PROVE Ages'
  BY <1>10 DEF RefusedByNewer, Failed, Goto
<1>11. ASSUME NEW w \in Writers, GuardPasses(w) PROVE Ages'
  BY <1>11 DEF GuardPasses, Goto
<1>12. ASSUME NEW w \in Writers, ReplacePrimary(w) PROVE Ages'
  BY <1>12 DEF ReplacePrimary, Goto
<1>13. ASSUME NEW w \in Writers, SyncDirectory(w) PROVE Ages'
  <2>1. /\ UNCHANGED <<revision, queue, snapshot, highest>>
        /\ last' = last \/ last' = snapshot[w].rev
    BY <1>13 DEF SyncDirectory
  <2>2. snapshot[w].rev = highest
    BY <1>13 DEF SyncDirectory, MutexInv, Writing
  <2>3. QED
    BY <2>1, <2>2
<1>14. ASSUME NEW w \in Writers, ReplaceBackup(w) PROVE Ages'
  BY <1>14 DEF ReplaceBackup, Goto
<1>15. ASSUME NEW w \in Writers, WriteFails(w) PROVE Ages'
  BY <1>15 DEF WriteFails, Spend, Failed, Goto
<1>16. ASSUME UNCHANGED vars PROVE Ages'
  BY <1>16 DEF vars, memory, order, files
<1>17. QED
  BY <1>1, <1>2, <1>3, <1>4, <1>5, <1>6, <1>7, <1>8, <1>9, <1>10, <1>11, <1>12, <1>13,
     <1>14, <1>15, <1>16
  DEF Next, WriteStep

\* Every step leaves what is visible among what a crash can leave.
LEMMA NowStep ==
  ASSUME Types, primary.now \in primary.after, backup.now \in backup.after, [Next]_vars
  PROVE  primary'.now \in primary'.after /\ backup'.now \in backup'.after
<1> USE Known, FileType DEF files
<1>1. ASSUME Change PROVE primary'.now \in primary'.after /\ backup'.now \in backup'.after
  BY <1>1 DEF Change, Spend
<1>2. ASSUME Broadcast
      PROVE  primary'.now \in primary'.after /\ backup'.now \in backup'.after
  BY <1>2 DEF Broadcast
<1>3. ASSUME WorkerWakes
      PROVE  primary'.now \in primary'.after /\ backup'.now \in backup'.after
  BY <1>3 DEF WorkerWakes, Goto
<1>4. ASSUME WorkerSnapshot
      PROVE  primary'.now \in primary'.after /\ backup'.now \in backup'.after
  BY <1>4 DEF WorkerSnapshot, Take, Goto
<1>5. ASSUME Damage PROVE primary'.now \in primary'.after /\ backup'.now \in backup'.after
  BY <1>5, SettledType, ContentType DEF Damage, Spend
<1>6. ASSUME Crash PROVE primary'.now \in primary'.after /\ backup'.now \in backup'.after
  BY <1>6, SettledType DEF Crash, Spend
<1>7. ASSUME NEW f \in Flushers, FlushCall(f)
      PROVE  primary'.now \in primary'.after /\ backup'.now \in backup'.after
  BY <1>7 DEF FlushCall, Spend, Take, Goto
<1>8. ASSUME NEW w \in Writers, PersistSkipped(w)
      PROVE  primary'.now \in primary'.after /\ backup'.now \in backup'.after
  BY <1>8 DEF PersistSkipped, Ok, Failed, Goto
<1>9. ASSUME NEW w \in Writers, PersistBegins(w)
      PROVE  primary'.now \in primary'.after /\ backup'.now \in backup'.after
  BY <1>9 DEF PersistBegins, Committed, Superseded, Goto
<1>10. ASSUME NEW w \in Writers, RefusedByNewer(w)
       PROVE  primary'.now \in primary'.after /\ backup'.now \in backup'.after
  BY <1>10 DEF RefusedByNewer, Failed, Goto
<1>11. ASSUME NEW w \in Writers, GuardPasses(w)
       PROVE  primary'.now \in primary'.after /\ backup'.now \in backup'.after
  BY <1>11 DEF GuardPasses, Goto
<1>12. ASSUME NEW w \in Writers, ReplacePrimary(w)
       PROVE  primary'.now \in primary'.after /\ backup'.now \in backup'.after
  BY <1>12 DEF ReplacePrimary, Goto, Rename
<1>13. ASSUME NEW w \in Writers, SyncDirectory(w)
       PROVE  primary'.now \in primary'.after /\ backup'.now \in backup'.after
  BY <1>13 DEF SyncDirectory, Goto, Ok, Flushed, Settled
<1>14. ASSUME NEW w \in Writers, ReplaceBackup(w)
       PROVE  primary'.now \in primary'.after /\ backup'.now \in backup'.after
  BY <1>14 DEF ReplaceBackup, Goto, Rename
<1>15. ASSUME NEW w \in Writers, WriteFails(w)
       PROVE  primary'.now \in primary'.after /\ backup'.now \in backup'.after
  BY <1>15 DEF WriteFails, Spend, Failed, Goto
<1>16. ASSUME UNCHANGED vars
       PROVE  primary'.now \in primary'.after /\ backup'.now \in backup'.after
  BY <1>16 DEF vars, memory, order, files
<1>17. QED
  BY <1>1, <1>2, <1>3, <1>4, <1>5, <1>6, <1>7, <1>8, <1>9, <1>10, <1>11, <1>12, <1>13,
     <1>14, <1>15, <1>16
  DEF Next, WriteStep

\* Every step keeps TypeOK.
LEMMA TypeStep ==
  ASSUME TypeOK, MutexInv, [Next]_vars
  PROVE  TypeOK'
BY TypesStep, AgesStep, NowStep DEF TypeOK


-----------------------------------------------------------------------------
(* Who is newer, and who writes                                            *)

\* Every step keeps OrderInv.
LEMMA OrderStep ==
  ASSUME TypeOK, OrderInv, [Next]_vars
  PROVE  OrderInv'
<1> USE SnapshotFacts, Known DEF TypeOK, OrderInv, Ages, memory
<1>1. ASSUME Change PROVE OrderInv'
  BY <1>1 DEF Change, Spend
<1>2. ASSUME Broadcast PROVE OrderInv'
  BY <1>2 DEF Broadcast
<1>3. ASSUME WorkerWakes PROVE OrderInv'
  BY <1>3 DEF WorkerWakes, Goto
<1>4. ASSUME WorkerSnapshot PROVE OrderInv'
  <2>1. /\ snapshot'[Worker].rev = revision /\ snapshot'[Worker].version = queue
        /\ \A w \in Writers : w # Worker => snapshot'[w] = snapshot[w]
    BY <1>4, WriterFacts DEF WorkerSnapshot, Take
  <2>2. QED
    BY <2>1, WriterFacts
<1>5. ASSUME Damage PROVE OrderInv'
  BY <1>5 DEF Damage, Spend
<1>6. ASSUME Crash PROVE OrderInv'
  <2>1. \A w \in Writers : snapshot'[w].rev = 0 /\ snapshot'[w].version = 0
    BY <1>6 DEF Crash, NoSnapshot
  <2>2. QED
    BY <2>1, WriterFacts
<1>7. ASSUME NEW f \in Flushers, FlushCall(f) PROVE OrderInv'
  <2>1. /\ snapshot'[f].rev = revision + 1 /\ snapshot'[f].version = queue
        /\ \A w \in Writers : w # f => snapshot'[w] = snapshot[w]
    BY <1>7, WriterFacts DEF FlushCall, Take
  <2>2. QED
    BY <2>1, WriterFacts
<1>8. ASSUME NEW w \in Writers, PersistSkipped(w) PROVE OrderInv'
  BY <1>8 DEF PersistSkipped, Ok, Failed, Goto
<1>9. ASSUME NEW w \in Writers, PersistBegins(w) PROVE OrderInv'
  BY <1>9 DEF PersistBegins, Committed, Superseded, Goto
<1>10. ASSUME NEW w \in Writers, RefusedByNewer(w) PROVE OrderInv'
  BY <1>10 DEF RefusedByNewer, Failed, Goto
<1>11. ASSUME NEW w \in Writers, GuardPasses(w) PROVE OrderInv'
  BY <1>11 DEF GuardPasses, Goto
<1>12. ASSUME NEW w \in Writers, ReplacePrimary(w) PROVE OrderInv'
  BY <1>12 DEF ReplacePrimary, Goto
<1>13. ASSUME NEW w \in Writers, SyncDirectory(w) PROVE OrderInv'
  BY <1>13 DEF SyncDirectory, Goto, Ok
<1>14. ASSUME NEW w \in Writers, ReplaceBackup(w) PROVE OrderInv'
  BY <1>14 DEF ReplaceBackup, Goto
<1>15. ASSUME NEW w \in Writers, WriteFails(w) PROVE OrderInv'
  BY <1>15 DEF WriteFails, Spend, Failed, Goto
<1>16. ASSUME UNCHANGED vars PROVE OrderInv'
  BY <1>16 DEF vars, memory, order, files
<1>17. QED
  BY <1>1, <1>2, <1>3, <1>4, <1>5, <1>6, <1>7, <1>8, <1>9, <1>10, <1>11, <1>12, <1>13,
     <1>14, <1>15, <1>16
  DEF Next, WriteStep

\* Every step keeps MutexInv.
LEMMA MutexStep ==
  ASSUME TypeOK, MutexInv, [Next]_vars
  PROVE  MutexInv'
<1> USE WriterFacts, SnapshotFacts, Known DEF TypeOK, MutexInv, Writing, memory, order
<1>1. ASSUME Change PROVE MutexInv'
  BY <1>1 DEF Change, Spend
<1>2. ASSUME Broadcast PROVE MutexInv'
  BY <1>2 DEF Broadcast
<1>3. ASSUME WorkerWakes PROVE MutexInv'
  BY <1>3 DEF WorkerWakes, Goto
<1>4. ASSUME WorkerSnapshot PROVE MutexInv'
  <2>1. \A w \in Writers : pc'[w] \in Writing => pc'[w] = pc[w] /\ w # Worker
    BY <1>4 DEF WorkerSnapshot, Take, Goto
  <2>2. \A w \in Writers : w # Worker => snapshot'[w] = snapshot[w]
    BY <1>4 DEF WorkerSnapshot, Take
  <2>3. QED
    BY <1>4, <2>1, <2>2 DEF WorkerSnapshot
<1>5. ASSUME Damage PROVE MutexInv'
  BY <1>5 DEF Damage, Spend
<1>6. ASSUME Crash PROVE MutexInv'
  BY <1>6 DEF Crash, Spend
<1>7. ASSUME NEW f \in Flushers, FlushCall(f) PROVE MutexInv'
  <2>1. \A w \in Writers : pc'[w] \in Writing => pc'[w] = pc[w] /\ w # f
    BY <1>7 DEF FlushCall, Take, Goto
  <2>2. \A w \in Writers : w # f => snapshot'[w] = snapshot[w]
    BY <1>7 DEF FlushCall, Take
  <2>3. QED
    BY <1>7, <2>1, <2>2 DEF FlushCall
<1>8. ASSUME NEW w \in Writers, PersistSkipped(w) PROVE MutexInv'
  BY <1>8 DEF PersistSkipped, Ok, Failed, Goto
<1>9. ASSUME NEW w \in Writers, PersistBegins(w) PROVE MutexInv'
  <2>1. \A u \in Writers : pc'[u] \in Writing => u = w
    BY <1>9 DEF PersistBegins, Goto
  <2>2. last < snapshot[w].rev
    <3>1. ~(snapshot[w].rev <= last)
      BY <1>9 DEF PersistBegins, Committed
    <3>2. snapshot[w].rev \in Nat /\ last \in Nat
      BY SnapshotFacts, Known
    <3>3. QED
      BY ONLY <3>1, <3>2
  <2>3. QED
    BY <1>9, <2>1, <2>2 DEF PersistBegins
<1>10. ASSUME NEW w \in Writers, RefusedByNewer(w) PROVE MutexInv'
  BY <1>10 DEF RefusedByNewer, Failed, Goto
<1>11. ASSUME NEW w \in Writers, GuardPasses(w) PROVE MutexInv'
  BY <1>11 DEF GuardPasses, Goto
<1>12. ASSUME NEW w \in Writers, ReplacePrimary(w) PROVE MutexInv'
  BY <1>12 DEF ReplacePrimary, Goto
<1>13. ASSUME NEW w \in Writers, SyncDirectory(w) PROVE MutexInv'
  BY <1>13 DEF SyncDirectory, Goto, Ok
<1>14. ASSUME NEW w \in Writers, ReplaceBackup(w) PROVE MutexInv'
  BY <1>14 DEF ReplaceBackup, Goto
<1>15. ASSUME NEW w \in Writers, WriteFails(w) PROVE MutexInv'
  BY <1>15 DEF WriteFails, Spend, Failed, Goto
<1>16. ASSUME UNCHANGED vars PROVE MutexInv'
  BY <1>16 DEF vars, memory, order, files
<1>17. QED
  BY <1>1, <1>2, <1>3, <1>4, <1>5, <1>6, <1>7, <1>8, <1>9, <1>10, <1>11, <1>12, <1>13,
     <1>14, <1>15, <1>16
  DEF Next, WriteStep

\* Every step keeps ForeignInv.
LEMMA ForeignStep ==
  ASSUME TypeOK, MutexInv, ForeignInv, [Next]_vars
  PROVE  ForeignInv'
<1> USE Known DEF TypeOK, ForeignInv, files
<1>1. ASSUME Change PROVE ForeignInv'
  BY <1>1 DEF Change, Spend
<1>2. ASSUME Broadcast PROVE ForeignInv'
  BY <1>2 DEF Broadcast
<1>3. ASSUME WorkerWakes PROVE ForeignInv'
  BY <1>3 DEF WorkerWakes, Goto
<1>4. ASSUME WorkerSnapshot PROVE ForeignInv'
  BY <1>4 DEF WorkerSnapshot, Take, Goto
<1>5. ASSUME Damage PROVE ForeignInv'
  <2>1. \A w \in Writers : pc[w] # "replace"
    BY <1>5, WriterFacts DEF Damage, MutexInv, Writing
  <2>2. QED
    BY <1>5, <2>1 DEF Damage, Settled
<1>6. ASSUME Crash PROVE ForeignInv'
  BY <1>6 DEF Crash, Settled
<1>7. ASSUME NEW f \in Flushers, FlushCall(f) PROVE ForeignInv'
  BY <1>7 DEF FlushCall, Spend, Take, Goto
<1>8. ASSUME NEW w \in Writers, PersistSkipped(w) PROVE ForeignInv'
  BY <1>8 DEF PersistSkipped, Ok, Failed, Goto
<1>9. ASSUME NEW w \in Writers, PersistBegins(w) PROVE ForeignInv'
  BY <1>9 DEF PersistBegins, Committed, Superseded, Goto
<1>10. ASSUME NEW w \in Writers, RefusedByNewer(w) PROVE ForeignInv'
  BY <1>10 DEF RefusedByNewer, Failed, Goto
<1>11. ASSUME NEW w \in Writers, GuardPasses(w) PROVE ForeignInv'
  BY <1>11 DEF GuardPasses, Goto
<1>12. ASSUME NEW w \in Writers, ReplacePrimary(w) PROVE ForeignInv'
  <2>1. primary'.now \notin {Newer, Damaged}
    BY <1>12 DEF ReplacePrimary, Rename, Good, Newer, Damaged
  <2>2. \A u \in Writers : pc'[u] # "replace"
    BY <1>12 DEF ReplacePrimary, Goto, MutexInv, Writing
  <2>3. QED
    BY <2>1, <2>2
<1>13. ASSUME NEW w \in Writers, SyncDirectory(w) PROVE ForeignInv'
  <2>1. primary'.now = primary.now /\ primary'.after = {primary.now}
    BY <1>13 DEF SyncDirectory, Flushed, Settled
  <2>2. \A u \in Writers : pc'[u] = "replace" => pc[u] = "replace"
    BY <1>13 DEF SyncDirectory, Goto, Ok
  <2>3. QED
    BY <1>13, <2>1, <2>2 DEF SyncDirectory
<1>14. ASSUME NEW w \in Writers, ReplaceBackup(w) PROVE ForeignInv'
  BY <1>14 DEF ReplaceBackup, Goto
<1>15. ASSUME NEW w \in Writers, WriteFails(w) PROVE ForeignInv'
  BY <1>15 DEF WriteFails, Spend, Failed, Goto
<1>16. ASSUME UNCHANGED vars PROVE ForeignInv'
  BY <1>16 DEF vars, memory, order, files
<1>17. QED
  BY <1>1, <1>2, <1>3, <1>4, <1>5, <1>6, <1>7, <1>8, <1>9, <1>10, <1>11, <1>12, <1>13,
     <1>14, <1>15, <1>16
  DEF Next, WriteStep


-----------------------------------------------------------------------------
(* What the files hold                                                     *)

\* Damages are only ever used up.
LEMMA StaysUndamaged ==
  ASSUME Types, [Next]_vars, Undamaged'
  PROVE  Undamaged
<1> USE Known, Spent DEF Undamaged
<1>1. ASSUME Change PROVE Undamaged
  BY <1>1 DEF Change, Spend
<1>2. ASSUME Broadcast PROVE Undamaged
  BY <1>2 DEF Broadcast
<1>3. ASSUME WorkerWakes PROVE Undamaged
  BY <1>3 DEF WorkerWakes, Goto
<1>4. ASSUME WorkerSnapshot PROVE Undamaged
  BY <1>4 DEF WorkerSnapshot, Take, Goto
<1>5. ASSUME Damage PROVE Undamaged
  BY <1>5 DEF Damage, Spend
<1>6. ASSUME Crash PROVE Undamaged
  BY <1>6 DEF Crash, Spend
<1>7. ASSUME NEW f \in Flushers, FlushCall(f) PROVE Undamaged
  BY <1>7 DEF FlushCall, Spend, Take, Goto
<1>8. ASSUME NEW w \in Writers, PersistSkipped(w) PROVE Undamaged
  BY <1>8 DEF PersistSkipped, Ok, Failed, Goto
<1>9. ASSUME NEW w \in Writers, PersistBegins(w) PROVE Undamaged
  BY <1>9 DEF PersistBegins, Committed, Superseded, Goto
<1>10. ASSUME NEW w \in Writers, RefusedByNewer(w) PROVE Undamaged
  BY <1>10 DEF RefusedByNewer, Failed, Goto
<1>11. ASSUME NEW w \in Writers, GuardPasses(w) PROVE Undamaged
  BY <1>11 DEF GuardPasses, Goto
<1>12. ASSUME NEW w \in Writers, ReplacePrimary(w) PROVE Undamaged
  BY <1>12 DEF ReplacePrimary, Goto
<1>13. ASSUME NEW w \in Writers, SyncDirectory(w) PROVE Undamaged
  BY <1>13 DEF SyncDirectory, Goto, Ok
<1>14. ASSUME NEW w \in Writers, ReplaceBackup(w) PROVE Undamaged
  BY <1>14 DEF ReplaceBackup, Goto
<1>15. ASSUME NEW w \in Writers, WriteFails(w) PROVE Undamaged
  BY <1>15 DEF WriteFails, Spend, Failed, Goto
<1>16. ASSUME UNCHANGED vars PROVE Undamaged
  BY <1>16 DEF vars, memory, order, files
<1>17. QED
  BY <1>1, <1>2, <1>3, <1>4, <1>5, <1>6, <1>7, <1>8, <1>9, <1>10, <1>11, <1>12, <1>13,
     <1>14, <1>15, <1>16
  DEF Next, WriteStep

\* Every step without disk damage keeps WrittenInv.
LEMMA WrittenStep ==
  ASSUME TypeOK, OrderInv, MutexInv, WrittenInv, PrimaryInv, Undamaged', [Next]_vars
  PROVE  WrittenInv'
<1> USE WriterFacts, SnapshotFacts, Known DEF TypeOK, Ages, WrittenInv, memory, order
<1>1. ASSUME Change PROVE WrittenInv'
  BY <1>1 DEF Change, Spend
<1>2. ASSUME Broadcast PROVE WrittenInv'
  BY <1>2 DEF Broadcast
<1>3. ASSUME WorkerWakes PROVE WrittenInv'
  BY <1>3 DEF WorkerWakes, Goto
<1>4. ASSUME WorkerSnapshot PROVE WrittenInv'
  <2>1. /\ snapshot'[Worker].rev = revision /\ snapshot'[Worker].version = queue
        /\ \A w \in Writers : w # Worker => snapshot'[w] = snapshot[w]
    BY <1>4 DEF WorkerSnapshot, Take
  <2>2. UNCHANGED <<queue, last, acked, written>>
    BY <1>4 DEF WorkerSnapshot
  <2>3. QED
    BY <2>1, <2>2
<1>5. ASSUME Damage PROVE WrittenInv'
  BY <1>5, Spent DEF Damage, Undamaged
<1>6. ASSUME Crash PROVE WrittenInv'
  <2>1. \A w \in Writers : snapshot'[w].rev = 0 /\ snapshot'[w].version = 0
    BY <1>6 DEF Crash, NoSnapshot
  <2>2. UNCHANGED <<acked, written>> /\ last' = 0
    BY <1>6 DEF Crash
  <2>3. written[1] <= queue' /\ queue' \in Nat
    <3> PICK p \in primary.after, b \in backup.after : queue' = Load(p, b).version
      BY <1>6 DEF Crash
    <3>1. queue' \in Nat
      BY FileType, ContentType
    <3>2. CASE written[1] = 0
      BY <3>1, <3>2
    <3>3. CASE written[1] > 0
      BY <3>1, <3>3 DEF PrimaryInv, AtLeast, Load, Readable
    <3>4. QED
      BY <3>1, <3>2, <3>3
  <2>4. QED
    BY <2>1, <2>2, <2>3
<1>7. ASSUME NEW f \in Flushers, FlushCall(f) PROVE WrittenInv'
  <2>1. /\ snapshot'[f].rev = revision + 1 /\ snapshot'[f].version = queue
        /\ \A w \in Writers : w # f => snapshot'[w] = snapshot[w]
    BY <1>7 DEF FlushCall, Take
  <2>2. UNCHANGED <<queue, last, acked, written>>
    BY <1>7 DEF FlushCall
  <2>3. QED
    BY <2>1, <2>2
<1>8. ASSUME NEW w \in Writers, PersistSkipped(w) PROVE WrittenInv'
  <2>1. acked' = acked \/ (w \in Flushers /\ Committed(w) /\ acked' = snapshot[w].version)
    BY <1>8 DEF PersistSkipped, Ok, Failed
  <2>2. acked' <= written[1]
    BY <2>1 DEF Committed
  <2>3. QED
    BY <1>8, <2>2 DEF PersistSkipped
<1>9. ASSUME NEW w \in Writers, PersistBegins(w) PROVE WrittenInv'
  BY <1>9 DEF PersistBegins, Committed, Superseded, Goto
<1>10. ASSUME NEW w \in Writers, RefusedByNewer(w) PROVE WrittenInv'
  BY <1>10 DEF RefusedByNewer, Failed, Goto
<1>11. ASSUME NEW w \in Writers, GuardPasses(w) PROVE WrittenInv'
  BY <1>11 DEF GuardPasses, Goto
<1>12. ASSUME NEW w \in Writers, ReplacePrimary(w) PROVE WrittenInv'
  BY <1>12 DEF ReplacePrimary, Goto
<1>13. ASSUME NEW w \in Writers, SyncDirectory(w) PROVE WrittenInv'
  <2>1. CASE pc[w] = "sync"
    BY <1>13, <2>1 DEF SyncDirectory
  <2>2. CASE pc[w] = "sync backup"
    <3>1. /\ last' = snapshot[w].rev
          /\ written' = <<snapshot[w].version, written[1]>>
          /\ UNCHANGED <<queue, snapshot>>
      BY <1>13, <2>2 DEF SyncDirectory
    <3>6. written'[1] = snapshot[w].version /\ written'[2] = written[1]
      BY <3>1
    <3>5. acked' = acked \/ acked' = snapshot[w].version
      BY <1>13, <2>2 DEF SyncDirectory, Ok
    <3>2. last < snapshot[w].rev
      BY <2>2 DEF MutexInv, Writing
    <3>3. written[1] <= snapshot[w].version
      BY <3>2
    <3>4. QED
      BY <3>1, <3>3, <3>5, <3>6 DEF OrderInv
  <2>3. QED
    BY <1>13, <2>1, <2>2 DEF SyncDirectory
<1>14. ASSUME NEW w \in Writers, ReplaceBackup(w) PROVE WrittenInv'
  BY <1>14 DEF ReplaceBackup, Goto
<1>15. ASSUME NEW w \in Writers, WriteFails(w) PROVE WrittenInv'
  BY <1>15 DEF WriteFails, Spend, Failed, Goto
<1>16. ASSUME UNCHANGED vars PROVE WrittenInv'
  BY <1>16 DEF vars, memory, order, files
<1>17. QED
  BY <1>1, <1>2, <1>3, <1>4, <1>5, <1>6, <1>7, <1>8, <1>9, <1>10, <1>11, <1>12, <1>13,
     <1>14, <1>15, <1>16
  DEF Next, WriteStep

\* Every step without disk damage keeps PrimaryInv.
LEMMA PrimaryStep ==
  ASSUME TypeOK, MutexInv, WrittenInv, PrimaryInv, Undamaged', [Next]_vars
  PROVE  PrimaryInv'
<1> USE WriterFacts, SnapshotFacts, Known DEF TypeOK, PrimaryInv, memory, order, files
<1>1. ASSUME Change PROVE PrimaryInv'
  BY <1>1 DEF Change, Spend
<1>2. ASSUME Broadcast PROVE PrimaryInv'
  BY <1>2 DEF Broadcast
<1>3. ASSUME WorkerWakes PROVE PrimaryInv'
  BY <1>3 DEF WorkerWakes, Goto
<1>4. ASSUME WorkerSnapshot PROVE PrimaryInv'
  <2>1. \A u \in Writers : snapshot'[u] = snapshot[u] \/ pc'[u] \notin Writing
    BY <1>4 DEF WorkerSnapshot, Take, Goto, Writing
  <2>2. \A u \in Writers : pc'[u] \in Writing => pc'[u] = pc[u]
    BY <1>4 DEF WorkerSnapshot, Take, Goto, Writing
  <2>3. QED
    BY <1>4, <2>1, <2>2 DEF WorkerSnapshot, Writing
<1>5. ASSUME Damage PROVE PrimaryInv'
  BY <1>5, Spent DEF Damage, Undamaged
<1>6. ASSUME Crash PROVE PrimaryInv'
  <2>1. PICK p \in primary.after : primary' = Settled(p)
    BY <1>6 DEF Crash
  <2>2. \A u \in Writers : pc'[u] = "idle"
    BY <1>6 DEF Crash
  <2>3. QED
    BY <1>6, <2>1, <2>2 DEF Crash, Settled
<1>7. ASSUME NEW f \in Flushers, FlushCall(f) PROVE PrimaryInv'
  <2>1. \A u \in Writers : snapshot'[u] = snapshot[u] \/ pc'[u] \notin Writing
    BY <1>7 DEF FlushCall, Take, Goto, Writing
  <2>2. \A u \in Writers : pc'[u] \in Writing => pc'[u] = pc[u]
    BY <1>7 DEF FlushCall, Take, Goto, Writing
  <2>3. QED
    BY <1>7, <2>1, <2>2 DEF FlushCall, Writing
<1>8. ASSUME NEW w \in Writers, PersistSkipped(w) PROVE PrimaryInv'
  BY <1>8 DEF PersistSkipped, Ok, Failed, Goto
<1>9. ASSUME NEW w \in Writers, PersistBegins(w) PROVE PrimaryInv'
  BY <1>9 DEF PersistBegins, Committed, Superseded, Goto
<1>10. ASSUME NEW w \in Writers, RefusedByNewer(w) PROVE PrimaryInv'
  BY <1>10 DEF RefusedByNewer, Failed, Goto
<1>11. ASSUME NEW w \in Writers, GuardPasses(w) PROVE PrimaryInv'
  BY <1>11 DEF GuardPasses, Goto
<1>12. ASSUME NEW w \in Writers, ReplacePrimary(w) PROVE PrimaryInv'
  <2>1. /\ pc[w] = "replace" /\ pc' = [pc EXCEPT ![w] = "sync"]
        /\ primary'.now = Good(snapshot[w].version)
        /\ primary'.after = primary.after \cup {Good(snapshot[w].version)}
        /\ UNCHANGED <<snapshot, written>>
    BY <1>12 DEF ReplacePrimary, Goto, Rename
  <2>2. written[1] <= snapshot[w].version
    BY <2>1 DEF MutexInv, Writing, WrittenInv
  <2>3. AtLeast(Good(snapshot[w].version), written[1])
    BY <2>2 DEF AtLeast, Good
  <2>4. \A u \in Writers : pc'[u] \in {"sync", "backup", "sync backup"} => u = w
    BY <2>1 DEF MutexInv, Writing
  <2>5. QED
    BY <2>1, <2>3, <2>4
<1>13. ASSUME NEW w \in Writers, SyncDirectory(w) PROVE PrimaryInv'
  <2>1. /\ primary'.now = primary.now /\ primary'.after = {primary.now}
        /\ UNCHANGED snapshot
    BY <1>13 DEF SyncDirectory, Flushed, Settled
  <2>2. primary.now = Good(snapshot[w].version)
    BY <1>13 DEF SyncDirectory
  <2>3. \A u \in Writers :
          pc'[u] \in {"sync", "backup", "sync backup"} =>
            pc[u] \in {"sync", "backup", "sync backup"}
    BY <1>13 DEF SyncDirectory, Goto, Ok
  <2>4. AtLeast(primary.now, written'[1])
    <3>1. CASE pc[w] = "sync"
      <4>1. last < snapshot[w].rev
        BY <3>1 DEF MutexInv, Writing
      <4>2. written' = written
        BY <1>13, <3>1 DEF SyncDirectory
      <4>3. written[1] <= snapshot[w].version
        BY <4>1 DEF WrittenInv
      <4>4. primary.now.kind = "good" /\ primary.now.version = snapshot[w].version
        BY ONLY <2>2 DEF Good
      <4>5. QED
        BY ONLY <4>2, <4>3, <4>4 DEF AtLeast
    <3>2. CASE pc[w] = "sync backup"
      <4>1. written' = <<snapshot[w].version, written[1]>>
        BY <1>13, <3>2 DEF SyncDirectory
      <4>2. written'[1] = snapshot[w].version
        BY <4>1
      <4>3. primary.now.kind = "good" /\ primary.now.version = snapshot[w].version
        BY ONLY <2>2 DEF Good
      <4>6. snapshot[w].version \in Nat
        BY SnapshotFacts
      <4>4. snapshot[w].version <= snapshot[w].version
        BY ONLY <4>6
      <4>5. QED
        BY <4>2, <4>3, <4>4 DEF AtLeast
    <3>3. QED
      BY <1>13, <3>1, <3>2 DEF SyncDirectory
  <2>5. QED
    BY <2>1, <2>3, <2>4
<1>14. ASSUME NEW w \in Writers, ReplaceBackup(w) PROVE PrimaryInv'
  BY <1>14 DEF ReplaceBackup, Goto
<1>15. ASSUME NEW w \in Writers, WriteFails(w) PROVE PrimaryInv'
  BY <1>15 DEF WriteFails, Spend, Failed, Goto
<1>16. ASSUME UNCHANGED vars PROVE PrimaryInv'
  BY <1>16 DEF vars, memory, order, files
<1>17. QED
  BY <1>1, <1>2, <1>3, <1>4, <1>5, <1>6, <1>7, <1>8, <1>9, <1>10, <1>11, <1>12, <1>13,
     <1>14, <1>15, <1>16
  DEF Next, WriteStep

\* Every step without disk damage keeps BackupInv.
LEMMA BackupStep ==
  ASSUME TypeOK, MutexInv, WrittenInv, PrimaryInv, BackupInv, Undamaged', [Next]_vars
  PROVE  BackupInv'
<1> USE WriterFacts, SnapshotFacts, Known DEF TypeOK, BackupInv, memory, order, files
<1>1. ASSUME Change PROVE BackupInv'
  BY <1>1 DEF Change, Spend
<1>2. ASSUME Broadcast PROVE BackupInv'
  BY <1>2 DEF Broadcast
<1>3. ASSUME WorkerWakes PROVE BackupInv'
  BY <1>3 DEF WorkerWakes, Goto
<1>4. ASSUME WorkerSnapshot PROVE BackupInv'
  BY <1>4 DEF WorkerSnapshot, Take, Goto
<1>5. ASSUME Damage PROVE BackupInv'
  BY <1>5, Spent DEF Damage, Undamaged
<1>6. ASSUME Crash PROVE BackupInv'
  <2>1. PICK b \in backup.after : backup' = Settled(b)
    BY <1>6 DEF Crash
  <2>2. \A u \in Writers : pc'[u] = "idle"
    BY <1>6 DEF Crash
  <2>3. last' = 0
    BY <1>6 DEF Crash
  <2>4. backup'.now = b /\ backup'.after = {b}
    BY <2>1 DEF Settled
  <2>5. ~(last' > 0)
    BY ONLY <2>3
  <2>6. QED
    BY <2>2, <2>4, <2>5
<1>7. ASSUME NEW f \in Flushers, FlushCall(f) PROVE BackupInv'
  BY <1>7 DEF FlushCall, Spend, Take, Goto
<1>8. ASSUME NEW w \in Writers, PersistSkipped(w) PROVE BackupInv'
  BY <1>8 DEF PersistSkipped, Ok, Failed, Goto
<1>9. ASSUME NEW w \in Writers, PersistBegins(w) PROVE BackupInv'
  BY <1>9 DEF PersistBegins, Committed, Superseded, Goto
<1>10. ASSUME NEW w \in Writers, RefusedByNewer(w) PROVE BackupInv'
  BY <1>10 DEF RefusedByNewer, Failed, Goto
<1>11. ASSUME NEW w \in Writers, GuardPasses(w) PROVE BackupInv'
  <2>1. pc[w] = "guard" /\ pc' = [pc EXCEPT ![w] = "replace"]
    BY <1>11 DEF GuardPasses, Goto
  <2>2. /\ primary.now # Newer /\ previous' = Load(primary.now, backup.now)
        /\ UNCHANGED <<backup, written, last>>
    BY <1>11 DEF GuardPasses
  <2>3. \A u \in Writers : pc'[u] \in Writing => u = w
    BY <2>1 DEF MutexInv, Writing
  <2>4. ASSUME Readable(previous') PROVE AtLeast(previous', written[1])
    <3>1. CASE Readable(primary.now)
      <4>1. previous' = primary.now /\ primary.now \in primary.after
        BY <2>2, <3>1 DEF Load
      <4>2. primary.now.kind = "good"
        <5>1. primary.now \in Content
          BY FileType
        <5>2. primary.now.kind # "newer"
          BY <2>2, <5>1 DEF Content, Newer
        <5>3. QED
          BY <3>1, <5>2 DEF Readable
      <4>3. primary.now.version \in Nat
        BY FileType, ContentType
      <4>7. written[1] \in Nat
        BY Known
      <4>4. CASE written[1] = 0
        BY ONLY <4>1, <4>2, <4>3, <4>4 DEF AtLeast
      <4>5. CASE written[1] > 0
        BY <4>1, <4>5 DEF PrimaryInv
      <4>8. written[1] = 0 \/ written[1] > 0
        BY ONLY <4>7
      <4>6. QED
        BY <4>4, <4>5, <4>8
    <3>2. CASE ~Readable(primary.now)
      <4>1. written[1] = 0
        <5>1. ~(written[1] > 0)
          BY <3>2 DEF PrimaryInv, AtLeast, Readable
        <5>2. written[1] \in Nat
          BY Known
        <5>3. QED
          BY ONLY <5>1, <5>2
      <4>2. previous' = backup.now /\ Readable(backup.now)
        BY <2>2, <2>4, <3>2 DEF Load, Readable, Missing
      <4>3. backup.now.version \in Nat
        BY FileType, ContentType
      <4>4. backup.now.kind = "good"
        BY <4>2 DEF Readable
      <4>5. QED
        BY ONLY <4>1, <4>2, <4>3, <4>4 DEF AtLeast
    <3>3. QED
      BY <3>1, <3>2
  <2>5. QED
    BY <2>1, <2>2, <2>3, <2>4 DEF Writing
<1>12. ASSUME NEW w \in Writers, ReplacePrimary(w) PROVE BackupInv'
  BY <1>12 DEF ReplacePrimary, Goto
<1>13. ASSUME NEW w \in Writers, SyncDirectory(w) PROVE BackupInv'
  <2>1. /\ backup'.now = backup.now /\ backup'.after = {backup.now}
        /\ UNCHANGED previous
    BY <1>13 DEF SyncDirectory, Flushed, Settled
  <2>2. CASE pc[w] = "sync"
    <3>1. pc' = [pc EXCEPT ![w] = "backup"] /\ UNCHANGED <<last, written>>
      BY <1>13, <2>2 DEF SyncDirectory, Goto
    <3>2. QED
      BY <2>1, <2>2, <3>1
  <2>3. CASE pc[w] = "sync backup"
    <3>1. pc' = [pc EXCEPT ![w] = "idle"] /\ written' = <<snapshot[w].version, written[1]>>
      BY <1>13, <2>3 DEF SyncDirectory, Ok, Goto
    <3>2. written'[2] = written[1]
      BY <3>1
    <3>3. \A u \in Writers : pc'[u] \notin Writing
      BY <2>3, <3>1 DEF MutexInv, Writing
    <3>4. AtLeast(backup.now, written[1]) /\ backup.now.kind # "newer"
      BY <2>3
    <3>5. QED
      BY <2>1, <3>2, <3>3, <3>4 DEF Writing
  <2>4. QED
    BY <1>13, <2>2, <2>3 DEF SyncDirectory
<1>14. ASSUME NEW w \in Writers, ReplaceBackup(w) PROVE BackupInv'
  <2> DEFINE content == IF Readable(previous) THEN previous ELSE Good(snapshot[w].version)
  <2>1. /\ pc[w] = "backup" /\ pc' = [pc EXCEPT ![w] = "sync backup"]
        /\ backup'.now = content /\ backup'.after = backup.after \cup {content}
        /\ UNCHANGED <<previous, written, last>>
    BY <1>14 DEF ReplaceBackup, Goto, Rename
  <2>2. written[1] <= snapshot[w].version
    BY <2>1 DEF MutexInv, Writing, WrittenInv
  <2>3. AtLeast(content, written[1])
    BY <2>1, <2>2 DEF AtLeast, Good
  <2>4. content \in Content
    BY ContentType
  <2>5. content.version \in Nat
    BY <2>4, ContentType
  <2>6. AtLeast(content, written[2]) /\ content.kind # "newer"
    <3>1. content.kind = "good" /\ written[1] <= content.version /\ written[2] <= written[1]
      BY <2>3 DEF AtLeast, WrittenInv
    <3>4. written[1] \in Nat /\ written[2] \in Nat
      BY Known
    <3>2. written[2] <= content.version
      BY ONLY <2>5, <3>1, <3>4
    <3>3. QED
      BY <3>1, <3>2 DEF AtLeast
  <2>7. \A u \in Writers : pc'[u] \in Writing => u = w
    BY <2>1 DEF MutexInv, Writing
  <2> HIDE DEF content
  <2>8. QED
    BY <2>1, <2>3, <2>6, <2>7 DEF Writing
<1>15. ASSUME NEW w \in Writers, WriteFails(w) PROVE BackupInv'
  BY <1>15 DEF WriteFails, Spend, Failed, Goto
<1>16. ASSUME UNCHANGED vars PROVE BackupInv'
  BY <1>16 DEF vars, memory, order, files
<1>17. QED
  BY <1>1, <1>2, <1>3, <1>4, <1>5, <1>6, <1>7, <1>8, <1>9, <1>10, <1>11, <1>12, <1>13,
     <1>14, <1>15, <1>16
  DEF Next, WriteStep

\* Every step keeps FilesInv.
LEMMA FilesStep ==
  ASSUME TypeOK, OrderInv, MutexInv, FilesInv, [Next]_vars
  PROVE  FilesInv'
<1> SUFFICES ASSUME Undamaged' PROVE (WrittenInv /\ PrimaryInv /\ BackupInv)'
  BY DEF FilesInv
<1>1. Undamaged
  BY StaysUndamaged DEF TypeOK
<1>2. WrittenInv /\ PrimaryInv /\ BackupInv
  BY <1>1 DEF FilesInv
<1>3. QED
  BY <1>2, WrittenStep, PrimaryStep, BackupStep


-----------------------------------------------------------------------------
(* The theorems                                                            *)

\* The invariant holds initially.
LEMMA InitInv ==
  ASSUME Init
  PROVE  IInv
<1> USE PersistenceAssumption DEF Init
<1> PICK p \in {Missing, Good(1), Damaged, Newer}, b \in {Missing, Good(0), Good(1)} :
       /\ primary = Settled(p) /\ backup = Settled(b)
       /\ queue = Load(p, b).version
  BY DEF Init
<1>1. p \in Content /\ b \in Content
  BY DEF Content, Missing, Good, Damaged, Newer
<1>2. primary \in File /\ backup \in File /\ queue \in Nat
  BY <1>1, SettledType, ContentType
<1>3. previous \in Content
  BY ContentType
<1>4. pc \in [Writers -> Labels] /\ snapshot \in [Writers -> Snapshot]
  BY DEF Labels, NoSnapshot, Snapshot
<1>5. left \in Bounds /\ written \in Nat \X Nat
  BY DEF Bounds
<1>6. Types
  BY <1>2, <1>3, <1>4, <1>5 DEF Types
<1>7. \A w \in Writers : snapshot[w].rev = 0 /\ snapshot[w].version = 0 /\ pc[w] = "idle"
  BY DEF NoSnapshot
<1>8. TypeOK
  BY <1>2, <1>6, <1>7 DEF TypeOK, Ages, Settled
<1>9. OrderInv /\ MutexInv
  BY <1>7, WriterFacts DEF OrderInv, MutexInv, Writing
<1>10. written[1] = 0 /\ written[2] = 0
  OBVIOUS
<1>11. WrittenInv
  <2>1. acked = 0 /\ last = 0 /\ 0 <= queue
    BY <1>2
  <2>2. QED
    BY <1>7, <1>10, <2>1, WriterFacts DEF WrittenInv
<1>15. PrimaryInv
  <2>1. ~(written[1] > 0)
    BY <1>10
  <2>2. QED
    BY <1>7, <2>1 DEF PrimaryInv
<1>12. BackupInv
  BY <1>7 DEF BackupInv, Settled, Missing, Good
<1>13. ForeignInv
  BY <1>7 DEF ForeignInv, Settled
<1>14. QED
  BY <1>8, <1>9, <1>11, <1>12, <1>13, <1>15 DEF IInv, FilesInv

\* The inductive invariant the theorems below follow from.
THEOREM Invariant == Spec => []IInv
<1>1. Init => IInv
  BY InitInv
<1>2. IInv /\ [Next]_vars => IInv'
  BY TypeStep, OrderStep, MutexStep, FilesStep, ForeignStep DEF IInv
<1>3. QED
  BY <1>1, <1>2, PTL DEF Spec

\* Every variable keeps its type, no snapshot is newer than the queue, and the
\* revisions are written in order.
THEOREM TypeCorrect == Spec => []TypeOK
<1>1. IInv => TypeOK
  BY DEF IInv
<1>2. QED
  BY <1>1, Invariant, PTL

\* Whatever QueuePersistence::flush confirmed is what a restart finds, or
\* something newer, after a crash at any step of any writer; the backup holds
\* the generation before a completed write.
THEOREM FlushSurvives == Spec => []FlushedSurvives
<1>1. IInv => FlushedSurvives
  <2> SUFFICES ASSUME IInv, Undamaged PROVE FlushedSurvives
    BY DEF FlushedSurvives, Undamaged
  <2> USE DEF IInv, TypeOK
  <2>1. WrittenInv /\ PrimaryInv /\ BackupInv
    BY DEF FilesInv
  <2>2. ASSUME NEW p \in primary.after, NEW b \in backup.after
        PROVE  Load(p, b).version >= acked
    <3>1. p \in Content /\ b \in Content
      BY Known, FileType
    <3>2. Load(p, b).version \in Nat
      BY <3>1, ContentType
    <3>3. CASE written[1] = 0
      BY <2>1, <3>2, <3>3, Known DEF WrittenInv
    <3>4. CASE written[1] > 0
      <4>1. Load(p, b) = p /\ written[1] <= p.version
        BY <2>1, <3>4 DEF PrimaryInv, AtLeast, Load, Readable
      <4>2. QED
        BY <2>1, <3>2, <4>1, Known DEF WrittenInv
    <3>5. QED
      BY <3>3, <3>4, Known
  <2>3. ASSUME last > 0, NEW b \in backup.after
        PROVE  b.kind = "good" /\ b.version >= written[2]
    <3>1. AtLeast(b, written[2])
      BY <2>1, <2>3 DEF BackupInv
    <3>2. b.version \in Nat
      BY Known, FileType, ContentType
    <3>3. QED
      BY <3>1, <3>2, Known DEF AtLeast
  <2>4. QED
    BY <2>2, <2>3 DEF FlushedSurvives, AfterPowerLoss
<1>2. QED
  BY <1>1, Invariant, PTL

\* What a step may do to a foreign primary.
ForeignKeptByStep ==
  /\ primary.now = Newer => primary'.now = Newer
  /\ primary.now = Damaged /\ primary'.now # Damaged => recovered

\* No step loses foreign bytes.
LEMMA KeptStep ==
  ASSUME IInv, Next
  PROVE  ForeignKeptByStep
<1> USE DEF IInv, ForeignInv, files, ForeignKeptByStep
<1>1. ASSUME UNCHANGED primary PROVE ForeignKeptByStep
  BY <1>1
<1>2. ASSUME Damage PROVE ForeignKeptByStep
  BY <1>2 DEF Damage, Newer, Damaged
<1>3. ASSUME Crash PROVE ForeignKeptByStep
  BY <1>3 DEF Crash, Settled
<1>4. ASSUME NEW w \in Writers, ReplacePrimary(w) PROVE ForeignKeptByStep
  BY <1>4 DEF ReplacePrimary
<1>5. ASSUME NEW w \in Writers, SyncDirectory(w) PROVE ForeignKeptByStep
  BY <1>5 DEF SyncDirectory, Flushed, Settled
<1>6. QED
  BY <1>1, <1>2, <1>3, <1>4, <1>5
  DEF Next, WriteStep, Change, Broadcast, WorkerWakes, WorkerSnapshot, FlushCall,
      PersistSkipped, PersistBegins, RefusedByNewer, GuardPasses, ReplaceBackup, WriteFails

\* No save discards the bytes of a damaged list without the copy that
\* guard_before_replace makes, and none replaces the list of a newer version;
\* a crash does not either.
THEOREM ForeignKept == Spec => ForeignBytesKept
<1>1. IInv /\ [Next]_vars => [ForeignKeptByStep]_vars
  BY KeptStep
<1>2. QED
  BY <1>1, Invariant, PTL DEF Spec, ForeignBytesKept, ForeignKeptByStep

-----------------------------------------------------------------------------
(* No change is forgotten                                                  *)

\* A change is announced by a later broadcast: whoever took the newest revision
\* and not the newest content knows that one is due. The worker takes the
\* revision of the last flush and may have newer content; then the broadcast of
\* that content is due, or its signal is still set.
LateInv ==
  /\ \A w \in Writers :
       snapshot[w].rev = revision /\ revision > 0 /\ snapshot[w].version < queue => due > 0
  /\ last = revision /\ revision > 0 /\ written[1] < queue => due > 0
  /\ signal \/ pc[Worker] = "snapshot" => revision > 0
  /\ \A w \in Writers : pc[w] = "persist" => snapshot[w].rev > 0
  /\ pc[Worker] = "persist" =>
       /\ \A f \in Flushers :
            /\ snapshot[Worker].rev <= snapshot[f].rev
            /\ snapshot[f].version < snapshot[Worker].version
            => due > 0 \/ signal
       /\ snapshot[Worker].rev <= last /\ written[1] < snapshot[Worker].version
            => due > 0 \/ signal

Healthy == left.faults = MaxFaults /\ Undamaged /\ primary.now # Newer

\* The version a restart would load.
Stored == Load(primary.now, backup.now).version

\* While no write fails the newest attempt is the last success, and whoever will
\* replace the primary holds nothing older than it.
DiskInv ==
  /\ writing = NoWriter => highest = last
  /\ Stored <= queue
  /\ \A w \in Writers :
       /\ pc[w] = "persist" /\ highest < snapshot[w].rev => Stored <= snapshot[w].version
       /\ pc[w] \in {"guard", "replace"} => Stored <= snapshot[w].version

\* Where the newest content is.
Somewhere ==
  \/ Stored = queue
  \/ due > 0 \/ signal \/ pc[Worker] = "snapshot"
  \/ \E w \in Writers : snapshot[w].version = queue /\ pc[w] \in {"persist", "guard", "replace"}

OnWay == Healthy => DiskInv /\ Somewhere

\* Every step keeps LateInv.
LEMMA LateStep ==
  ASSUME IInv, LateInv, [Next]_vars
  PROVE  LateInv'
<1>0. TypeOK /\ OrderInv
  BY DEF IInv
<1> USE <1>0, WriterFacts, SnapshotFacts, Known DEF TypeOK, Ages, LateInv, memory, order, files
<1>1. ASSUME Change PROVE LateInv'
  BY <1>1 DEF Change, Spend
<1>2. ASSUME Broadcast PROVE LateInv'
  BY <1>2 DEF Broadcast
<1>3. ASSUME WorkerWakes PROVE LateInv'
  BY <1>3 DEF WorkerWakes, Goto
<1>4. ASSUME WorkerSnapshot PROVE LateInv'
  <2>1. /\ snapshot'[Worker].rev = revision /\ snapshot'[Worker].version = queue
        /\ \A w \in Writers : w # Worker => snapshot'[w] = snapshot[w] /\ pc'[w] = pc[w]
        /\ UNCHANGED <<queue, due, signal, last, written>> /\ revision' = revision
    BY <1>4 DEF WorkerSnapshot, Take, Goto
  <2>2. revision > 0 /\ pc'[Worker] = "persist"
    BY <1>4 DEF WorkerSnapshot, Take, Goto
  <2>3. \A f \in Flushers : snapshot'[f] = snapshot[f]
    BY <2>1
  <2>4. ASSUME NEW f \in Flushers, revision <= snapshot[f].rev, snapshot[f].version < queue
        PROVE  due > 0
    BY <2>2, <2>4
  <2>5. revision <= last /\ written[1] < queue => due > 0
    BY <2>2
  <2>6. QED
    BY <2>1, <2>2, <2>3, <2>4, <2>5
<1>5. ASSUME Damage PROVE LateInv'
  BY <1>5 DEF Damage, Spend
<1>6. ASSUME Crash PROVE LateInv'
  <2>1. /\ revision' = 0 /\ signal' = FALSE
        /\ \A w \in Writers : pc'[w] = "idle"
    BY <1>6 DEF Crash
  <2>2. QED
    BY <2>1
<1>7. ASSUME NEW f \in Flushers, FlushCall(f) PROVE LateInv'
  <2>1. /\ snapshot'[f].rev = revision + 1 /\ snapshot'[f].version = queue
        /\ \A w \in Writers : w # f => snapshot'[w] = snapshot[w] /\ pc'[w] = pc[w]
        /\ UNCHANGED <<queue, due, signal, last, written>> /\ revision' = revision + 1
    BY <1>7 DEF FlushCall, Take, Goto
  <2>2. QED
    BY <2>1
<1>8. ASSUME NEW w \in Writers, PersistSkipped(w) PROVE LateInv'
  BY <1>8 DEF PersistSkipped, Ok, Failed, Goto
<1>9. ASSUME NEW w \in Writers, PersistBegins(w) PROVE LateInv'
  BY <1>9 DEF PersistBegins, Goto
<1>10. ASSUME NEW w \in Writers, RefusedByNewer(w) PROVE LateInv'
  BY <1>10 DEF RefusedByNewer, Failed, Goto
<1>11. ASSUME NEW w \in Writers, GuardPasses(w) PROVE LateInv'
  BY <1>11 DEF GuardPasses, Goto
<1>12. ASSUME NEW w \in Writers, ReplacePrimary(w) PROVE LateInv'
  BY <1>12 DEF ReplacePrimary, Goto
<1>13. ASSUME NEW w \in Writers, SyncDirectory(w) PROVE LateInv'
  <2>1. UNCHANGED <<queue, due, revision, signal, snapshot>>
    BY <1>13 DEF SyncDirectory
  <2>2. CASE pc[w] = "sync"
    BY <1>13, <2>2 DEF SyncDirectory, Goto
  <2>3. CASE pc[w] = "sync backup"
    <3>0. last' = snapshot[w].rev /\ written' = <<snapshot[w].version, written[1]>>
      BY <1>13, <2>3 DEF SyncDirectory
    <3>5. pc'[w] = "idle" /\ \A u \in Writers : u # w => pc'[u] = pc[u]
      BY <1>13, <2>3 DEF SyncDirectory, Ok, Goto
    <3>1. /\ last' = snapshot[w].rev /\ written'[1] = snapshot[w].version
          /\ pc'[w] = "idle" /\ \A u \in Writers : u # w => pc'[u] = pc[u]
      BY <3>0, <3>5
    <3>2. CASE w = Worker
      BY <2>1, <3>1, <3>2
    <3>3. CASE w \in Flushers
      BY <2>1, <3>1, <3>3
    <3>4. QED
      BY <3>2, <3>3 DEF Writers
  <2>4. QED
    BY <1>13, <2>2, <2>3 DEF SyncDirectory
<1>14. ASSUME NEW w \in Writers, ReplaceBackup(w) PROVE LateInv'
  BY <1>14 DEF ReplaceBackup, Goto
<1>15. ASSUME NEW w \in Writers, WriteFails(w) PROVE LateInv'
  BY <1>15 DEF WriteFails, Spend, Failed, Goto
<1>16. ASSUME UNCHANGED vars PROVE LateInv'
  BY <1>16 DEF vars, memory, order, files
<1>17. QED
  BY <1>1, <1>2, <1>3, <1>4, <1>5, <1>6, <1>7, <1>8, <1>9, <1>10, <1>11, <1>12, <1>13,
     <1>14, <1>15, <1>16
  DEF Next, WriteStep

\* What is no longer healthy stays so.
LEMMA StaysHealthy ==
  ASSUME IInv, [Next]_vars, Healthy'
  PROVE  Healthy
<1>0. TypeOK /\ Types
  BY DEF IInv, TypeOK
<1>1. Undamaged
  BY <1>0, StaysUndamaged DEF Healthy
<1>2. primary.now # Newer
  BY KeptStep DEF Healthy, ForeignKeptByStep, vars, files
<1>3. left.faults = MaxFaults
  <2> USE <1>0, Known, Spent DEF Healthy
  <2>1. CASE left' = left
    BY <2>1
  <2>2. CASE \E what \in {"changes", "flushes", "faults", "damages", "crashes"} : Spend(what)
    BY <2>2
  <2>3. QED
    BY <2>1, <2>2
    DEF Next, WriteStep, Change, Broadcast, WorkerWakes, WorkerSnapshot, Damage, Crash,
        FlushCall, PersistSkipped, PersistBegins, RefusedByNewer, GuardPasses, ReplacePrimary,
        SyncDirectory, ReplaceBackup, WriteFails, vars
<1>4. QED
  BY <1>1, <1>2, <1>3 DEF Healthy

\* The version a restart would load is a number.
LEMMA StoredType ==
  ASSUME Types
  PROVE  Stored \in Nat
BY Known, FileType, ContentType DEF Stored

\* A list in the primary is what a restart loads, whatever the backup holds.
LEMMA LoadedPrimary ==
  ASSUME NEW v, NEW b
  PROVE  Load(Good(v), b) = Good(v)
BY DEF Load, Readable, Good

\* A snapshot that was saved, or given up for a newer one, is not the last hope of
\* the newest content.
LEMMA SkippedStored ==
  ASSUME IInv, LateInv, Healthy, DiskInv, NEW w \in Writers, PersistSkipped(w),
         snapshot[w].version = queue
  PROVE  Stored = queue \/ due > 0 \/ signal
<1>0. TypeOK /\ Types /\ WrittenInv /\ PrimaryInv
  BY DEF IInv, TypeOK, FilesInv, Healthy
<1> USE <1>0, WriterFacts, SnapshotFacts, Known
<1>1. snapshot[w].rev <= last /\ pc[w] = "persist"
  <2>1. highest = last
    BY DEF PersistSkipped, DiskInv
  <2>2. QED
    BY <2>1 DEF PersistSkipped, Committed, Superseded, TypeOK, Ages
<1>2. queue <= written[1] => Stored = queue
  <2>1. Stored \in Nat /\ Stored <= queue
    BY StoredType DEF DiskInv
  <2>2. CASE written[1] = 0
    BY <2>1, <2>2
  <2>3. CASE written[1] > 0 /\ queue <= written[1]
    <3>1. primary.now.kind = "good" /\ written[1] <= primary.now.version
      BY <2>3 DEF PrimaryInv, AtLeast, TypeOK
    <3>2. Stored = primary.now.version
      BY <3>1 DEF Stored, Load, Readable
    <3>3. QED
      BY <2>1, <2>3, <3>1, <3>2
  <2>4. QED
    BY <2>2, <2>3
<1>3. CASE w \in Flushers
  BY <1>1, <1>2, <1>3 DEF WrittenInv
<1>4. CASE w = Worker
  BY <1>1, <1>2, <1>4 DEF LateInv
<1>5. QED
  BY <1>3, <1>4 DEF Writers

\* While nothing fails, a step finds the newest content or its announcement
\* somewhere, and leaves it somewhere.
LEMMA OnWayStep ==
  ASSUME IInv, LateInv, Healthy, DiskInv, Somewhere, [Next]_vars, Healthy'
  PROVE  DiskInv' /\ Somewhere'
<1>0. /\ TypeOK /\ Types /\ OrderInv /\ MutexInv /\ WrittenInv /\ PrimaryInv
      /\ Stored \in Nat
  BY StoredType DEF IInv, TypeOK, FilesInv, Healthy
<1> USE <1>0, WriterFacts, SnapshotFacts, Known DEF DiskInv, Somewhere, memory, order, files
<1>1. ASSUME Change PROVE DiskInv' /\ Somewhere'
  <2>1. UNCHANGED <<primary, backup, writing, highest, last, pc, snapshot>> /\ queue' = queue + 1
        /\ due' = due + 1
    BY <1>1 DEF Change
  <2>2. Stored' = Stored
    BY <2>1 DEF Stored
  <2>3. QED
    BY <2>1, <2>2
<1>2. ASSUME Broadcast PROVE DiskInv' /\ Somewhere'
  BY <1>2 DEF Broadcast, Stored
<1>3. ASSUME WorkerWakes PROVE DiskInv' /\ Somewhere'
  <2>1. UNCHANGED <<primary, backup, writing, highest, last, queue, snapshot>>
        /\ pc'[Worker] = "snapshot" /\ \A w \in Writers : w # Worker => pc'[w] = pc[w]
    BY <1>3 DEF WorkerWakes, Goto
  <2>2. Stored' = Stored
    BY <2>1 DEF Stored
  <2>3. QED
    BY <2>1, <2>2
<1>4. ASSUME WorkerSnapshot PROVE DiskInv' /\ Somewhere'
  <2>1. /\ snapshot'[Worker].rev = revision /\ snapshot'[Worker].version = queue
        /\ pc'[Worker] = "persist"
        /\ \A w \in Writers : w # Worker => snapshot'[w] = snapshot[w] /\ pc'[w] = pc[w]
    BY <1>4 DEF WorkerSnapshot, Take, Goto
  <2>2. UNCHANGED <<primary, backup, writing, highest, last, queue>>
    BY <1>4 DEF WorkerSnapshot
  <2>3. Stored' = Stored
    BY <2>2 DEF Stored
  <2>4. QED
    BY <2>1, <2>2, <2>3
<1>5. ASSUME Damage PROVE DiskInv' /\ Somewhere'
  BY <1>5, Spent DEF Damage, Healthy, Undamaged
<1>6. ASSUME Crash PROVE DiskInv' /\ Somewhere'
  <2>1. PICK p \in primary.after, b \in backup.after :
          primary' = Settled(p) /\ backup' = Settled(b) /\ queue' = Load(p, b).version
    BY <1>6 DEF Crash
  <2>2. Stored' = queue'
    BY <2>1 DEF Stored, Settled
  <2>3. queue' \in Nat
    BY <2>1, FileType, ContentType
  <2>4. highest' = last' /\ \A w \in Writers : pc'[w] = "idle"
    BY <1>6 DEF Crash
  <2>5. QED
    BY <2>2, <2>3, <2>4
<1>7. ASSUME NEW f \in Flushers, FlushCall(f) PROVE DiskInv' /\ Somewhere'
  <2>1. /\ snapshot'[f].rev = revision + 1 /\ snapshot'[f].version = queue
        /\ pc'[f] = "persist"
        /\ \A w \in Writers : w # f => snapshot'[w] = snapshot[w] /\ pc'[w] = pc[w]
    BY <1>7 DEF FlushCall, Take, Goto
  <2>2. UNCHANGED <<primary, backup, writing, highest, last, queue>>
    BY <1>7 DEF FlushCall
  <2>3. Stored' = Stored
    BY <2>2 DEF Stored
  <2>4. QED
    BY <2>1, <2>2, <2>3
<1>8. ASSUME NEW w \in Writers, PersistSkipped(w) PROVE DiskInv' /\ Somewhere'
  <2>1. /\ pc'[w] = "idle" /\ \A u \in Writers : u # w => pc'[u] = pc[u]
        /\ UNCHANGED <<memory, snapshot, order, files>>
    BY <1>8 DEF PersistSkipped, Ok, Failed, Goto
  <2>2. Stored' = Stored
    BY <2>1 DEF Stored
  <2>3. DiskInv'
    BY <2>1, <2>2
  <2>4. CASE snapshot[w].version = queue
    BY <1>8, <2>1, <2>2, <2>4, SkippedStored
  <2>5. CASE snapshot[w].version # queue
    BY <1>8, <2>1, <2>2, <2>5 DEF PersistSkipped
  <2>6. QED
    BY <2>3, <2>4, <2>5
<1>9. ASSUME NEW w \in Writers, PersistBegins(w) PROVE DiskInv' /\ Somewhere'
  <2>1. /\ pc[w] = "persist" /\ writing = NoWriter /\ writing' = w /\ highest' = snapshot[w].rev
        /\ last < snapshot[w].rev /\ pc'[w] = "guard"
        /\ \A u \in Writers : u # w => pc'[u] = pc[u]
        /\ UNCHANGED <<memory, snapshot, files, last>>
    BY <1>9 DEF PersistBegins, Goto, Committed
  <2>2. Stored' = Stored
    BY <2>1 DEF Stored
  <2>3. highest < snapshot[w].rev /\ w # NoWriter
    BY <2>1
  <2>4. QED
    BY <2>1, <2>2, <2>3
<1>10. ASSUME NEW w \in Writers, RefusedByNewer(w) PROVE DiskInv' /\ Somewhere'
  BY <1>10 DEF RefusedByNewer, Healthy
<1>11. ASSUME NEW w \in Writers, GuardPasses(w) PROVE DiskInv' /\ Somewhere'
  <2>1. /\ pc[w] = "guard" /\ pc'[w] = "replace" /\ \A u \in Writers : u # w => pc'[u] = pc[u]
        /\ UNCHANGED <<memory, snapshot, highest, last, writing, primary, backup>>
    BY <1>11 DEF GuardPasses, Goto
  <2>2. Stored' = Stored
    BY <2>1 DEF Stored
  <2>3. QED
    BY <2>1, <2>2
<1>12. ASSUME NEW w \in Writers, ReplacePrimary(w) PROVE DiskInv' /\ Somewhere'
  <2>1. /\ pc[w] = "replace" /\ pc'[w] = "sync" /\ \A u \in Writers : u # w => pc'[u] = pc[u]
        /\ UNCHANGED <<memory, snapshot, order>> /\ primary'.now = Good(snapshot[w].version)
    BY <1>12, RenameType, ContentType DEF ReplacePrimary, Goto
  <2>2. Stored' = snapshot[w].version
    BY <2>1 DEF Stored, Load, Readable, Good
  <2>3. /\ Stored <= snapshot[w].version /\ snapshot[w].version <= queue
        /\ writing = w /\ snapshot[w].rev = highest
    BY <2>1 DEF MutexInv, Writing, TypeOK, Ages
  <2>4. ASSUME NEW u \in Writers, pc'[u] = "persist", highest < snapshot[u].rev
        PROVE  snapshot[w].version <= snapshot[u].version
    BY <2>3, <2>4 DEF OrderInv
  <2>5. \A u \in Writers : pc'[u] \notin {"guard", "replace"}
    BY <2>1, <2>3 DEF MutexInv, Writing
  <2>6. DiskInv'
    BY <2>1, <2>2, <2>3, <2>4, <2>5
  <2>7. Somewhere'
    BY <2>1, <2>2, <2>3
  <2>8. QED
    BY <2>6, <2>7
<1>13. ASSUME NEW w \in Writers, SyncDirectory(w) PROVE DiskInv' /\ Somewhere'
  <2>1. /\ primary'.now = primary.now /\ backup'.now = backup.now
        /\ UNCHANGED <<memory, snapshot, highest>>
        /\ pc[w] \in {"sync", "sync backup"} /\ pc'[w] \in {"backup", "idle"}
        /\ \A u \in Writers : u # w => pc'[u] = pc[u]
    BY <1>13 DEF SyncDirectory, Flushed, Settled, Ok, Goto
  <2>2. Stored' = Stored
    BY <2>1 DEF Stored
  <2>3. writing' = NoWriter => highest = last'
    BY <1>13 DEF SyncDirectory, MutexInv, Writing
  <2>4. QED
    BY <2>1, <2>2, <2>3
<1>14. ASSUME NEW w \in Writers, ReplaceBackup(w) PROVE DiskInv' /\ Somewhere'
  <2>1. /\ pc[w] = "backup" /\ pc'[w] = "sync backup" /\ primary' = primary
        /\ \A u \in Writers : u # w => pc'[u] = pc[u]
        /\ UNCHANGED <<memory, snapshot, order>>
    BY <1>14 DEF ReplaceBackup, Goto
  <2>2. primary.now = Good(snapshot[w].version)
    BY <2>1 DEF PrimaryInv
  <2>3. Stored = primary.now.version
    BY <2>2, LoadedPrimary DEF Stored
  <2>4. Stored' = primary'.now.version
    BY <2>1, <2>2, LoadedPrimary DEF Stored
  <2>5. QED
    BY <2>1, <2>3, <2>4
<1>15. ASSUME NEW w \in Writers, WriteFails(w) PROVE DiskInv' /\ Somewhere'
  BY <1>15, Spent DEF WriteFails, Healthy
<1>16. ASSUME UNCHANGED vars PROVE DiskInv' /\ Somewhere'
  BY <1>16 DEF vars, Stored
<1>17. QED
  BY <1>1, <1>2, <1>3, <1>4, <1>5, <1>6, <1>7, <1>8, <1>9, <1>10, <1>11, <1>12, <1>13,
     <1>14, <1>15, <1>16
  DEF Next, WriteStep

\* Every change reaches the disk without any further change: as long as no write
\* fails, what a restart would load is the newest list, or a broadcast, the signal
\* or a writer is on the way to write it. No wake-up of the worker is lost, and no
\* snapshot is given up for an older one.
THEOREM ChangesArrive == Spec => []ChangesAreOnTheWay
<1>1. Init => LateInv /\ OnWay
  <2> SUFFICES ASSUME Init PROVE LateInv /\ OnWay
    OBVIOUS
  <2>1. PICK p \in {Missing, Good(1), Damaged, Newer}, b \in {Missing, Good(0), Good(1)} :
          primary = Settled(p) /\ backup = Settled(b) /\ queue = Load(p, b).version
    BY DEF Init
  <2>2. Stored = queue
    BY <2>1 DEF Stored, Settled
  <2>3. queue \in Nat
    BY InitInv, Known DEF IInv, TypeOK
  <2>4. \A w \in Writers : pc[w] = "idle"
    BY DEF Init
  <2>5. LateInv
    BY <2>4, WriterFacts DEF Init, LateInv
  <2>6. QED
    BY <2>2, <2>3, <2>4, <2>5 DEF Init, OnWay, DiskInv, Somewhere
<1>2. IInv /\ LateInv /\ OnWay /\ [Next]_vars => LateInv' /\ OnWay'
  <2>1. IInv /\ LateInv /\ OnWay /\ [Next]_vars /\ Healthy' => DiskInv' /\ Somewhere'
    BY StaysHealthy, OnWayStep DEF OnWay
  <2>2. QED
    BY <2>1, LateStep DEF OnWay
<1>3. OnWay => ChangesAreOnTheWay
  BY DEF OnWay, Healthy, Undamaged, Somewhere, Stored, ChangesAreOnTheWay
<1>4. QED
  BY <1>1, <1>2, <1>3, Invariant, PTL DEF Spec
==============================================================================
