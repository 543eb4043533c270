------------------------- MODULE SettingsStore_proofs --------------------------
(***************************************************************************)
(* What SettingsStore guarantees for any number of requests, fields and    *)
(* values. The properties are about revisions, the inductive invariant     *)
(* IInv about what a revision stands for: a save of the newest revision    *)
(* has the renderer's settings in its snapshot, and while an older save is *)
(* under way somebody still waits for the newest revision (Fresh); what a  *)
(* save has written is in the file (Written); and a renderer that differs  *)
(* from the file, with no save under way, has a caller that will cause one *)
(* (Clean).                                                                *)
(***************************************************************************)
EXTENDS SettingsStore, TLAPS

\* A caller waits for a save of the newest revision.
Awaited == \E c \in Calls : requests[c].state = "waiting" /\ requests[c].revision = revision

\* Whoever waits has a save under way or a timer that will start one, and a save
\* is only under way for somebody.
Waits ==
  /\ SomeoneWaits(requests) => debounce \/ save.phase # "none"
  /\ save.phase # "none" => SomeoneWaits(requests)

\* A save of the newest revision sends what the renderer shows.
Fresh ==
  /\ save.phase # "none" /\ save.revision = revision => save.snapshot = settings
  /\ save.phase # "none" /\ save.revision # revision /\ ~Replaced => Awaited

\* What the backend has compared and written is still in the file.
Written ==
  /\ NormalForm(disk) = disk
  /\ ~newer => errorCode # "newer" /\ save.phase # "newer"
  /\ replacing.what = "nothing" => replacing.stage = "none"
  /\ ~Replaced =>
       /\ save.phase = "validated" =>
            \A k \in Keys : k \notin save.refused \cup save.changed => save.snapshot[k] = disk[k]
       /\ save.phase = "saved" => save.refused = {} /\ save.data = disk
       /\ save.phase = "read back" => save.data = disk
       /\ save.phase \in {"saved", "refused", "read back"} =>
            \A k \in Keys : k \notin save.refused => Normal[save.snapshot[k]] = disk[k]

\* Nothing is lost between two saves.
Clean ==
  save.phase = "none" /\ AllSaved /\ ~Replaced /\ ~Awaited => OnDisk(settings)

IInv == TypeOK /\ Waits /\ Fresh /\ Written /\ Clean

-----------------------------------------------------------------------------
(* Facts about the operators                                               *)

\* The migration gives whole settings and changes its own results no further.
LEMMA NormalTyped ==
  ASSUME NEW s \in Settings
  PROVE  NormalForm(s) \in Settings /\ NormalForm(NormalForm(s)) = NormalForm(s)
<1>1. Normal \in [Values -> Values] /\ \A v \in Values : Normal[Normal[v]] = Normal[v]
  BY SettingsAssumption
<1>2. s \in [Keys -> Values]
  BY DEF Settings
<1>3. QED
  BY <1>1, <1>2 DEF NormalForm, Settings

\* A save that begins has the whole copy in its snapshot.
LEMMA SentFields ==
  ASSUME NEW s, NEW r
  PROVE  /\ Sent(s, r).phase = "sent" /\ Sent(s, r).revision = r /\ Sent(s, r).snapshot = s
         /\ Sent(s, r).changed = {} /\ Sent(s, r).refused = {} /\ Sent(s, r).data = Original
BY DEF Sent, NoSave

\* Its record, and that of no save, have the type of saves.
LEMMA SaveTyped ==
  /\ NoSave \in Saves
  /\ \A s \in Settings, r \in Nat : Sent(s, r) \in Saves
BY SettingsAssumption DEF NoSave, Sent, Phases, Saves

\* The fields of records of these types.
LEMMA Fields ==
  /\ \A q \in Requests : /\ q.state \in {"unmade", "waiting", "true", "false"}
                         /\ q.revision \in Nat /\ q.immediate \in BOOLEAN
  /\ \A s \in Saves : /\ s.phase \in Phases /\ s.revision \in Nat
                      /\ s.snapshot \in Settings /\ s.data \in Settings
                      /\ s.changed \in SUBSET Keys /\ s.refused \in SUBSET Keys
BY DEF Requests, Saves

\* persistSettings: one more caller waits, for the newest revision.
LEMMA PersistEffect ==
  ASSUME RendererTypes, NEW c \in Calls, NEW immediate \in BOOLEAN, Persist(c, immediate),
         revision' \in Nat, settings' \in Settings
  PROVE  /\ requests[c].state = "unmade"
         /\ requests'[c].state = "waiting" /\ requests'[c].revision = revision'
         /\ \A d \in Calls \ {c} : requests'[d] = requests[d]
         /\ requests' \in [Calls -> Requests]
         /\ debounce' = ~immediate /\ errorCode' = errorCode
         /\ \/ save.phase # "none" /\ save' = save
            \/ save.phase = "none" /\ immediate /\ save' = Sent(settings', revision')
            \/ save.phase = "none" /\ ~immediate /\ save' = save
<1>1. /\ requests[c] = Unmade /\ requests' = [requests EXCEPT ![c] = Waiting(revision', immediate)]
      /\ debounce' = ~immediate /\ errorCode' = errorCode
      /\ save' = IF immediate /\ save.phase = "none" THEN Sent(settings', revision') ELSE save
  BY DEF Persist
<1>2. requests \in [Calls -> Requests]
  BY DEF RendererTypes
<1>3. requests'[c] = Waiting(revision', immediate)
  BY <1>1, <1>2
<1>4. Waiting(revision', immediate) \in Requests
  BY DEF Waiting, Requests
<1>5. requests[c].state = "unmade"
  BY <1>1 DEF Unmade
<1>6. requests'[c].state = "waiting" /\ requests'[c].revision = revision'
  BY <1>3 DEF Waiting
<1>7. QED
  BY <1>1, <1>2, <1>4, <1>5, <1>6

\* The end of a save answers the callers it has served; the others go on
\* waiting, for the same revision if it is newer than the save's.
LEMMA FinishEffect ==
  ASSUME RendererTypes, Revisions, save.revision \in Nat, NEW saved \in BOOLEAN, Finish(saved)
  PROVE  /\ UNCHANGED <<revision, debounce, disk, newer, replacing>>
         /\ \A c \in Calls : requests[c].state # "waiting" => requests'[c] = requests[c]
         /\ \A c \in Calls : Served(c) =>
              requests'[c].state = IF saved \/ errorCode' = "newer" THEN "true" ELSE "false"
         /\ \A c \in Calls : requests[c].state = "waiting" /\ ~Served(c) =>
              /\ requests'[c].state = "waiting" /\ requests'[c].revision <= revision
              /\ requests[c].revision > save.revision => requests'[c] = requests[c]
         /\ requests' \in [Calls -> Requests]
         /\ \/ save' = NoSave /\ (SomeoneWaits(requests') => debounce)
            \/ save' = Sent(settings', revision) /\ SomeoneWaits(requests')
<1> DEFINE Answer == IF saved \/ (~saved /\ errorCode' = "newer") THEN "true" ELSE "false"
           Rs == Settled(Answer)
<1>1. /\ requests' = Rs /\ UNCHANGED <<revision, debounce, disk, newer, replacing>>
      /\ save' = IF MustContinue(Rs) THEN Sent(settings', revision) ELSE NoSave
  BY DEF Finish
<1>2. /\ revision \in Nat
      /\ requests \in [Calls -> Requests]
  BY DEF RendererTypes
<1>3. Answer \in {"true", "false"}
  OBVIOUS
<1>4. ASSUME NEW c \in Calls
      PROVE  Rs[c] = IF Served(c) THEN [requests[c] EXCEPT !.state = Answer]
                     ELSE IF requests[c].state = "waiting" /\ requests[c].revision <= save.revision
                     THEN [requests[c] EXCEPT !.revision = revision]
                     ELSE requests[c]
  BY DEF Settled
<1> HIDE DEF Rs, Answer
<1>5. ASSUME NEW c \in Calls
      PROVE  Rs[c] \in Requests
  BY <1>2, <1>3, <1>4 DEF Requests
<1>6. ASSUME NEW c \in Calls, requests[c].state # "waiting" PROVE Rs[c] = requests[c]
  BY <1>4, <1>6 DEF Served
<1>7. ASSUME NEW c \in Calls, Served(c) PROVE Rs[c].state = Answer
  <2>1. requests[c] \in Requests /\ Rs[c] = [requests[c] EXCEPT !.state = Answer]
    BY <1>2, <1>4, <1>7
  <2>2. QED
    BY <2>1 DEF Requests
<1>8. ASSUME NEW c \in Calls, requests[c].state = "waiting", ~Served(c)
      PROVE  /\ Rs[c].state = "waiting" /\ Rs[c].revision <= revision
             /\ requests[c].revision > save.revision => Rs[c] = requests[c]
  <2>1. requests[c].revision <= revision /\ requests[c].revision \in Nat
    BY <1>2, <1>8, Fields DEF Revisions
  <2>2. CASE requests[c].revision <= save.revision
    <3>1. Rs[c] = [requests[c] EXCEPT !.revision = revision]
      BY <1>4, <1>8, <2>2
    <3>2. QED
      BY <1>2, <1>8, <2>1, <2>2, <3>1 DEF Requests
  <2>3. CASE ~(requests[c].revision <= save.revision)
    BY <1>4, <1>8, <2>1, <2>3
  <2>4. QED
    BY <2>2, <2>3
<1>9. CASE MustContinue(Rs)
  <2>1. SomeoneWaits(Rs)
    BY <1>9 DEF MustContinue, SomeoneWaits
  <2>2. QED
    BY <1>1, <1>5, <1>6, <1>7, <1>8, <1>9, <2>1 DEF Answer, Settled, Rs
<1>10. CASE ~MustContinue(Rs)
  <2>1. SomeoneWaits(Rs) => debounce
    BY <1>10 DEF MustContinue, SomeoneWaits
  <2>2. QED
    BY <1>1, <1>5, <1>6, <1>7, <1>8, <1>10, <2>1 DEF Answer, Settled, Rs
<1>11. QED
  BY <1>9, <1>10

\* When the backend has answered a save of the newest revision, the file holds
\* what the renderer then shows.
LEMMA SettledOnDisk ==
  ASSUME TypeOK, Fresh, Written, SavedReply \/ RefusedReply, save.revision = revision, ~Replaced
  PROVE  OnDisk(settings)'
<1>1. /\ save.snapshot = settings /\ disk' = disk /\ NormalForm(disk) = disk
      /\ disk \in [Keys -> Values] /\ settings \in [Keys -> Values]
  BY DEF TypeOK, RendererTypes, BackendTypes, Settings, Fresh, Written, SavedReply, RefusedReply,
         Finish
<1>2. \A k \in Keys : Normal[disk[k]] = disk[k]
  <2>1. \A k \in Keys : NormalForm(disk)[k] = Normal[disk[k]]
    BY DEF NormalForm
  <2>2. QED
    BY <1>1, <2>1
<1>3. CASE SavedReply
  <2>1. settings' = disk
    BY <1>1, <1>3 DEF SavedReply, StillNewest, Written
  <2>2. QED
    BY <1>1, <2>1 DEF OnDisk
<1>4. CASE RefusedReply
  <2>1. /\ settings' = [k \in Keys |-> IF k \in save.refused THEN disk[k] ELSE settings[k]]
        /\ \A k \in Keys : k \notin save.refused => Normal[settings[k]] = disk[k]
    BY <1>1, <1>4 DEF RefusedReply, Written
  <2>2. \A k \in Keys : Normal[settings'[k]] = disk[k]
    BY <1>2, <2>1
  <2>3. NormalForm(settings') = [k \in Keys |-> disk[k]]
    BY <2>2 DEF NormalForm
  <2>4. QED
    BY <1>1, <2>3 DEF OnDisk, NormalForm
<1>5. QED
  BY <1>3, <1>4

\* The answer of a save leaves the bookkeeping of saves and callers in order.
LEMMA FinishKeeps ==
  ASSUME TypeOK, NEW saved \in BOOLEAN, Finish(saved), settings' \in Settings,
         errorCode' \in {"none", "newer", "failed"}, faults' \in 0 .. MaxFaults
  PROVE  TypeOK' /\ Waits' /\ Fresh'
<1>1. save.revision \in Nat /\ revision \in Nat
  BY Fields DEF TypeOK, RendererTypes, BackendTypes
<1>2. /\ UNCHANGED <<revision, debounce, disk, newer, replacing>>
      /\ \A c \in Calls : requests'[c].state = "waiting" => requests'[c].revision <= revision
      /\ requests' \in [Calls -> Requests]
      /\ \/ save' = NoSave /\ (SomeoneWaits(requests') => debounce)
         \/ save' = Sent(settings', revision) /\ SomeoneWaits(requests')
  <2>1. \A c \in Calls : requests[c].state = "waiting" => requests[c].revision <= revision
    BY DEF TypeOK, Revisions
  <2>2. \A c \in Calls : Served(c) => requests'[c].state # "waiting"
    BY <1>1, FinishEffect DEF TypeOK
  <2>3. QED
    BY <1>1, <2>1, <2>2, FinishEffect DEF TypeOK
<1>3. TypeOK'
  <2>1. RendererTypes'
    BY <1>1, <1>2 DEF TypeOK, RendererTypes
  <2>2. BackendTypes'
    <3>1. save' \in Saves
      BY <1>1, <1>2, SaveTyped
    <3>2. QED
      BY <1>2, <3>1 DEF TypeOK, BackendTypes
  <2>3. save'.revision <= revision
    BY <1>1, <1>2, SentFields DEF NoSave
  <2>4. QED
    BY <1>2, <2>1, <2>2, <2>3 DEF TypeOK, Revisions
<1>4. Waits' /\ Fresh'
  <2>1. CASE save' = NoSave /\ (SomeoneWaits(requests') => debounce)
    BY <1>2, <2>1 DEF Waits, Fresh, NoSave
  <2>2. CASE save' = Sent(settings', revision) /\ SomeoneWaits(requests')
    BY <1>2, <2>2, SentFields DEF Waits, Fresh
  <2>3. QED
    BY <1>2, <2>1, <2>2
<1>5. QED
  BY <1>3, <1>4

\* An answer does not touch the file.
LEMMA FinishKeepsWritten ==
  ASSUME TypeOK, Written, NEW saved \in BOOLEAN, Finish(saved), ~newer => errorCode' # "newer"
  PROVE  Written'
<1>1. UNCHANGED <<disk, newer, replacing>>
  BY DEF Finish
<1>2. save'.phase \in {"none", "sent"}
  BY SentFields DEF Finish, NoSave
<1>3. QED
  BY <1>1, <1>2 DEF Written

\* A save that was overtaken leaves the caller of the newest revision waiting; a
\* save of the newest revision answers somebody.
LEMMA FinishKeepsClean ==
  ASSUME TypeOK, Waits, Fresh, save.phase # "none", NEW saved \in BOOLEAN, Finish(saved),
         ~newer => errorCode' # "newer",
         saved /\ save.revision = revision /\ ~Replaced => OnDisk(settings)'
  PROVE  Clean'
<1>1. /\ save.revision \in Nat /\ revision \in Nat /\ save.revision <= revision
      /\ RendererTypes /\ Revisions
      /\ \A c \in Calls : requests[c].state = "waiting" =>
           requests[c].revision \in Nat /\ requests[c].revision <= revision
  BY Fields DEF TypeOK, RendererTypes, BackendTypes, Revisions
<1>2. UNCHANGED <<revision, newer, replacing>> /\ (Replaced' <=> Replaced)
  BY DEF Finish, Replaced
<1>3. CASE save.revision # revision /\ ~Replaced
  <2>1. PICK c \in Calls : requests[c].state = "waiting" /\ requests[c].revision = revision
    BY <1>3 DEF Fresh, Awaited
  <2>2. requests[c].revision > save.revision /\ ~Served(c)
    BY <1>1, <1>3, <2>1 DEF Served
  <2>3. requests'[c] = requests[c]
    BY <1>1, <2>1, <2>2, FinishEffect
  <2>4. QED
    BY <1>2, <2>1, <2>3 DEF Clean, Awaited
<1>4. CASE save.revision = revision /\ ~saved /\ ~newer
  <2>1. PICK c \in Calls : requests[c].state = "waiting"
    BY DEF Waits, SomeoneWaits
  <2>2. Served(c)
    BY <1>1, <1>4, <2>1 DEF Served, Outlived
  <2>3. requests'[c].state = "false"
    BY <1>1, <1>4, <2>2, FinishEffect
  <2>4. QED
    BY <2>3 DEF Clean, AllSaved
<1>5. QED
  BY <1>2, <1>3, <1>4 DEF Clean, AllSaved

\* save_patch writes whole settings.
LEMMA PatchedTyped ==
  ASSUME BackendTypes
  PROVE  Patched \in Settings
<1> DEFINE P == [k \in Keys |-> IF k \in save.changed THEN save.snapshot[k] ELSE disk[k]]
<1>1. save.snapshot \in [Keys -> Values] /\ disk \in [Keys -> Values]
  BY Fields DEF BackendTypes, Settings
<1>2. P \in Settings
  BY <1>1 DEF Settings
<1>3. QED
  BY <1>2, NormalTyped DEF Patched

\* A failure uses up one of the bounded faults.
LEMMA FaultTyped ==
  ASSUME faults \in 0 .. MaxFaults, Fault
  PROVE  faults' \in 0 .. MaxFaults
BY SettingsAssumption DEF Fault

\* Every answer leaves whole settings behind.
LEMMA ReplyEffect ==
  ASSUME TypeOK, Reply
  PROVE  /\ settings' \in Settings /\ errorCode' \in {"none", "newer", "failed"}
         /\ faults' \in 0 .. MaxFaults
<1>1. /\ settings \in [Keys -> Values] /\ save.data \in [Keys -> Values]
      /\ errorCode \in {"none", "newer", "failed"} /\ faults \in 0 .. MaxFaults
  BY Fields DEF TypeOK, RendererTypes, BackendTypes, Settings
<1>2. settings' \in [Keys -> Values]
  BY <1>1 DEF Reply, SavedReply, ErrorReply, RefusedReply, CallThrows
<1>3. errorCode' \in {"none", "newer", "failed"}
  BY <1>1 DEF Reply, SavedReply, ErrorReply, RefusedReply, CallThrows
<1>4. faults' \in 0 .. MaxFaults
  BY <1>1, FaultTyped DEF Reply, SavedReply, ErrorReply, RefusedReply, CallThrows
<1>5. QED
  BY <1>2, <1>3, <1>4 DEF Settings

\* A new caller keeps the types.
LEMMA PersistTypes ==
  ASSUME TypeOK, NEW c \in Calls, NEW immediate \in BOOLEAN, Persist(c, immediate),
         settings' \in Settings, revision' \in Nat, revision <= revision',
         UNCHANGED <<disk, newer, faults>>,
         replacing' \in Replacings
  PROVE  TypeOK'
<1>0. RendererTypes /\ BackendTypes /\ Revisions
  BY DEF TypeOK
<1>1. /\ requests' \in [Calls -> Requests]
      /\ requests'[c].revision = revision' /\ debounce' \in BOOLEAN /\ errorCode' = errorCode
      /\ \A d \in Calls \ {c} : requests'[d] = requests[d]
      /\ save' = save \/ save' = Sent(settings', revision')
  BY <1>0, PersistEffect
<1>2. save' \in Saves
  BY <1>0, <1>1, SaveTyped DEF BackendTypes
<1>3. /\ revision \in Nat /\ save.revision \in Nat
      /\ \A d \in Calls : requests[d].revision \in Nat
  BY <1>0, Fields DEF RendererTypes, BackendTypes
<1>4. save'.revision <= revision'
  BY <1>0, <1>1, <1>3, SentFields DEF Revisions
<1>5. \A d \in Calls : requests'[d].state = "waiting" => requests'[d].revision <= revision'
  BY <1>0, <1>1, <1>3 DEF Revisions
<1>6. RendererTypes'
  BY <1>0, <1>1 DEF RendererTypes
<1>7. BackendTypes'
  BY <1>0, <1>2 DEF BackendTypes
<1>8. QED
  BY <1>4, <1>5, <1>6, <1>7 DEF TypeOK, Revisions

\* Every step keeps the types,
LEMMA TypeStep ==
  ASSUME TypeOK, [Next]_vars
  PROVE  TypeOK'
<1>0. RendererTypes /\ BackendTypes /\ Revisions
  BY DEF TypeOK
<1>1. ASSUME NEW c \in Calls, NEW k \in Keys, NEW v \in Values, NEW immediate \in BOOLEAN,
             Edit(c, k, v, immediate)
      PROVE  TypeOK'
  <2>1. settings' \in Settings /\ revision' \in Nat /\ revision' = revision + 1
    BY <1>0, <1>1 DEF Edit, RendererTypes, Settings
  <2>2. UNCHANGED <<disk, newer, replacing, faults>> /\ Persist(c, immediate)
    BY <1>1 DEF Edit
  <2>3. QED
    BY <1>0, <2>1, <2>2, PersistTypes DEF RendererTypes, BackendTypes
<1>2. ASSUME NEW c \in Calls, Flush(c) PROVE TypeOK'
  <2>1. settings' = settings /\ revision' = revision
    BY <1>2 DEF Flush
  <2>2. UNCHANGED <<disk, newer, replacing, faults>>
    BY <1>2 DEF Flush
  <2>3. PICK immediate \in BOOLEAN : Persist(c, immediate)
    BY <1>2 DEF Flush
  <2>4. QED
    BY <1>0, <2>1, <2>2, <2>3, PersistTypes DEF RendererTypes, BackendTypes
<1>3. ASSUME NEW c \in Calls, NEW what \in Replacements, ReplaceAsked(c, what) PROVE TypeOK'
  <2>1. settings' = settings /\ revision' = revision
    BY <1>3 DEF ReplaceAsked
  <2>2. UNCHANGED <<disk, newer, faults>>
    BY <1>3 DEF ReplaceAsked
  <2>3. PICK immediate \in BOOLEAN : Persist(c, immediate)
    BY <1>3 DEF ReplaceAsked
  <2>4. replacing' \in Replacings
    BY <1>3 DEF ReplaceAsked, Stages, Replacings
  <2>5. QED
    BY <1>0, <2>1, <2>2, <2>3, <2>4, PersistTypes DEF RendererTypes, BackendTypes
<1>4. CASE DebounceEnds
  <2>1. debounce' \in BOOLEAN /\ UNCHANGED <<settings, revision, requests, errorCode>>
    BY <1>4 DEF DebounceEnds
  <2>2. UNCHANGED <<disk, newer, replacing, faults>>
    BY <1>4 DEF DebounceEnds
  <2>3. save' = save \/ save' = Sent(settings, revision)
    BY <1>4 DEF DebounceEnds
  <2>4. save'.revision <= revision
    BY <1>0, <2>3, SentFields DEF RendererTypes, Revisions
  <2>5. save' \in Saves
    BY <1>0, <2>3, SaveTyped DEF RendererTypes, BackendTypes
  <2>6. QED
    BY <1>0, <2>1, <2>2, <2>4, <2>5 DEF TypeOK, RendererTypes, BackendTypes, Revisions
<1>5. CASE Backend
  <2>1. save'.revision = save.revision /\ UNCHANGED renderer /\ UNCHANGED <<newer, replacing>>
    BY <1>0, <1>5 DEF Backend, Validate, WritePatch, ReadStored, BackendTypes, Saves
  <2>2. disk' \in Settings /\ faults' \in 0 .. MaxFaults
    BY <1>0, <1>5, PatchedTyped, FaultTyped DEF Backend, Validate, WritePatch, ReadStored,
                                               BackendTypes
  <2>3. save' \in Saves
    <3>1. CASE Validate
      BY <1>0, <3>1 DEF Validate, BackendTypes, Phases, Saves
    <3>2. CASE WritePatch
      BY <1>0, <3>2, PatchedTyped DEF WritePatch, BackendTypes, Phases, Saves
    <3>3. CASE ReadStored
      BY <1>0, <3>3 DEF ReadStored, BackendTypes, Phases, Saves
    <3>4. QED
      BY <1>5, <3>1, <3>2, <3>3 DEF Backend
  <2>4. RendererTypes' /\ Revisions'
    BY <1>0, <2>1 DEF RendererTypes, Revisions, renderer
  <2>5. QED
    BY <1>0, <2>1, <2>2, <2>3, <2>4 DEF TypeOK, BackendTypes
<1>6. CASE Reply
  <2>1. PICK saved \in BOOLEAN : Finish(saved)
    BY <1>6 DEF Reply, SavedReply, ErrorReply, RefusedReply, CallThrows
  <2>2. settings' \in Settings /\ errorCode' \in {"none", "newer", "failed"}
        /\ faults' \in 0 .. MaxFaults
    BY <1>6, ReplyEffect
  <2>3. QED
    BY <2>1, <2>2, FinishKeeps
<1>7. CASE Replace
  <2>1. CASE ReplaceFlushed \/ ReplaceFile
    <3>1. UNCHANGED renderer /\ UNCHANGED <<save, newer>>
      BY <2>1 DEF ReplaceFlushed, ReplaceFile
    <3>2. disk' \in Settings /\ faults' \in 0 .. MaxFaults
      BY <1>0, <2>1, FaultTyped, SettingsAssumption
      DEF ReplaceFlushed, ReplaceFile, BackendTypes
    <3>3. replacing' \in Replacings
      BY <1>0, <2>1 DEF ReplaceFlushed, ReplaceFile, Goto, BackendTypes, Stages, Replacings
    <3>4. RendererTypes' /\ Revisions'
      BY <1>0, <3>1 DEF RendererTypes, Revisions, renderer
    <3>5. QED
      BY <1>0, <3>1, <3>2, <3>3, <3>4 DEF TypeOK, BackendTypes
  <2>2. CASE ImportAnnounced
    <3>1. /\ settings' \in Settings /\ revision' \in Nat /\ revision' = revision + 1
          /\ UNCHANGED <<debounce, requests, errorCode, save, disk, newer, faults>>
      BY <1>0, <2>2, SettingsAssumption DEF ImportAnnounced, RendererTypes
    <3>2. replacing' \in Replacings
      BY <1>0, <2>2 DEF ImportAnnounced, Goto, BackendTypes, Stages, Replacings
    <3>3. save.revision \in Nat /\ \A c \in Calls : requests[c].revision \in Nat
      BY <1>0, Fields DEF RendererTypes, BackendTypes
    <3>4. Revisions'
      BY <1>0, <3>1, <3>3 DEF Revisions, RendererTypes
    <3>5. QED
      BY <1>0, <3>1, <3>2, <3>4 DEF TypeOK, RendererTypes, BackendTypes
  <2>3. CASE Restart
    <3>1. /\ settings' = disk /\ revision' = 0 /\ debounce' = FALSE /\ errorCode' = "none"
          /\ save' = NoSave /\ UNCHANGED <<disk, newer, faults>>
          /\ \A c \in Calls : requests'[c].state # "waiting"
      BY <2>3 DEF Restart, Unmade
    <3>2. requests' \in [Calls -> Requests]
      BY <1>0, <2>3 DEF Restart, Unmade, RendererTypes, Requests
    <3>3. replacing' \in Replacings
      BY <1>0, <2>3 DEF Restart, Goto, BackendTypes, Stages, Replacings
    <3>4. RendererTypes'
      BY <1>0, <3>1, <3>2 DEF RendererTypes, BackendTypes
    <3>5. BackendTypes'
      BY <1>0, <3>1, <3>3, SaveTyped DEF BackendTypes
    <3>6. Revisions'
      BY <3>1 DEF Revisions, NoSave
    <3>7. QED
      BY <3>4, <3>5, <3>6 DEF TypeOK
  <2>4. QED
    BY <1>7, <2>1, <2>2, <2>3 DEF Replace
<1>8. CASE UNCHANGED vars
  BY <1>0, <1>8 DEF TypeOK, RendererTypes, BackendTypes, Revisions, vars, renderer
<1>9. QED
  BY <1>1, <1>2, <1>3, <1>4, <1>5, <1>6, <1>7, <1>8 DEF Next, UserStep

\* A new caller keeps the rest of the invariant.
LEMMA PersistKeeps ==
  ASSUME TypeOK, Waits, Fresh, Written, NEW c \in Calls, NEW immediate \in BOOLEAN,
         Persist(c, immediate), settings' \in Settings, revision' \in Nat,
         (revision' = revision /\ settings' = settings) \/ revision' = revision + 1,
         UNCHANGED <<disk, newer>>, Replaced' <=> Replaced,
         replacing'.what = "nothing" => replacing'.stage = "none"
  PROVE  Waits' /\ Fresh' /\ Written' /\ Clean'
<1>1. /\ requests'[c].state = "waiting" /\ requests'[c].revision = revision'
      /\ debounce' = ~immediate /\ errorCode' = errorCode
      /\ \/ save.phase # "none" /\ save' = save
         \/ save.phase = "none" /\ immediate /\ save' = Sent(settings', revision')
         \/ save.phase = "none" /\ ~immediate /\ save' = save
  BY PersistEffect DEF TypeOK
<1>2. SomeoneWaits(requests') /\ Awaited'
  BY <1>1 DEF SomeoneWaits, Awaited
<1>3. /\ save.revision \in Nat /\ revision \in Nat /\ save.revision <= revision
  BY Fields DEF TypeOK, RendererTypes, BackendTypes, Revisions
<1>4. Waits'
  <2>1. ~immediate => debounce'
    BY <1>1, Zenon
  <2>2. debounce' \/ save'.phase # "none"
    BY <1>1, <2>1, SentFields
  <2>3. QED
    BY <1>2, <2>2 DEF Waits
<1>5. Fresh'
  BY <1>1, <1>2, <1>3, SentFields DEF Fresh
<1>6. Written'
  <2>1. CASE save' = save
    BY <1>1, <2>1 DEF Written
  <2>2. CASE save'.phase = "sent"
    BY <1>1, <2>2 DEF Written
  <2>3. QED
    BY <1>1, <2>1, <2>2, SentFields
<1>7. QED
  BY <1>2, <1>4, <1>5, <1>6 DEF Clean

\* What the backend writes is the normal form of what was sent.
LEMMA BackendWritten ==
  ASSUME TypeOK, Written, Backend
  PROVE  Written'
<1>1. /\ UNCHANGED renderer /\ UNCHANGED <<newer, replacing>> /\ save \in Saves
      /\ disk \in [Keys -> Values] /\ save.snapshot \in [Keys -> Values]
      /\ Replaced' <=> Replaced
  BY Fields DEF Backend, Validate, WritePatch, ReadStored, TypeOK, BackendTypes, Settings, Replaced
<1>2. CASE Validate
  <2>1. /\ disk' = disk /\ save'.phase = "validated" /\ save'.snapshot = save.snapshot
        /\ \A k \in Keys : save.snapshot[k] # disk[k] => k \in save'.changed \cup save'.refused
    BY <1>1, <1>2 DEF Validate, Saves
  <2>2. QED
    BY <1>1, <2>1 DEF Written, renderer
<1>3. CASE WritePatch
  <2>1. CASE disk' = disk /\ save'.phase \in {"newer", "failed"} /\ (save'.phase = "newer" => newer)
    BY <1>1, <2>1 DEF Written, renderer
  <2>2. CASE /\ disk' = Patched
             /\ save' = [save EXCEPT !.phase = IF save.refused = {} THEN "saved" ELSE "refused",
                                     !.data = Patched]
    <3>1. /\ save'.phase = IF save.refused = {} THEN "saved" ELSE "refused"
          /\ save'.data = Patched /\ save'.snapshot = save.snapshot
          /\ save'.refused = save.refused
      BY <1>1, <2>2 DEF Saves
    <3>2. \A k \in Keys :
            Patched[k] = Normal[IF k \in save.changed THEN save.snapshot[k] ELSE disk[k]]
      BY DEF Patched, NormalForm
    <3>3. NormalForm(Patched) = Patched
      <4>1. [k \in Keys |-> IF k \in save.changed THEN save.snapshot[k] ELSE disk[k]] \in Settings
        BY <1>1 DEF Settings
      <4>2. QED
        BY <4>1, NormalTyped DEF Patched
    <3>4. ~Replaced => \A k \in Keys : k \notin save.refused => Normal[save.snapshot[k]] = Patched[k]
      BY <1>3, <3>2 DEF WritePatch, Written
    <3>5. /\ NormalForm(disk') = disk' /\ newer' = newer /\ errorCode' = errorCode
          /\ replacing' = replacing
      BY <1>1, <2>2, <3>3 DEF renderer
    <3>6. ~Replaced => \A k \in Keys : k \notin save'.refused => Normal[save'.snapshot[k]] = disk'[k]
      BY <2>2, <3>1, <3>4
    <3>7. save'.phase \in {"saved", "refused"} /\ save'.data = disk'
          /\ (save'.phase = "saved" => save'.refused = {})
      BY <2>2, <3>1
    <3>8. QED
      <4>1. NormalForm(disk)' = disk'
        BY <3>5
      <4>2. ~newer' => errorCode' # "newer" /\ save'.phase # "newer"
        BY <3>5, <3>7 DEF Written
      <4>3. replacing'.what = "nothing" => replacing'.stage = "none"
        BY <3>5 DEF Written
      <4>4. QED
        BY <1>1, <3>6, <3>7, <4>1, <4>2, <4>3 DEF Written
  <2>3. QED
    BY <1>1, <1>3, <2>1, <2>2 DEF WritePatch, Saves
<1>4. CASE ReadStored
  <2>1. /\ disk' = disk /\ save.phase = "refused" /\ save'.phase = "read back"
        /\ save'.snapshot = save.snapshot /\ save'.refused = save.refused /\ save'.data = disk
    BY <1>1, <1>4 DEF ReadStored, Saves
  <2>2. QED
    BY <1>1, <2>1 DEF Written, renderer
<1>5. QED
  BY <1>2, <1>3, <1>4 DEF Backend

\* Every answer keeps the invariant.
LEMMA ReplyStep ==
  ASSUME IInv, Reply
  PROVE  IInv'
<1>0. TypeOK /\ Waits /\ Fresh /\ Written
  BY DEF IInv
<1>1. ~newer => errorCode' # "newer"
  BY <1>0 DEF Reply, SavedReply, ErrorReply, RefusedReply, CallThrows, Written
<1>2. PICK saved \in BOOLEAN :
        Finish(saved) /\ (saved => SavedReply \/ RefusedReply)
  BY DEF Reply, SavedReply, ErrorReply, RefusedReply, CallThrows
<1>3. TypeOK' /\ Waits' /\ Fresh'
  BY <1>0, <1>2, ReplyEffect, FinishKeeps
<1>4. Written'
  BY <1>0, <1>1, <1>2, FinishKeepsWritten
<1>5. saved /\ save.revision = revision /\ ~Replaced => OnDisk(settings)'
  BY <1>0, <1>2, SettledOnDisk
<1>6. save.phase # "none"
  BY DEF Reply, SavedReply, ErrorReply, RefusedReply, CallThrows
<1>7. Clean'
  BY <1>0, <1>1, <1>2, <1>5, <1>6, FinishKeepsClean
<1>8. QED
  BY <1>3, <1>4, <1>7 DEF IInv

\* Import and reset keep the invariant.
LEMMA ReplaceStep ==
  ASSUME IInv, Replace
  PROVE  Waits' /\ Fresh' /\ Written' /\ Clean'
<1>0. /\ TypeOK /\ Waits /\ Fresh /\ Written /\ Clean
      /\ replacing \in Replacings /\ save.revision <= revision
      /\ save.revision \in Nat /\ revision \in Nat
  BY Fields DEF IInv, TypeOK, BackendTypes, RendererTypes, Revisions
<1>1. CASE ReplaceFlushed \/ (ReplaceFile /\ Goto("given up") /\ disk' = disk)
  <2>1. UNCHANGED renderer /\ UNCHANGED <<save, disk, newer>>
    BY <1>1 DEF ReplaceFlushed, ReplaceFile
  <2>2. /\ replacing.stage \in {"flushing", "working"}
        /\ replacing'.stage \in {"working", "given up"} /\ replacing'.what = replacing.what
    BY <1>0, <1>1 DEF ReplaceFlushed, ReplaceFile, Goto, Replacings
  <2>3. ~Replaced /\ ~Replaced' /\ replacing'.what # "nothing"
    BY <1>0, <2>2 DEF Replaced, Written
  <2>4. Waits' /\ Fresh'
    BY <1>0, <2>1, <2>3 DEF Waits, Fresh, Awaited, SomeoneWaits, renderer
  <2>5. Written'
    BY <1>0, <2>1, <2>3 DEF Written, renderer
  <2>6. Clean'
    BY <1>0, <2>1, <2>3 DEF Clean, Awaited, AllSaved, OnDisk, renderer
  <2>7. QED
    BY <2>4, <2>5, <2>6
<1>2. CASE ReplaceFile /\ Goto("replaced") /\ disk' \in {Imported, Defaults}
  <2>1. UNCHANGED renderer /\ UNCHANGED <<save, newer>>
    BY <1>2 DEF ReplaceFile
  <2>2. replacing.stage = "working" /\ replacing'.stage = "replaced"
        /\ replacing'.what = replacing.what
    BY <1>0, <1>2 DEF ReplaceFile, Goto, Replacings
  <2>3. Replaced' /\ replacing'.what # "nothing"
    BY <1>0, <2>2 DEF Replaced, Written
  <2>4. NormalForm(disk') = disk'
    BY <1>2, SettingsAssumption
  <2>5. Waits' /\ Fresh'
    BY <1>0, <2>1, <2>3 DEF Waits, Fresh, SomeoneWaits, renderer
  <2>6. Written' /\ Clean'
    BY <1>0, <2>1, <2>3, <2>4 DEF Written, Clean, renderer
  <2>7. QED
    BY <2>5, <2>6
<1>3. CASE ImportAnnounced
  <2>1. revision' = revision + 1 /\ UNCHANGED <<debounce, requests, errorCode, save, disk, newer>>
    BY <1>3 DEF ImportAnnounced
  <2>2. replacing'.stage = "over" /\ replacing'.what = "import"
    BY <1>0, <1>3 DEF ImportAnnounced, Stage, Goto, Replacings
  <2>3. Replaced'
    BY <2>2 DEF Replaced
  <2>4. Waits'
    BY <1>0, <2>1 DEF Waits, SomeoneWaits
  <2>5. Fresh'
    BY <1>0, <2>1, <2>3 DEF Fresh
  <2>6. Written' /\ Clean'
    BY <1>0, <2>1, <2>2, <2>3 DEF Written, Clean
  <2>7. QED
    BY <2>4, <2>5, <2>6
<1>4. CASE Restart
  <2>1. /\ save' = NoSave /\ settings' = disk /\ errorCode' = "none"
        /\ UNCHANGED <<disk, newer>> /\ \A c \in Calls : requests'[c].state # "waiting"
    BY <1>4 DEF Restart, Unmade
  <2>2. replacing'.what = "reset"
    BY <1>0, <1>4 DEF Restart, Stage, Goto, Replacings
  <2>3. Waits' /\ Fresh'
    BY <2>1 DEF Waits, Fresh, SomeoneWaits, NoSave
  <2>4. Written'
    BY <1>0, <2>1, <2>2 DEF Written, NoSave
  <2>5. Clean'
    BY <1>0, <2>1 DEF Written, Clean, OnDisk
  <2>6. QED
    BY <2>3, <2>4, <2>5
<1>5. QED
  BY <1>1, <1>2, <1>3, <1>4 DEF Replace, ReplaceFile

\* The invariant holds at the start,
LEMMA InitInv == Init => IInv
<1> SUFFICES ASSUME Init PROVE IInv
  OBVIOUS
<1> USE DEF Init, NoSave, Unmade
<1>1. RendererTypes
  BY SettingsAssumption DEF RendererTypes, Requests
<1>2. BackendTypes
  BY SettingsAssumption, SaveTyped DEF BackendTypes, Replacings, Stages
<1>3. Revisions /\ Waits /\ Fresh
  BY DEF Revisions, Waits, Fresh, SomeoneWaits
<1>4. Written /\ Clean
  BY SettingsAssumption DEF Written, Clean, OnDisk
<1>5. QED
  BY <1>1, <1>2, <1>3, <1>4 DEF IInv, TypeOK

\* and every step keeps it.
LEMMA StepInv ==
  ASSUME IInv, [Next]_vars
  PROVE  IInv'
<1>0. TypeOK /\ Waits /\ Fresh /\ Written /\ Clean /\ TypeOK'
  BY TypeStep DEF IInv
<1>1. /\ settings' \in Settings /\ revision' \in Nat
      /\ replacing \in Replacings /\ settings \in Settings
  BY <1>0 DEF TypeOK, RendererTypes, BackendTypes
<1>2. ASSUME NEW c \in Calls, NEW k \in Keys, NEW v \in Values, NEW immediate \in BOOLEAN,
             Edit(c, k, v, immediate)
      PROVE  IInv'
  <2>1. /\ Persist(c, immediate) /\ revision' = revision + 1
        /\ UNCHANGED <<disk, newer, replacing>>
    BY <1>2 DEF Edit
  <2>2. Replaced' <=> Replaced
    BY <2>1 DEF Replaced
  <2>3. replacing'.what = "nothing" => replacing'.stage = "none"
    BY <1>0, <2>1 DEF Written
  <2>4. QED
    BY <1>0, <1>1, <2>1, <2>2, <2>3, PersistKeeps DEF IInv
<1>3. ASSUME NEW c \in Calls, Flush(c) PROVE IInv'
  <2>1. UNCHANGED <<settings, revision, disk, newer, replacing>>
    BY <1>3 DEF Flush
  <2>2. PICK immediate \in BOOLEAN : Persist(c, immediate)
    BY <1>3 DEF Flush
  <2>3. Replaced' <=> Replaced
    BY <2>1 DEF Replaced
  <2>4. replacing'.what = "nothing" => replacing'.stage = "none"
    BY <1>0, <2>1 DEF Written
  <2>5. QED
    BY <1>0, <1>1, <2>1, <2>2, <2>3, <2>4, PersistKeeps DEF IInv
<1>4. ASSUME NEW c \in Calls, NEW what \in Replacements, ReplaceAsked(c, what) PROVE IInv'
  <2>1. UNCHANGED <<settings, revision, disk, newer>>
    BY <1>4 DEF ReplaceAsked
  <2>2. PICK immediate \in BOOLEAN : Persist(c, immediate)
    BY <1>4 DEF ReplaceAsked
  <2>3. /\ replacing.what = "nothing"
        /\ replacing' = [what |-> what, stage |-> "flushing", call |-> {c}]
    BY <1>4 DEF ReplaceAsked
  <2>4. Replaced' <=> Replaced
    BY <1>0, <2>3 DEF Replaced, Written
  <2>5. replacing'.what # "nothing"
    BY <2>3, SettingsAssumption
  <2>6. QED
    BY <1>0, <1>1, <2>1, <2>2, <2>4, <2>5, PersistKeeps DEF IInv
<1>5. CASE DebounceEnds
  <2>1. /\ debounce' = FALSE /\ UNCHANGED <<settings, revision, requests, errorCode>>
        /\ UNCHANGED <<disk, newer, replacing>>
        /\ \/ save' = Sent(settings, revision) /\ save.phase = "none" /\ SomeoneWaits(requests)
           \/ save' = save /\ (save.phase # "none" \/ ~SomeoneWaits(requests))
    BY <1>5 DEF DebounceEnds
  <2>2. CASE save' = Sent(settings, revision) /\ SomeoneWaits(requests)
    <3>1. save'.phase = "sent" /\ save'.revision = revision /\ save'.snapshot = settings
      BY <2>2, SentFields
    <3>2. Waits'
      BY <2>1, <2>2, <3>1 DEF Waits, SomeoneWaits
    <3>3. Fresh' /\ Clean'
      BY <2>1, <3>1 DEF Fresh, Clean
    <3>4. Written'
      BY <1>0, <2>1, <3>1 DEF Written
    <3>5. QED
      BY <1>0, <3>2, <3>3, <3>4 DEF IInv
  <2>3. CASE save' = save /\ (save.phase # "none" \/ ~SomeoneWaits(requests))
    <3>1. Waits'
      BY <1>0, <2>1, <2>3 DEF Waits, SomeoneWaits
    <3>2. Fresh' /\ Written' /\ Clean'
      BY <1>0, <2>1, <2>3 DEF Fresh, Written, Clean, Awaited, Replaced, AllSaved, OnDisk
    <3>3. QED
      BY <1>0, <3>1, <3>2 DEF IInv
  <2>4. QED
    BY <2>1, <2>2, <2>3
<1>6. CASE Backend
  <2>1. /\ UNCHANGED renderer /\ UNCHANGED replacing
        /\ save.phase # "none" /\ save'.phase # "none"
        /\ save'.revision = save.revision /\ save'.snapshot = save.snapshot
    BY <1>0, <1>6 DEF Backend, Validate, WritePatch, ReadStored, TypeOK, BackendTypes, Saves
  <2>2. Written'
    BY <1>0, <1>6, BackendWritten
  <2>3. Waits' /\ Fresh' /\ Clean'
    BY <1>0, <2>1 DEF Waits, Fresh, Clean, Awaited, Replaced, SomeoneWaits, renderer
  <2>4. QED
    BY <1>0, <2>2, <2>3 DEF IInv
<1>7. CASE Reply
  BY <1>7, ReplyStep
<1>8. CASE Replace
  BY <1>0, <1>8, ReplaceStep DEF IInv
<1>9. CASE UNCHANGED vars
  BY <1>0, <1>9 DEF IInv, Waits, Fresh, Written, Clean, Awaited, Replaced, AllSaved, OnDisk,
                    SomeoneWaits, vars, renderer
<1>10. QED
  BY <1>2, <1>3, <1>4, <1>5, <1>6, <1>7, <1>8, <1>9 DEF Next, UserStep

\* IInv holds in every reachable state.
LEMMA Invariant == Spec => []IInv
BY InitInv, StepInv, PTL DEF Spec

-----------------------------------------------------------------------------
(* Theorems                                                                *)

\* No edit and no caller of persistSettings is forgotten by the renderer, and every
\* variable keeps its type.
THEOREM NothingForgotten == Spec => []StoreInv
<1>1. IInv => StoreInv
  <2> SUFFICES ASSUME IInv PROVE StoreInv
    OBVIOUS
  <2>1. Quiet => ~SomeoneWaits(requests)
    BY DEF IInv, Waits, Quiet
  <2>2. Quiet => ~Awaited
    BY <2>1 DEF SomeoneWaits, Awaited
  <2>3. QED
    BY <2>1, <2>2 DEF IInv, Clean, Quiet, StoreInv, QuietMeansSaved
<1>2. QED
  BY <1>1, Invariant, PTL

\* Who is told "saved" after an immediate save finds the newest edits in the file.
THEOREM SavedOnDisk == Spec => SavedMeansOnDisk
<1>1. ASSUME IInv, [Next]_vars, NEW c \in Calls,
             requests[c].state = "waiting", requests'[c].state = "true",
             requests[c].immediate, ~newer, ~Replaced
      PROVE  OnDisk(settings)'
  <2>0. TypeOK /\ Fresh /\ Written
    BY <1>1 DEF IInv
  <2>1. requests \in [Calls -> Requests] /\ RendererTypes /\ Revisions /\ save.revision \in Nat
    BY <2>0, Fields DEF TypeOK, RendererTypes, BackendTypes
  <2>2. Reply
    <3>1. ASSUME NEW d \in Calls, NEW immediate, Persist(d, immediate) PROVE FALSE
      <4>1. requests' = [requests EXCEPT ![d] = Waiting(revision', immediate)]
        BY <3>1 DEF Persist
      <4>2. QED
        BY <1>1, <2>1, <4>1 DEF Waiting
    <3>2. requests' # requests
      BY <1>1
    <3>3. ~Restart
      BY <1>1 DEF Restart, Unmade
    <3>4. QED
      BY <1>1, <3>1, <3>2, <3>3
      DEF Next, UserStep, Edit, Flush, ReplaceAsked, DebounceEnds, Backend, Validate, WritePatch,
          ReadStored, Replace, ReplaceFlushed, ReplaceFile, ImportAnnounced, renderer, vars
  <2>3. PICK saved \in BOOLEAN : Finish(saved) /\ (saved => SavedReply \/ RefusedReply)
    BY <2>2 DEF Reply, SavedReply, ErrorReply, RefusedReply, CallThrows
  <2>4. errorCode' # "newer"
    BY <1>1, <2>0, <2>2 DEF Reply, SavedReply, ErrorReply, RefusedReply, CallThrows, Written
  <2>5. Served(c) /\ saved
    BY <1>1, <2>1, <2>3, <2>4, FinishEffect
  <2>6. save.revision = revision
    BY <1>1, <2>1, <2>5 DEF Served, Outlived, Revisions, RendererTypes
  <2>7. QED
    BY <1>1, <2>0, <2>3, <2>5, <2>6, SettledOnDisk
<1>2. IInv /\ [Next]_vars =>
        [\A c \in Calls :
           /\ requests[c].state = "waiting" /\ requests'[c].state = "true"
           /\ requests[c].immediate
           /\ ~newer /\ ~Replaced
           => OnDisk(settings)']_vars
  BY <1>1
<1>3. QED
  BY <1>2, Invariant, PTL DEF Spec, SavedMeansOnDisk

\* The late answer of a save takes no edit back.
THEOREM EditsSpared == Spec => RepliesSpareEdits
<1>1. ASSUME IInv, Reply, NEW k \in Keys, settings'[k] # settings[k]
      PROVE  settings[k] = save.snapshot[k]
  <2>1. CASE SavedReply
    BY <1>1, <2>1 DEF SavedReply, StillNewest, IInv, Fresh
  <2>2. CASE RefusedReply
    BY <1>1, <2>2 DEF RefusedReply
  <2>3. CASE ErrorReply \/ CallThrows
    BY <1>1, <2>3 DEF ErrorReply, CallThrows
  <2>4. QED
    BY <1>1, <2>1, <2>2, <2>3 DEF Reply
<1>2. IInv /\ [Next]_vars =>
        [Reply => \A k \in Keys : settings'[k] # settings[k] => settings[k] = save.snapshot[k]]_vars
  BY <1>1
<1>3. QED
  BY <1>2, Invariant, PTL DEF Spec, RepliesSpareEdits
==============================================================================
