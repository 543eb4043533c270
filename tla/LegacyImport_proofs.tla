------------------------- MODULE LegacyImport_proofs --------------------------
(***************************************************************************)
(* What LegacyImport guarantees for any number of installations, files,    *)
(* faults and moves: no well-formed file is forgotten, and a profile that  *)
(* has settings is only completed, from the installation it came from.     *)
(*                                                                         *)
(* The invariant IInv says that every marker, on disk or in memory,        *)
(* accounts for all files of its installation (MarkerInv, AttemptInv), and *)
(* that settings of ROSI 4 are those of the installation the marker and    *)
(* the attempt name (OriginInv).                                           *)
(***************************************************************************)
EXTENDS LegacyImport, TLAPS

\* A file of an attempt that the copying has not come to yet.
Ahead(f) == \E i \in next..Len(DataFiles) : DataFiles[i] = f /\ f \in attempt.files

\* A marker that says more than "skipped" accounts for every well-formed file.
Recorded(m) ==
  IF m.outcome = "skipped" THEN m.retry = {}
  ELSE /\ m.source \in Sources
       /\ \A f \in Valid[m.source] :
            data[f] # NoFile \/ f \in m.retry \/ m.skipped[f] = "os error"

MarkerInv == marker # <<>> => Recorded(marker[1])

\* So does a marker in memory together with the files still to be copied.
AttemptInv ==
  /\ pc \in {"read settings", "intent", "copy"} => attempt.source \in Sources
  /\ pc \in {"read settings", "outcome"} => Recorded(work)
  /\ pc \in {"read settings", "intent"} =>
       /\ next = 1
       /\ \A f \in Valid[attempt.source] :
            data[f] # NoFile \/ f \in attempt.files \/ work.skipped[f] = "os error"
  /\ pc = "copy" =>
       /\ marker # <<>> /\ marker[1].source = attempt.source /\ work.outcome # "skipped"
       /\ \A f \in Valid[attempt.source] :
            data[f] # NoFile \/ f \in work.retry \/ work.skipped[f] = "os error" \/ Ahead(f)

\* Settings of ROSI 4 are those of the installation that the marker names, and an
\* attempt that finds settings is a retry for that installation.
OriginInv ==
  /\ settings \in Sources => marker # <<>> /\ marker[1].source = settings
  /\ settings \in Sources /\ pc \in {"intent", "copy", "outcome"} => work.source = settings
  /\ pc = "read settings" => settings = NoFile
  /\ pc \in {"read settings", "intent", "copy"} =>
       /\ attempt.settingsExist <=> settings # NoFile
       /\ settings # NoFile => attempt.resumes

IInv == TypeOK /\ MarkerInv /\ AttemptInv /\ OriginInv

-----------------------------------------------------------------------------
(* Types                                                                   *)

\* What the constants are.
LEMMA Known ==
  /\ Own # NoFile /\ Own \notin Sources /\ NoFile \notin Sources
  /\ \A s \in Sources : Existing[s] \subseteq Files /\ Valid[s] \subseteq Existing[s]
  /\ Len(DataFiles) \in Nat /\ MaxFaults \in Nat /\ MaxMoves \in Nat
  /\ \A i \in 1..Len(DataFiles) : DataFiles[i] \in Files
BY LegacyAssumption

\* The parts of a marker, and of an attempt.
LEMMA MarkerFields ==
  ASSUME NEW m \in Markers
  PROVE  /\ m.outcome \in {"skipped", "partial", "failed", "imported"}
         /\ m.source \in Sources \cup {NoFile}
         /\ m.retry \subseteq Files
         /\ m.skipped \in [Files -> Reasons]
BY DEF Markers

\* An attempt from its parts.
LEMMA AttemptIn ==
  ASSUME NEW s \in Sources, NEW r \in BOOLEAN, NEW e \in BOOLEAN, NEW F \in SUBSET Files
  PROVE  [source |-> s, resumes |-> r, settingsExist |-> e, files |-> F] \in Attempts
BY DEF Attempts

\* A changed marker is a marker.
LEMMA MarkerChanges ==
  ASSUME NEW m \in Markers
  PROVE  /\ \A o \in {"skipped", "partial", "failed", "imported"} :
              /\ [m EXCEPT !.outcome = o] \in Markers
              /\ \A R \in SUBSET Files : [m EXCEPT !.outcome = o, !.retry = R] \in Markers
         /\ \A R \in SUBSET Files : [m EXCEPT !.retry = R] \in Markers
         /\ \A S \in [Files -> Reasons] : [m EXCEPT !.skipped = S] \in Markers
         /\ \A f \in Files, r \in Reasons, R \in SUBSET Files :
              [m EXCEPT !.skipped[f] = r, !.retry = @ \cup R] \in Markers
BY DEF Markers

\* The marker on disk is a marker.
LEMMA StoredMarker ==
  ASSUME TypeOK, marker # <<>>
  PROVE  marker[1] \in Markers
<1>1. marker \in Seq(Markers)
  BY DEF TypeOK
<1>2. \A S : \A q \in Seq(S) : q # <<>> => q[1] \in S
  OBVIOUS
<1>3. QED
  BY <1>1, <1>2

\* One marker is a file that holds one.
LEMMA OneMarker ==
  ASSUME NEW m \in Markers
  PROVE  /\ <<m>> \in Seq(Markers) /\ Len(<<m>>) <= 1
         /\ <<m>> # <<>> /\ <<m>>[1] = m
OBVIOUS

\* Spending keeps what is left within its bounds.
LEMMA SpendType ==
  ASSUME TypeOK, NEW what \in {"faults", "moves"}, Spend(what)
  PROVE  left' \in [faults : 0..MaxFaults, moves : 0..MaxMoves]
<1>1. left \in [faults : 0..MaxFaults, moves : 0..MaxMoves]
  BY DEF TypeOK
<1>2. left[what] > 0 /\ left' = [left EXCEPT ![what] = left[what] - 1]
  BY DEF Spend
<1>3. CASE what = "faults"
  BY ONLY <1>1, <1>2, <1>3, Known
<1>4. CASE what = "moves"
  BY ONLY <1>1, <1>2, <1>4, Known
<1>5. QED
  BY <1>3, <1>4

\* A recovered marker differs in what is to be tried again only.
LEMMA RecoveredIs ==
  ASSUME NEW m \in Markers, NEW s \in Sources
  PROVE  /\ Recovered(m, s) \in Markers
         /\ Recovered(m, s).outcome = m.outcome /\ Recovered(m, s).source = m.source
         /\ Recovered(m, s).skipped = m.skipped
         /\ m.retry \subseteq Recovered(m, s).retry
<1>1. CASE Recovered(m, s) = m
  BY <1>1
<1>2. CASE ~(Recovered(m, s) = m)
  <2> DEFINE R == {f \in Files : data[f] = NoFile /\ m.skipped[f] = "os error" /\ f \in Valid[s]}
  <2>1. Recovered(m, s) = [m EXCEPT !.retry = R] /\ m.retry = {}
    BY <1>2 DEF Recovered
  <2>2. R \in SUBSET Files
    OBVIOUS
  <2>3. [m EXCEPT !.retry = R] \in Markers
    BY <2>2, MarkerChanges
  <2>4. /\ [m EXCEPT !.retry = R].outcome = m.outcome /\ [m EXCEPT !.retry = R].source = m.source
        /\ [m EXCEPT !.retry = R].skipped = m.skipped
    BY DEF Markers
  <2>5. QED
    BY <2>1, <2>3, <2>4
<1>3. QED
  BY <1>1, <1>2

\* Only installations that exist are found.
LEMMA FoundIn ==
  ASSUME TypeOK
  PROVE  Found \subseteq Sources
BY DEF TypeOK, Found

\* Starting and stopping leave well-typed local variables.
LEMMA IdleTypes ==
  /\ \A s \in Sources \cup {NoFile} : Fresh(s) \in Markers /\ Fresh(s).source = s
                                     /\ Fresh(s).outcome = "skipped" /\ Fresh(s).retry = {}
  /\ Idle \in Attempts /\ Idle.source = NoFile
  /\ 1 \in 1..(Len(DataFiles) + 1)
BY Known DEF Fresh, Idle, Markers, Attempts, Reasons

-----------------------------------------------------------------------------
(* What the steps do                                                       *)

\* A launch does nothing, begins afresh for want of settings, or resumes what the
\* marker asks for.
LEMMA LaunchIs ==
  ASSUME TypeOK, Launch
  PROVE  /\ UNCHANGED <<installed, readable, data, settings, marker>>
         /\ left' \in [faults : 0..MaxFaults, moves : 0..MaxMoves]
         /\ \/ pc' = "running" /\ UNCHANGED local
            \/ \E s \in Sources : settings = NoFile /\ Afresh(s) /\ next' = 1
            \/ \E s \in Sources : /\ marker # <<>> /\ marker[1].source = s
                                  /\ Recovered(marker[1], s).retry # {}
                                  /\ Resume(Recovered(marker[1], s), s) /\ next' = 1
<1>1. UNCHANGED <<installed, readable, data, settings, marker>>
  BY DEF Launch
<1>2. PICK previous \in {marker, <<>>} :
        /\ IF previous = marker THEN UNCHANGED left ELSE Fault
        /\ \/ pc' = "running" /\ UNCHANGED local
           \/ /\ \E s \in Found : \/ settings = NoFile /\ ~Resumes(previous, s) /\ Afresh(s)
                                  \/ Resumes(previous, s) /\ Resume(Recovered(previous[1], s), s)
              /\ next' = 1
  BY DEF Launch
<1>3. left' \in [faults : 0..MaxFaults, moves : 0..MaxMoves]
  <2>1. CASE UNCHANGED left
    BY <2>1 DEF TypeOK
  <2>2. CASE Fault
    BY <2>2, SpendType DEF Fault
  <2>3. QED
    BY <1>2, <2>1, <2>2
<1>4. ASSUME NEW s \in Found, Resumes(previous, s)
      PROVE  /\ previous = marker /\ marker # <<>> /\ marker[1].source = s
             /\ Recovered(marker[1], s).retry # {}
  BY <1>2, <1>4 DEF Resumes
<1>5. QED
  BY <1>1, <1>2, <1>3, <1>4, FoundIn

\* What a launch that begins afresh sets.
LEMMA AfreshIs ==
  ASSUME NEW s \in Sources, Afresh(s)
  PROVE  /\ work' = Fresh(s) /\ work' \in Markers /\ work'.source = s
         /\ work'.outcome = "skipped" /\ work'.retry = {}
         /\ attempt' \in Attempts /\ attempt'.source = s /\ attempt'.files = Existing[s]
         /\ ~attempt'.settingsExist /\ pc' = "read settings"
<1>1. /\ attempt' = [source |-> s, resumes |-> FALSE, settingsExist |-> FALSE,
                     files |-> Existing[s]]
      /\ work' = Fresh(s) /\ pc' = "read settings"
  BY DEF Afresh
<1>2. attempt' \in Attempts
  BY <1>1, Known, AttemptIn
<1>3. QED
  BY <1>1, <1>2, IdleTypes

\* What a launch that resumes sets.
LEMMA ResumeIs ==
  ASSUME NEW m \in Markers, NEW s \in Sources, m.source = s, Resume(m, s)
  PROVE  /\ work' \in Markers /\ work'.source = s /\ work'.outcome = m.outcome
         /\ work'.retry = m.retry
         /\ \A f \in Files : f \notin m.retry => work'.skipped[f] = m.skipped[f]
         /\ attempt' \in Attempts /\ attempt'.source = s /\ attempt'.resumes
         /\ attempt'.files = Existing[s] \cap m.retry
         /\ attempt'.settingsExist <=> settings # NoFile
         /\ pc' = IF settings # NoFile THEN "intent" ELSE "read settings"
<1> DEFINE S == [f \in Files |-> IF f \in m.retry THEN "no" ELSE m.skipped[f]]
           A == [source |-> s, resumes |-> TRUE, settingsExist |-> settings # NoFile,
                 files |-> Existing[s] \cap m.retry]
<1>1. /\ work' = [m EXCEPT !.skipped = S] /\ attempt' = A
      /\ pc' = IF settings # NoFile THEN "intent" ELSE "read settings"
  BY DEF Resume
<1>2. S \in [Files -> Reasons]
  BY MarkerFields DEF Reasons
<1>3. work' \in Markers
  BY <1>1, <1>2, MarkerChanges
<1>4. /\ work'.source = s /\ work'.outcome = m.outcome /\ work'.retry = m.retry
      /\ work'.skipped = S
  BY <1>1 DEF Markers
<1>5. attempt' \in Attempts
  <2>1. (settings # NoFile) \in BOOLEAN /\ Existing[s] \cap m.retry \in SUBSET Files
    BY MarkerFields
  <2>2. QED
    BY <1>1, <2>1, AttemptIn
<1>6. /\ attempt'.source = s /\ attempt'.resumes /\ attempt'.files = Existing[s] \cap m.retry
      /\ attempt'.settingsExist <=> settings # NoFile
  BY <1>1, Zenon
<1>7. \A f \in Files : f \notin m.retry => work'.skipped[f] = m.skipped[f]
  BY <1>4
<1> HIDE DEF S, A
<1>8. QED
  BY <1>1, <1>3, <1>4, <1>5, <1>6, <1>7

\* The intent names all files of the attempt.
LEMMA IntentIs ==
  ASSUME TypeOK
  PROVE  /\ Intended \in Markers /\ Intended.source = work.source
         /\ Intended.outcome = "partial" /\ Intended.retry = attempt.files
         /\ Intended.skipped = work.skipped
<1>1. work \in Markers /\ attempt.files \in SUBSET Files
  BY DEF TypeOK, Attempts
<1>2. Intended \in Markers
  BY <1>1, MarkerChanges DEF Intended
<1>3. QED
  BY <1>1, <1>2 DEF Intended, Markers

\* What is written on disk and kept in memory before the copying.
LEMMA WriteIntentIs ==
  ASSUME TypeOK, WriteIntent
  PROVE  /\ pc = "intent" /\ UNCHANGED <<installed, readable, data, settings, attempt, next>>
         /\ work' \in Markers /\ work'.source = work.source /\ work'.skipped = work.skipped
         /\ left' \in [faults : 0..MaxFaults, moves : 0..MaxMoves]
         /\ \/ /\ pc' = "copy" /\ marker' = <<Intended>>
               /\ work'.outcome = "partial" /\ work'.retry = {}
            \/ /\ pc' = "outcome" /\ marker' = marker
               /\ work'.outcome = "failed" /\ work'.retry = attempt.files
<1>1. CASE marker' = <<Intended>> /\ work' = [Intended EXCEPT !.retry = {}] /\ pc' = "copy"
           /\ UNCHANGED left
  <2>1. work' \in Markers
    BY <1>1, IntentIs, MarkerChanges
  <2>2. /\ work'.source = work.source /\ work'.skipped = work.skipped
        /\ work'.outcome = "partial" /\ work'.retry = {}
    BY <1>1, IntentIs DEF Markers
  <2>3. QED
    BY <1>1, <2>1, <2>2 DEF WriteIntent, TypeOK
<1>2. CASE Fault /\ work' = [Intended EXCEPT !.outcome = "failed"] /\ pc' = "outcome"
           /\ UNCHANGED marker
  <2>1. work' \in Markers
    BY <1>2, IntentIs, MarkerChanges
  <2>2. /\ work'.source = work.source /\ work'.skipped = work.skipped
        /\ work'.outcome = "failed" /\ work'.retry = attempt.files
    BY <1>2, IntentIs DEF Markers
  <2>3. QED
    BY <1>2, <2>1, <2>2, SpendType DEF WriteIntent, Fault
<1>3. QED
  BY <1>1, <1>2 DEF WriteIntent

\* A file passed over changes the marker in memory only.
LEMMA SkipIs ==
  ASSUME TypeOK, NEW f \in Files, NEW r \in Reasons, NEW R \in SUBSET Files, Skip(f, r, R)
  PROVE  /\ data' = data
         /\ work' \in Markers /\ work'.source = work.source /\ work'.outcome = work.outcome
         /\ work'.retry = work.retry \cup R /\ work'.skipped[f] = r
         /\ \A g \in Files : g # f => work'.skipped[g] = work.skipped[g]
<1>1. work \in Markers
  BY DEF TypeOK
<1>2. data' = data /\ work' = [work EXCEPT !.skipped[f] = r, !.retry = @ \cup R]
  BY DEF Skip
<1>3. work' \in Markers
  BY <1>1, <1>2, MarkerChanges
<1>4. QED
  BY <1>1, <1>2, <1>3 DEF Markers

\* A step of the copying deals with one file: of a well-formed one there is a copy
\* afterwards, or a note in the marker. What is there is replaced by the first
\* attempt only.
Dealt(f) ==
  /\ left' \in [faults : 0..MaxFaults, moves : 0..MaxMoves]
  /\ work' \in Markers /\ work'.source = work.source /\ work'.outcome = work.outcome
  /\ work.retry \subseteq work'.retry
  /\ \A g \in Files : g # f => work'.skipped[g] = work.skipped[g] /\ data'[g] = data[g]
  /\ f \notin attempt.files => UNCHANGED <<work, data>>
  /\ f \in attempt.files /\ f \in Valid[attempt.source] =>
       data'[f] # NoFile \/ f \in work'.retry \/ work'.skipped[f] = "os error"
  /\ data' \in [Files -> Contents]
  /\ data[f] # NoFile => data'[f] # NoFile
  /\ data'[f] # data[f] => data'[f] = attempt.source /\ ~Preserves(f)

LEMMA CopyIs ==
  ASSUME TypeOK, Copy, attempt.source \in Sources,
         NEW f, f = DataFiles[next]
  PROVE  /\ pc = "copy" /\ next <= Len(DataFiles) /\ next' = next + 1 /\ f \in Files
         /\ UNCHANGED <<installed, readable, settings, marker, pc, attempt>>
         /\ Dealt(f)
<1>1. /\ pc = "copy" /\ next <= Len(DataFiles) /\ next' = next + 1
      /\ UNCHANGED <<installed, readable, settings, marker, pc, attempt>>
      /\ IF f \in attempt.files THEN CopyFile(f) ELSE UNCHANGED <<data, work, left>>
  BY DEF Copy
<1>2. /\ f \in Files /\ data \in [Files -> Contents] /\ work \in Markers
      /\ left \in [faults : 0..MaxFaults, moves : 0..MaxMoves]
      /\ attempt.source \in Contents /\ attempt.source # NoFile
  BY <1>1, Known DEF TypeOK, Contents
<1> SUFFICES Dealt(f)
  BY <1>1, <1>2
<1>3. CASE f \notin attempt.files
  BY <1>1, <1>2, <1>3 DEF Dealt
<1>4. CASE f \in attempt.files /\ data' = [data EXCEPT ![f] = attempt.source]
           /\ UNCHANGED <<work, left>> /\ ~Preserves(f)
  BY <1>1, <1>2, <1>4 DEF Dealt
<1>5. ASSUME f \in attempt.files,
             NEW r \in {"os error", "other"}, NEW R \in {{}, {f}}, Skip(f, r, R),
             UNCHANGED left \/ Fault,
             r = "other" => f \notin Valid[attempt.source] \/ Preserves(f)
      PROVE  Dealt(f)
  <2>1. r \in Reasons /\ R \in SUBSET Files
    BY <1>2 DEF Reasons
  <2>2. left' \in [faults : 0..MaxFaults, moves : 0..MaxMoves]
    BY <1>2, <1>5, SpendType DEF Fault
  <2>3. /\ data' = data
        /\ work' \in Markers /\ work'.source = work.source /\ work'.outcome = work.outcome
        /\ work'.retry = work.retry \cup R /\ work'.skipped[f] = r
        /\ \A g \in Files : g # f => work'.skipped[g] = work.skipped[g]
    BY <1>2, <1>5, <2>1, SkipIs
  <2>4. f \in Valid[attempt.source] =>
          data'[f] # NoFile \/ f \in work'.retry \/ work'.skipped[f] = "os error"
    BY <1>5, <2>3 DEF Preserves
  <2>5. QED
    BY <1>1, <1>2, <1>5, <2>2, <2>3, <2>4 DEF Dealt
<1>6. QED
  <2>1. CASE f \in attempt.files /\ CopyFile(f)
    BY <1>4, <1>5, <2>1 DEF CopyFile
  <2>2. QED
    BY <1>1, <1>3, <2>1

\* What the end of the copying does.
LEMMA CommitIs ==
  ASSUME TypeOK, CommitSettings
  PROVE  /\ pc = "copy" /\ pc' = "outcome" /\ next > Len(DataFiles)
         /\ UNCHANGED <<installed, readable, data, marker, attempt, next>>
         /\ left' \in [faults : 0..MaxFaults, moves : 0..MaxMoves]
         /\ work' \in Markers /\ work'.source = work.source /\ work'.retry = work.retry
         /\ work'.skipped = work.skipped /\ work'.outcome # "skipped"
         /\ settings' \in {settings, attempt.source}
         /\ attempt.settingsExist => settings' = settings
<1>1. PICK o \in {"partial", "failed", "imported"} : work' = [work EXCEPT !.outcome = o]
  BY DEF CommitSettings
<1>2. work' \in Markers
  BY <1>1, MarkerChanges DEF TypeOK
<1>3. /\ work'.source = work.source /\ work'.retry = work.retry
      /\ work'.skipped = work.skipped /\ work'.outcome = o
  BY <1>1 DEF TypeOK, Markers
<1>4. left' \in [faults : 0..MaxFaults, moves : 0..MaxMoves]
  BY SpendType DEF CommitSettings, TypeOK, Fault
<1>5. QED
  BY <1>2, <1>3, <1>4 DEF CommitSettings

\* Whoever stops forgets the attempt.
LEMMA LocalReset ==
  ASSUME work' = Fresh(NoFile), attempt' = Idle, next' = 1
  PROVE  /\ work' \in Markers /\ attempt' \in Attempts /\ attempt'.source = work'.source
         /\ next' \in 1..(Len(DataFiles) + 1)
BY IdleTypes

-----------------------------------------------------------------------------
(* The invariant                                                           *)

\* Every step keeps the types.
LEMMA TypeStep ==
  ASSUME IInv, [Next]_vars
  PROVE  TypeOK'
<1>0. TypeOK /\ AttemptInv
  BY DEF IInv
<1>1. ASSUME Launch PROVE TypeOK'
  <2>1. /\ UNCHANGED <<installed, readable, data, settings, marker>>
        /\ left' \in [faults : 0..MaxFaults, moves : 0..MaxMoves]
    BY <1>0, <1>1, LaunchIs
  <2>2. CASE pc' = "running" /\ UNCHANGED local
    BY <1>0, <2>1, <2>2 DEF TypeOK, local
  <2>3. ASSUME NEW s \in Sources, Afresh(s), next' = 1 PROVE TypeOK'
    BY <1>0, <2>1, <2>3, AfreshIs, IdleTypes DEF TypeOK
  <2>4. ASSUME NEW s \in Sources, marker # <<>>, marker[1].source = s,
               Resume(Recovered(marker[1], s), s), next' = 1
        PROVE  TypeOK'
    <3>1. Recovered(marker[1], s) \in Markers /\ Recovered(marker[1], s).source = s
      BY <1>0, <2>4, StoredMarker, RecoveredIs
    <3>2. /\ work' \in Markers /\ attempt' \in Attempts /\ attempt'.source = work'.source
          /\ pc' \in {"intent", "read settings"}
      BY <2>4, <3>1, ResumeIs
    <3>3. QED
      BY <1>0, <2>1, <2>4, <3>2, IdleTypes DEF TypeOK
  <2>5. QED
    BY <1>0, <1>1, <2>2, <2>3, <2>4, LaunchIs
<1>2. ASSUME ReadSettings PROVE TypeOK'
  BY <1>0, <1>2, SpendType DEF ReadSettings, Fault, TypeOK, local
<1>3. ASSUME WriteIntent PROVE TypeOK'
  <2>1. marker' \in Seq(Markers) /\ Len(marker') <= 1
    BY <1>0, <1>3, WriteIntentIs, IntentIs, OneMarker DEF TypeOK
  <2>2. QED
    BY <1>0, <1>3, <2>1, WriteIntentIs DEF TypeOK
<1>4. ASSUME Copy PROVE TypeOK'
  <2>1. pc = "copy" /\ attempt.source \in Sources
    BY <1>0, <1>4 DEF Copy, AttemptInv
  <2>2. /\ next' = next + 1 /\ next <= Len(DataFiles) /\ Dealt(DataFiles[next])
        /\ UNCHANGED <<installed, readable, settings, marker, pc, attempt>>
    BY <1>0, <1>4, <2>1, CopyIs
  <2>3. next' \in 1..(Len(DataFiles) + 1)
    <3>1. next \in 1..(Len(DataFiles) + 1)
      BY <1>0 DEF TypeOK
    <3>2. QED
      BY <2>2, <3>1, Known
  <2>4. QED
    BY <1>0, <2>2, <2>3 DEF TypeOK, Dealt
<1>5. ASSUME CommitSettings PROVE TypeOK'
  BY <1>0, <1>5, CommitIs DEF TypeOK, AttemptInv, Contents
<1>6. ASSUME WriteOutcome PROVE TypeOK'
  <2>1. marker' \in Seq(Markers) /\ Len(marker') <= 1
    BY <1>0, <1>6, OneMarker DEF TypeOK, WriteOutcome
  <2>2. left' \in [faults : 0..MaxFaults, moves : 0..MaxMoves]
    BY <1>0, <1>6, SpendType DEF TypeOK, WriteOutcome, Fault
  <2>3. QED
    BY <1>0, <1>6, <2>1, <2>2, LocalReset DEF TypeOK, WriteOutcome
<1>7. ASSUME NEW f \in Files, WriteOwnData(f) PROVE TypeOK'
  <2>1. data' \in [Files -> Contents]
    BY <1>0, <1>7 DEF TypeOK, WriteOwnData, Contents
  <2>2. QED
    BY <1>0, <1>7, <2>1 DEF TypeOK, WriteOwnData, local
<1>8. ASSUME WriteOwnSettings PROVE TypeOK'
  BY <1>0, <1>8 DEF TypeOK, WriteOwnSettings, local, Contents
<1>9. ASSUME Quit \/ Crash PROVE TypeOK'
  <2>1. left' \in [faults : 0..MaxFaults, moves : 0..MaxMoves]
    BY <1>0, <1>9, SpendType DEF TypeOK, Quit, Crash, Fault
  <2>2. QED
    BY <1>0, <1>9, <2>1, LocalReset DEF TypeOK, Quit, Crash, Stop
<1>10. ASSUME NEW s \in Sources, Move(s) PROVE TypeOK'
  BY <1>0, <1>10, SpendType DEF TypeOK, Move, local
<1>11. ASSUME UNCHANGED vars PROVE TypeOK'
  BY <1>0, <1>11 DEF TypeOK, vars, local
<1>12. QED
  BY <1>1, <1>2, <1>3, <1>4, <1>5, <1>6, <1>7, <1>8, <1>9, <1>10, <1>11 DEF Next, Import

\* A marker keeps accounting for the files as long as none is removed, and a marker
\* in which more is recorded accounts for them too.
LEMMA StillRecorded ==
  ASSUME NEW m, Recorded(m), \A f \in Files : data[f] # NoFile => data'[f] # NoFile
  PROVE  /\ m.outcome # "skipped" => m.source \in Sources
         /\ m.outcome # "skipped" =>
              \A f \in Valid[m.source] :
                data'[f] # NoFile \/ f \in m.retry \/ m.skipped[f] = "os error"
BY Known DEF Recorded

\* No file is ever removed.
LEMMA NothingRemoved ==
  ASSUME IInv, [Next]_vars
  PROVE  \A f \in Files : data[f] # NoFile => data'[f] # NoFile
<1>0. TypeOK /\ AttemptInv
  BY DEF IInv
<1>1. CASE data' = data
  BY <1>1
<1>2. CASE Copy
  <2>1. pc = "copy" /\ attempt.source \in Sources
    BY <1>0, <1>2 DEF Copy, AttemptInv
  <2>2. Dealt(DataFiles[next])
    BY <1>0, <1>2, <2>1, CopyIs
  <2>3. QED
    BY <2>2 DEF Dealt
<1>3. ASSUME NEW f \in Files, WriteOwnData(f)
      PROVE  \A g \in Files : data[g] # NoFile => data'[g] # NoFile
  BY <1>0, <1>3, Known DEF WriteOwnData, TypeOK
<1>4. ASSUME Launch PROVE data' = data
  BY <1>4 DEF Launch
<1>5. ASSUME ReadSettings \/ WriteIntent \/ CommitSettings \/ WriteOutcome PROVE data' = data
  BY <1>5 DEF ReadSettings, WriteIntent, CommitSettings, WriteOutcome
<1>6. ASSUME WriteOwnSettings \/ Quit \/ Crash \/ (\E s \in Sources : Move(s)) PROVE data' = data
  BY <1>6 DEF WriteOwnSettings, Quit, Crash, Stop, Move
<1>7. ASSUME UNCHANGED vars PROVE data' = data
  BY <1>7 DEF vars
<1>8. QED
  BY <1>1, <1>2, <1>3, <1>4, <1>5, <1>6, <1>7 DEF Next, Import

\* Every step keeps MarkerInv.
LEMMA MarkerStep ==
  ASSUME IInv, [Next]_vars
  PROVE  MarkerInv'
<1>0. TypeOK /\ MarkerInv /\ AttemptInv
  BY DEF IInv
<1>1. CASE marker' = marker
  <2>1. ASSUME marker # <<>>, marker[1].outcome = "skipped" PROVE marker[1].retry = {}
    BY <1>0, <2>1 DEF MarkerInv, Recorded
  <2>2. ASSUME marker # <<>>, marker[1].outcome # "skipped"
        PROVE  /\ marker[1].source \in Sources
               /\ \A f \in Valid[marker[1].source] :
                    \/ data'[f] # NoFile
                    \/ f \in marker[1].retry \/ marker[1].skipped[f] = "os error"
    BY <1>0, <2>2, NothingRemoved, StillRecorded DEF MarkerInv
  <2>3. QED
    BY <1>1, <2>1, <2>2 DEF MarkerInv, Recorded
<1>2. CASE WriteIntent
  <2>1. CASE marker' = <<Intended>>
    <3>1. pc = "intent" /\ data' = data
      BY <1>0, <1>2, WriteIntentIs
    <3>2. /\ marker'[1].outcome = "partial" /\ marker'[1].source = attempt.source
          /\ marker'[1].retry = attempt.files /\ marker'[1].skipped = work.skipped
      BY <1>0, <2>1, IntentIs DEF TypeOK
    <3>3. /\ attempt.source \in Sources
          /\ \A f \in Valid[attempt.source] :
               data[f] # NoFile \/ f \in attempt.files \/ work.skipped[f] = "os error"
      BY <1>0, <3>1 DEF AttemptInv
    <3>4. QED
      BY <3>1, <3>2, <3>3 DEF MarkerInv, Recorded
  <2>2. QED
    BY <1>0, <1>1, <1>2, <2>1, WriteIntentIs
<1>3. CASE WriteOutcome
  <2>1. CASE marker' = <<work>>
    <3>1. pc = "outcome" /\ data' = data /\ marker'[1] = work
      BY <1>3, <2>1 DEF WriteOutcome
    <3>2. Recorded(work)
      BY <1>0, <3>1 DEF AttemptInv
    <3>3. QED
      BY <3>1, <3>2 DEF MarkerInv, Recorded
  <2>2. QED
    BY <1>1, <1>3, <2>1 DEF WriteOutcome
<1>4. ASSUME Launch \/ ReadSettings \/ Copy \/ CommitSettings PROVE marker' = marker
  BY <1>4 DEF Launch, ReadSettings, Copy, CommitSettings
<1>5. ASSUME (\E f \in Files : WriteOwnData(f)) \/ WriteOwnSettings PROVE marker' = marker
  BY <1>5 DEF WriteOwnData, WriteOwnSettings
<1>6. ASSUME Quit \/ Crash \/ (\E s \in Sources : Move(s)) PROVE marker' = marker
  BY <1>6 DEF Quit, Crash, Stop, Move
<1>7. ASSUME UNCHANGED vars PROVE marker' = marker
  BY <1>7 DEF vars
<1>8. QED
  BY <1>1, <1>2, <1>3, <1>4, <1>5, <1>6, <1>7 DEF Next, Import

\* A resumed marker is recorded, and its files to retry are those of the attempt.
LEMMA ResumedRecorded ==
  ASSUME IInv, NEW s \in Sources, marker # <<>>, marker[1].source = s,
         Recovered(marker[1], s).retry # {}, Resume(Recovered(marker[1], s), s)
  PROVE  /\ work'.outcome # "skipped" /\ work'.source = s
         /\ \A f \in Valid[s] :
              data[f] # NoFile \/ f \in work'.retry \/ work'.skipped[f] = "os error"
         /\ \A f \in Valid[s] :
              data[f] # NoFile \/ f \in attempt'.files \/ work'.skipped[f] = "os error"
<1> DEFINE m == marker[1]
           r == Recovered(m, s)
<1>0. TypeOK /\ MarkerInv
  BY DEF IInv
<1>1. m \in Markers /\ r \in Markers
  BY <1>0, StoredMarker, RecoveredIs
<1>2. /\ r.outcome = m.outcome /\ r.source = m.source /\ r.skipped = m.skipped
      /\ m.retry \subseteq r.retry
  BY <1>0, StoredMarker, RecoveredIs
<1>3. m.outcome # "skipped"
  <2>1. SUFFICES ASSUME m.outcome = "skipped" PROVE FALSE
    OBVIOUS
  <2>2. m.retry = {} /\ r = m
    BY <1>0, <2>1 DEF MarkerInv, Recorded, Recovered
  <2>3. QED
    BY <2>2
<1>4. \A f \in Valid[s] : data[f] # NoFile \/ f \in r.retry \/ r.skipped[f] = "os error"
  BY <1>0, <1>2, <1>3 DEF MarkerInv, Recorded
<1>5. /\ work'.outcome = r.outcome /\ work'.source = s /\ work'.retry = r.retry
      /\ \A f \in Files : f \notin r.retry => work'.skipped[f] = r.skipped[f]
      /\ attempt'.files = Existing[s] \cap r.retry
  <2>1. r.source = s
    BY <1>2
  <2>2. Resume(r, s)
    OBVIOUS
  <2> HIDE DEF r
  <2>3. QED
    BY <1>1, <2>1, <2>2, ResumeIs
<1>6. QED
  BY <1>2, <1>3, <1>4, <1>5, Known

\* Every step keeps AttemptInv.
LEMMA AttemptStep ==
  ASSUME IInv, [Next]_vars
  PROVE  AttemptInv'
<1>0. TypeOK /\ MarkerInv /\ AttemptInv
  BY DEF IInv
<1>1. ASSUME Launch PROVE AttemptInv'
  <2>1. data' = data /\ marker' = marker
    BY <1>0, <1>1, LaunchIs
  <2>2. CASE pc' = "running"
    BY <2>2 DEF AttemptInv
  <2>3. ASSUME NEW s \in Sources, Afresh(s), next' = 1 PROVE AttemptInv'
    <3>1. /\ work'.outcome = "skipped" /\ work'.retry = {}
          /\ attempt'.source = s /\ attempt'.files = Existing[s] /\ pc' = "read settings"
      BY <2>3, AfreshIs
    <3>2. QED
      BY <2>3, <3>1, Known DEF AttemptInv, Recorded
  <2>4. ASSUME NEW s \in Sources, marker # <<>>, marker[1].source = s,
               Recovered(marker[1], s).retry # {}, Resume(Recovered(marker[1], s), s),
               next' = 1
        PROVE  AttemptInv'
    <3>1. attempt'.source = s /\ pc' \in {"intent", "read settings"}
      BY <2>4, <1>0, StoredMarker, RecoveredIs, ResumeIs
    <3>2. QED
      BY <2>1, <2>4, <3>1, ResumedRecorded DEF AttemptInv, Recorded
  <2>5. QED
    BY <1>0, <1>1, <2>2, <2>3, <2>4, LaunchIs
<1>2. ASSUME ReadSettings PROVE AttemptInv'
  <2>1. /\ pc = "read settings" /\ pc' \in {"intent", "outcome"}
        /\ UNCHANGED <<data, work, attempt, next>>
    BY <1>2 DEF ReadSettings, local
  <2>2. QED
    BY <1>0, <2>1 DEF AttemptInv, Recorded
<1>3. ASSUME WriteIntent PROVE AttemptInv'
  <2>1. /\ pc = "intent" /\ UNCHANGED <<data, attempt, next>>
        /\ work'.source = work.source /\ work'.skipped = work.skipped
        /\ attempt.source = work.source
    BY <1>0, <1>3, WriteIntentIs DEF TypeOK
  <2>2. /\ attempt.source \in Sources
        /\ \A f \in Valid[attempt.source] :
             data[f] # NoFile \/ f \in attempt.files \/ work.skipped[f] = "os error"
    BY <1>0, <2>1 DEF AttemptInv
  <2>3. CASE pc' = "copy" /\ marker' = <<Intended>> /\ work'.outcome = "partial"
    <3>1. marker' # <<>> /\ marker'[1].source = attempt.source
      BY <1>0, <2>1, <2>3, IntentIs
    <3>2. ASSUME NEW f \in Valid[attempt.source], f \in attempt.files PROVE Ahead(f)'
      <4>1. next = 1
        BY <1>0, <2>1 DEF AttemptInv
      <4>2. QED
        <5>1. PICK i \in 1..Len(DataFiles) : f = DataFiles[i]
          <6>1. f \in Files /\ DataFiles \in Seq(Files)
            BY <2>2, Known, LegacyAssumption
          <6>2. f \in {DataFiles[i] : i \in DOMAIN DataFiles}
            BY <6>1 DEF Files, Range
          <6>3. QED
            BY <6>1, <6>2
        <5>2. QED
          BY <2>1, <3>2, <4>1, <5>1 DEF Ahead
    <3>3. QED
      BY <2>1, <2>2, <2>3, <3>1, <3>2 DEF AttemptInv
  <2>4. CASE pc' = "outcome" /\ work'.outcome = "failed" /\ work'.retry = attempt.files
    BY <2>1, <2>2, <2>4 DEF AttemptInv, Recorded
  <2>5. QED
    BY <1>0, <1>3, <2>3, <2>4, WriteIntentIs
<1>4. ASSUME Copy PROVE AttemptInv'
  <2> DEFINE f == DataFiles[next]
  <2>1. pc = "copy" /\ attempt.source \in Sources
    BY <1>0, <1>4 DEF Copy, AttemptInv
  <2>2. /\ next' = next + 1 /\ next <= Len(DataFiles) /\ Dealt(f)
        /\ UNCHANGED <<marker, pc, attempt>>
    BY <1>0, <1>4, <2>1, CopyIs
  <2>3. ASSUME NEW g \in Files, Ahead(g), g # f PROVE Ahead(g)'
    <3>1. PICK i \in next..Len(DataFiles) : DataFiles[i] = g /\ g \in attempt.files
      BY <2>3 DEF Ahead
    <3>2. i # next
      BY <2>3, <3>1
    <3>3. i \in (next + 1)..Len(DataFiles)
      <4>1. next \in 1..(Len(DataFiles) + 1)
        BY <1>0 DEF TypeOK
      <4>2. QED
        BY <3>1, <3>2, <4>1, Known
    <3>4. QED
      BY <2>2, <3>1, <3>3 DEF Ahead
  <2>4. ASSUME NEW g \in Valid[attempt.source]
        PROVE  data'[g] # NoFile \/ g \in work'.retry \/ work'.skipped[g] = "os error" \/ Ahead(g)'
    <3>1. g \in Files
      BY <2>1, <2>4, Known
    <3>2. data[g] # NoFile \/ g \in work.retry \/ work.skipped[g] = "os error" \/ Ahead(g)
      BY <1>0, <2>1, <2>4 DEF AttemptInv
    <3>3. CASE g # f
      BY <2>2, <2>3, <3>1, <3>2, <3>3 DEF Dealt
    <3>4. CASE g = f /\ f \in attempt.files
      BY <2>2, <2>4, <3>4 DEF Dealt
    <3>5. CASE f \notin attempt.files
      <4>1. UNCHANGED <<work, data>>
        BY <2>2, <3>5 DEF Dealt
      <4>2. Ahead(g) => g # f
        BY <3>5 DEF Ahead
      <4>3. QED
        BY <2>3, <3>1, <3>2, <4>1, <4>2
    <3>6. QED
      BY <3>3, <3>4, <3>5
  <2>5. work'.outcome = work.outcome
    BY <2>2 DEF Dealt
  <2> HIDE DEF f
  <2>6. QED
    BY <1>0, <2>1, <2>2, <2>4, <2>5 DEF AttemptInv
<1>5. ASSUME CommitSettings PROVE AttemptInv'
  <2>1. /\ pc = "copy" /\ pc' = "outcome" /\ next > Len(DataFiles)
        /\ UNCHANGED <<data, attempt>>
        /\ work'.source = work.source /\ work'.retry = work.retry
        /\ work'.skipped = work.skipped /\ work'.outcome # "skipped"
    BY <1>0, <1>5, CommitIs
  <2>2. \A f : ~Ahead(f)
    BY <1>0, <2>1, Known DEF Ahead, TypeOK
  <2>3. QED
    BY <1>0, <2>1, <2>2 DEF AttemptInv, Recorded, TypeOK
<1>6. ASSUME WriteOutcome \/ Quit \/ Crash PROVE AttemptInv'
  <2>1. pc' \in {"running", "off"}
    BY <1>6 DEF WriteOutcome, Quit, Crash, Stop
  <2>2. QED
    BY <2>1 DEF AttemptInv
<1>7. ASSUME (\E f \in Files : WriteOwnData(f)) \/ WriteOwnSettings
      PROVE  AttemptInv'
  <2>1. pc' = "running"
    BY <1>7 DEF WriteOwnData, WriteOwnSettings
  <2>2. QED
    BY <2>1 DEF AttemptInv
<1>8. ASSUME NEW s \in Sources, Move(s) PROVE AttemptInv'
  <2>1. pc' = "off"
    BY <1>8 DEF Move
  <2>2. QED
    BY <2>1 DEF AttemptInv
<1>9. ASSUME UNCHANGED vars PROVE AttemptInv'
  BY <1>0, <1>9 DEF AttemptInv, Recorded, Ahead, vars, local
<1>10. QED
  BY <1>1, <1>2, <1>3, <1>4, <1>5, <1>6, <1>7, <1>8, <1>9 DEF Next, Import

\* Every step keeps OriginInv.
LEMMA OriginStep ==
  ASSUME IInv, [Next]_vars
  PROVE  OriginInv'
<1>0. TypeOK /\ OriginInv /\ AttemptInv
  BY DEF IInv
<1>1. ASSUME Launch PROVE OriginInv'
  <2>1. settings' = settings /\ marker' = marker
    BY <1>0, <1>1, LaunchIs
  <2>2. CASE pc' = "running"
    BY <1>0, <2>1, <2>2 DEF OriginInv
  <2>3. ASSUME NEW s \in Sources, settings = NoFile, Afresh(s) PROVE OriginInv'
    <3>1. pc' = "read settings" /\ ~attempt'.settingsExist
      BY <2>3, AfreshIs
    <3>2. QED
      BY <2>1, <2>3, <3>1, Known DEF OriginInv
  <2>4. ASSUME NEW s \in Sources, marker # <<>>, marker[1].source = s,
               Resume(Recovered(marker[1], s), s)
        PROVE  OriginInv'
    <3>1. Recovered(marker[1], s) \in Markers /\ Recovered(marker[1], s).source = s
      BY <1>0, <2>4, StoredMarker, RecoveredIs
    <3>2. /\ work'.source = s /\ attempt'.resumes
          /\ attempt'.settingsExist <=> settings # NoFile
          /\ pc' = IF settings # NoFile THEN "intent" ELSE "read settings"
      BY <2>4, <3>1, ResumeIs
    <3>3. QED
      BY <1>0, <2>1, <2>4, <3>2 DEF OriginInv
  <2>5. QED
    BY <1>0, <1>1, <2>2, <2>3, <2>4, LaunchIs
<1>2. ASSUME ReadSettings PROVE OriginInv'
  BY <1>0, <1>2, Known DEF ReadSettings, OriginInv, local
<1>3. ASSUME WriteIntent PROVE OriginInv'
  <2>1. /\ pc = "intent" /\ UNCHANGED <<settings, attempt>> /\ work'.source = work.source
        /\ pc' \in {"copy", "outcome"}
        /\ marker' # marker => marker' # <<>> /\ marker'[1].source = work.source
    BY <1>0, <1>3, WriteIntentIs, IntentIs
  <2>2. QED
    BY <1>0, <2>1 DEF OriginInv
<1>4. ASSUME Copy PROVE OriginInv'
  <2>1. pc = "copy" /\ attempt.source \in Sources
    BY <1>0, <1>4 DEF Copy, AttemptInv
  <2>2. UNCHANGED <<settings, marker, pc, attempt>> /\ Dealt(DataFiles[next])
    BY <1>0, <1>4, <2>1, CopyIs
  <2>3. work'.source = work.source
    BY <2>2 DEF Dealt
  <2>4. QED
    BY <1>0, <2>1, <2>2, <2>3 DEF OriginInv
<1>5. ASSUME CommitSettings PROVE OriginInv'
  <2>1. /\ pc = "copy" /\ pc' = "outcome" /\ UNCHANGED <<marker, attempt>>
        /\ work'.source = work.source /\ settings' \in {settings, attempt.source}
        /\ attempt.settingsExist => settings' = settings
    BY <1>0, <1>5, CommitIs
  <2>2. marker # <<>> /\ marker[1].source = attempt.source /\ work.source = attempt.source
    BY <1>0, <2>1 DEF AttemptInv, TypeOK
  <2>3. QED
    BY <1>0, <2>1, <2>2 DEF OriginInv
<1>6. ASSUME WriteOutcome PROVE OriginInv'
  <2>1. /\ pc = "outcome" /\ pc' = "running" /\ settings' = settings
        /\ marker' = marker \/ marker' = <<work>>
    BY <1>6 DEF WriteOutcome
  <2>2. QED
    BY <1>0, <2>1, OneMarker DEF OriginInv, TypeOK
<1>7. ASSUME Quit \/ Crash PROVE OriginInv'
  BY <1>0, <1>7 DEF Quit, Crash, Stop, OriginInv
<1>8. ASSUME NEW f \in Files, WriteOwnData(f) PROVE OriginInv'
  BY <1>0, <1>8 DEF WriteOwnData, OriginInv, local
<1>9. ASSUME WriteOwnSettings PROVE OriginInv'
  BY <1>0, <1>9, Known DEF WriteOwnSettings, OriginInv, local
<1>10. ASSUME NEW s \in Sources, Move(s) PROVE OriginInv'
  BY <1>0, <1>10 DEF Move, OriginInv, local
<1>11. ASSUME UNCHANGED vars PROVE OriginInv'
  BY <1>0, <1>11 DEF OriginInv, vars, local
<1>12. QED
  BY <1>1, <1>2, <1>3, <1>4, <1>5, <1>6, <1>7, <1>8, <1>9, <1>10, <1>11 DEF Next, Import

\* The invariant holds from the start.
LEMMA InitInv ==
  ASSUME Init
  PROVE  IInv
<1>1. TypeOK
  <2>1. marker \in Seq(Markers) /\ Len(marker) <= 1
    BY DEF Init
  <2>2. data \in [Files -> Contents] /\ settings \in Contents
    BY DEF Init, Contents
  <2>3. left \in [faults : 0..MaxFaults, moves : 0..MaxMoves]
    BY Known DEF Init
  <2>4. QED
    BY <2>1, <2>2, <2>3, IdleTypes DEF Init, TypeOK
<1>2. MarkerInv /\ AttemptInv /\ OriginInv
  BY Known DEF Init, MarkerInv, AttemptInv, OriginInv
<1>3. QED
  BY <1>1, <1>2 DEF IInv

LEMMA Invariant == Spec => []IInv
<1>1. IInv /\ [Next]_vars => IInv'
  BY TypeStep, MarkerStep, AttemptStep, OriginStep DEF IInv
<1>2. QED
  BY <1>1, InitInv, PTL DEF Spec

-----------------------------------------------------------------------------
(* The theorems                                                            *)

\* Every well-formed file of the installation that was imported is there, or the
\* marker still says that it is to be tried again, whatever failed and wherever the
\* program stopped: ImportInv, the types and NothingIsForgotten.
THEOREM FilesOnRecord == Spec => []ImportInv
<1>1. IInv => ImportInv
  BY DEF IInv, MarkerInv, Recorded, ImportInv, NothingIsForgotten, Committed
<1>2. QED
  BY <1>1, Invariant, PTL

\* Only the copying puts a file of ROSI 4 somewhere, and with settings in place it
\* fills gaps from the installation they came from.
LEMMA GapsOnly ==
  ASSUME IInv, [Next]_vars, NEW f \in Files, settings # NoFile, data'[f] \notin {data[f], Own}
  PROVE  data[f] = NoFile /\ settings \in {data'[f], Own}
<1>0. TypeOK /\ AttemptInv /\ OriginInv
  BY DEF IInv
<1>1. ASSUME Copy PROVE data[f] = NoFile /\ settings \in {data'[f], Own}
  <2>1. pc = "copy" /\ attempt.source \in Sources
    BY <1>0, <1>1 DEF Copy, AttemptInv
  <2>2. Dealt(DataFiles[next])
    BY <1>0, <1>1, <2>1, CopyIs
  <2>3. f = DataFiles[next] /\ data'[f] = attempt.source /\ ~Preserves(f)
    BY <2>2 DEF Dealt
  <2>4. data[f] = NoFile
    BY <1>0, <2>1, <2>3 DEF OriginInv, Preserves
  <2>5. settings = attempt.source \/ settings = Own
    BY <1>0, <2>1 DEF OriginInv, TypeOK, Contents
  <2>6. QED
    BY <2>3, <2>4, <2>5
<1>2. ASSUME NEW g \in Files, WriteOwnData(g) PROVE data'[f] \in {data[f], Own}
  BY <1>0, <1>2 DEF WriteOwnData, TypeOK
<1>3. ASSUME Launch PROVE data' = data
  BY <1>3 DEF Launch
<1>4. ASSUME ReadSettings \/ WriteIntent \/ CommitSettings \/ WriteOutcome PROVE data' = data
  BY <1>4 DEF ReadSettings, WriteIntent, CommitSettings, WriteOutcome
<1>5. ASSUME WriteOwnSettings \/ Quit \/ Crash \/ (\E s \in Sources : Move(s)) PROVE data' = data
  BY <1>5 DEF WriteOwnSettings, Quit, Crash, Stop, Move
<1>6. ASSUME UNCHANGED vars PROVE data' = data
  BY <1>6 DEF vars
<1>7. QED
  BY <1>1, <1>2, <1>3, <1>4, <1>5, <1>6 DEF Next, Import

\* A profile of ROSI 5 that has settings loses no file to ROSI 4's, and gets missing
\* ones from no other installation than its own.
THEOREM ProfileKept == Spec => SettledProfileIsKept
<1>1. IInv /\ [Next]_vars =>
        [\A f \in Files : settings # NoFile /\ data'[f] \notin {data[f], Own}
                          => data[f] = NoFile /\ settings \in {data'[f], Own}]_vars
  BY GapsOnly
<1>2. QED
  BY <1>1, Invariant, PTL DEF Spec, SettledProfileIsKept
==============================================================================
