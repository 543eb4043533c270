----------------------------- MODULE LegacyImport -----------------------------
(***************************************************************************)
(* The import of ROSI 4's files when ROSI 5 starts (src-tauri/src/         *)
(* legacy.rs, called by main.rs before anything reads the data folder).    *)
(* Each attempt writes a marker twice: its intent before it copies, its    *)
(* outcome afterwards. Any file operation may fail, the program may stop   *)
(* between any two steps, ROSI 5 writes its own files while it runs, and   *)
(* installations of ROSI 4 come and go between the launches.               *)
(*                                                                         *)
(* What a file contains is who wrote it: an installation of ROSI 4, or     *)
(* ROSI 5 itself. No specification uses the operators named Bad...: each   *)
(* is the operator after it with a plausible bug that a property must      *)
(* catch.                                                                  *)
(***************************************************************************)
EXTENDS Naturals, Sequences, Functions

CONSTANTS Candidates,   \* candidate_dirs, in their order
          DataFiles,    \* DATA_FILES, in their order
          Existing, Valid,  \* the data files of each candidate; the well-formed ones
          Own, NoFile,  \* a file of ROSI 5; no file
          MaxFaults, MaxMoves   \* bounds

Sources == Range(Candidates)
Files == Range(DataFiles)
Contents == Sources \cup {Own, NoFile}

ASSUME LegacyAssumption ==
  /\ Candidates \in Seq(Sources) /\ DataFiles \in Seq(Files)
  /\ Own # NoFile /\ {Own, NoFile} \cap Sources = {}
  /\ Existing \in [Sources -> SUBSET Files] /\ Valid \in [Sources -> SUBSET Files]
  /\ \A s \in Sources : Valid[s] \subseteq Existing[s]
  /\ MaxFaults \in Nat /\ MaxMoves \in Nat

VARIABLES
  installed,  \* the candidates that hold a settings.json of ROSI 4
  readable,   \* those whose settings.json is a JSON object
  data, settings,  \* the data files and settings.json of ROSI 5
  marker,     \* legacy-v4-import.json: a sequence of at most one marker
  pc,         \* where the launch is
  work,       \* the marker in memory
  attempt,    \* what import_from was called with
  next,       \* the data file it has come to
  left        \* what the bounds still allow

local == <<work, attempt, next>>
vars == <<installed, readable, data, settings, marker, pc, local, left>>

Fresh(s) == [outcome |-> "skipped", source |-> s, retry |-> {}, skipped |-> [f \in Files |-> "no"]]
Idle == [source |-> NoFile, resumes |-> FALSE, settingsExist |-> FALSE, files |-> {}]

Init ==
  /\ installed \in SUBSET Sources /\ readable \in SUBSET Sources
  /\ data = [f \in Files |-> NoFile] /\ settings = NoFile
  /\ marker = <<>>
  /\ pc = "off" /\ work = Fresh(NoFile) /\ attempt = Idle /\ next = 1
  /\ left = [faults |-> MaxFaults, moves |-> MaxMoves]

Spend(what) == left[what] > 0 /\ left' = [left EXCEPT ![what] = @ - 1]
Fault == Spend("faults")

-----------------------------------------------------------------------------
\* import_on_first_launch

\* find_source: the first candidate that holds a settings.json, if one does
Found == {s \in installed : \E i \in DOMAIN Candidates :
            s = Candidates[i] /\ \A j \in 1..(i - 1) : Candidates[j] \notin installed}

BadRecovered(m, s) == m

\* Early markers called an import complete although the system had refused a
\* file: such files are tried again.
Recovered(m, s) ==
  IF m.source = s /\ m.outcome = "imported" /\ m.retry = {}
  THEN [m EXCEPT !.retry = {f \in Files : data[f] = NoFile /\ m.skipped[f] = "os error"
                                          /\ f \in Valid[s]}]
  ELSE m

Resumes(previous, s) ==
  previous # <<>> /\ previous[1].source = s /\ Recovered(previous[1], s).retry # {}

Afresh(s) ==
  /\ work' = Fresh(s)
  /\ attempt' = [source |-> s, resumes |-> FALSE, settingsExist |-> FALSE,
                 files |-> Existing[s]]
  /\ pc' = "read settings"

Resume(m, s) ==
  /\ work' = [m EXCEPT !.skipped = [f \in Files |-> IF f \in m.retry THEN "no" ELSE m.skipped[f]]]
  /\ attempt' = [source |-> s, resumes |-> TRUE, settingsExist |-> settings # NoFile,
                 files |-> Existing[s] \cap m.retry]
  /\ pc' = IF settings # NoFile THEN "intent" ELSE "read settings"

\* The marker as this launch reads it; one it cannot read counts as none.
Launch ==
  /\ pc = "off"
  /\ \E previous \in {marker, <<>>} :
       /\ IF previous = marker THEN UNCHANGED left ELSE Fault
       /\ \/ /\ \A s \in Found : settings # NoFile /\ ~Resumes(previous, s)
             /\ pc' = "running" /\ UNCHANGED local
          \/ /\ \E s \in Found : \/ settings = NoFile /\ ~Resumes(previous, s) /\ Afresh(s)
                                 \/ Resumes(previous, s) /\ Resume(Recovered(previous[1], s), s)
             /\ next' = 1
  /\ UNCHANGED <<installed, readable, data, settings, marker>>

-----------------------------------------------------------------------------
\* import_from

\* Without ROSI 4's settings nothing is imported.
ReadSettings ==
  /\ pc = "read settings"
  /\ \/ attempt.source \in readable /\ pc' = "intent" /\ UNCHANGED left
     \/ attempt.source \notin readable /\ pc' = "outcome" /\ UNCHANGED left
     \/ Fault /\ pc' = "outcome"
  /\ UNCHANGED <<installed, readable, data, settings, marker, local>>

BadIntended == [work EXCEPT !.outcome = "partial", !.retry = {}]

\* The marker that says what a launch after a crash has to try again
Intended == [work EXCEPT !.outcome = "partial", !.retry = attempt.files]

WriteIntent ==
  /\ pc = "intent"
  /\ \/ /\ marker' = <<Intended>>
        /\ work' = [Intended EXCEPT !.retry = {}]
        /\ pc' = "copy"
        /\ UNCHANGED left
     \/ /\ Fault
        /\ work' = [Intended EXCEPT !.outcome = "failed"]
        /\ pc' = "outcome"
        /\ UNCHANGED marker
  /\ UNCHANGED <<installed, readable, data, settings, attempt, next>>

Skip(f, reason, retry) ==
  /\ work' = [work EXCEPT !.skipped[f] = reason, !.retry = @ \cup retry]
  /\ UNCHANGED data

BadPreserves(f) == FALSE
\* A retry keeps what ROSI 5 has by now.
Preserves(f) == attempt.resumes /\ data[f] # NoFile

CopyFile(f) ==
  \/ /\ f \notin Valid[attempt.source] \/ Preserves(f)
     /\ Skip(f, "other", {})
     /\ UNCHANGED left
  \/ /\ f \in Valid[attempt.source] /\ ~Preserves(f)
     /\ data' = [data EXCEPT ![f] = attempt.source]
     /\ UNCHANGED <<work, left>>
  \* The file cannot be read, or its destination not be written.
  \/ Fault /\ Skip(f, "os error", {})
  \/ /\ f \in Valid[attempt.source] /\ ~Preserves(f)
     /\ Fault /\ Skip(f, "os error", {f})

Copy ==
  /\ pc = "copy" /\ next <= Len(DataFiles)
  /\ next' = next + 1
  /\ LET f == DataFiles[next]
     IN  IF f \in attempt.files THEN CopyFile(f) ELSE UNCHANGED <<data, work, left>>
  /\ UNCHANGED <<installed, readable, settings, marker, pc, attempt>>

\* settings.json is written last: settings::import_legacy
CommitSettings ==
  /\ pc = "copy" /\ next > Len(DataFiles)
  /\ pc' = "outcome"
  /\ \/ /\ settings' = IF attempt.settingsExist THEN settings ELSE attempt.source
        /\ work' = [work EXCEPT !.outcome = IF work.retry = {} THEN "imported" ELSE "partial"]
        /\ UNCHANGED left
     \/ /\ ~attempt.settingsExist /\ Fault
        /\ work' = [work EXCEPT !.outcome = "failed"]
        /\ UNCHANGED settings
  /\ UNCHANGED <<installed, readable, data, marker, attempt, next>>

\* The rest of import_on_first_launch; the program starts even if it fails.
WriteOutcome ==
  /\ pc = "outcome"
  /\ pc' = "running"
  /\ work' = Fresh(NoFile) /\ attempt' = Idle /\ next' = 1
  /\ \/ marker' = <<work>> /\ UNCHANGED left
     \/ Fault /\ UNCHANGED marker
  /\ UNCHANGED <<installed, readable, data, settings>>

-----------------------------------------------------------------------------
\* What happens around it

WriteOwnData(f) ==
  /\ pc = "running" /\ data[f] # Own
  /\ data' = [data EXCEPT ![f] = Own]
  /\ UNCHANGED <<installed, readable, settings, marker, pc, local, left>>

WriteOwnSettings ==
  /\ pc = "running" /\ settings # Own
  /\ settings' = Own
  /\ UNCHANGED <<installed, readable, data, marker, pc, local, left>>

Stop ==
  /\ work' = Fresh(NoFile) /\ attempt' = Idle /\ next' = 1
  /\ pc' = "off"
  /\ UNCHANGED <<installed, readable, data, settings, marker>>

Quit == pc = "running" /\ Stop /\ UNCHANGED left
Crash == pc \notin {"off", "running"} /\ Stop /\ Fault

\* ROSI 4 is installed or removed.
Move(s) ==
  /\ pc = "off" /\ Spend("moves")
  /\ installed' = IF s \in installed THEN installed \ {s} ELSE installed \cup {s}
  /\ UNCHANGED <<readable, data, settings, marker, pc, local>>

Import == Launch \/ ReadSettings \/ WriteIntent \/ Copy \/ CommitSettings \/ WriteOutcome

Next ==
  \/ Import
  \/ \E f \in Files : WriteOwnData(f)
  \/ WriteOwnSettings
  \/ Quit \/ Crash
  \/ \E s \in Sources : Move(s)

\* A launch runs to its end, and the user starts ROSI again and again, as
\* recovery_message asks; faults and moves end because they are bounded.
Fairness == WF_vars(Import) /\ WF_vars(Quit)

Spec == Init /\ [][Next]_vars /\ Fairness

-----------------------------------------------------------------------------
\* Properties

Reasons == {"no", "os error", "other"}
Markers == [outcome : {"skipped", "partial", "failed", "imported"},
            source : Sources \cup {NoFile}, retry : SUBSET Files, skipped : [Files -> Reasons]]

Attempts == [source : Sources \cup {NoFile}, resumes : BOOLEAN, settingsExist : BOOLEAN,
             files : SUBSET Files]

TypeOK ==
  /\ {installed, readable} \subseteq SUBSET Sources
  /\ data \in [Files -> Contents] /\ settings \in Contents
  /\ marker \in Seq(Markers) /\ Len(marker) <= 1
  /\ pc \in {"off", "read settings", "intent", "copy", "outcome", "running"}
  /\ work \in Markers /\ attempt \in Attempts /\ attempt.source = work.source
  /\ next \in 1..(Len(DataFiles) + 1)
  /\ left \in [faults : 0..MaxFaults, moves : 0..MaxMoves]

\* Once ROSI 5 has settings, no launch, retry or recovered marker puts a file of
\* ROSI 4 in the place of one that exists; and what it brings in comes from the
\* installation that the settings came from, also when another one has been found
\* since.
SettledProfileIsKept ==
  [][\A f \in Files : settings # NoFile /\ data'[f] \notin {data[f], Own}
                      => data[f] = NoFile /\ settings \in {data'[f], Own}]_vars

\* Whatever fails and wherever the program stops, a well-formed file of the
\* installation that was imported is there or still on record to be tried
\* again.
Committed(s) ==
  /\ settings # NoFile /\ marker # <<>>
  /\ marker[1].source = s /\ marker[1].outcome \in {"partial", "imported"}

NothingIsForgotten ==
  \A s \in Sources : Committed(s) =>
    \A f \in Valid[s] : \/ data[f] # NoFile
                        \/ f \in marker[1].retry
                        \/ marker[1].skipped[f] = "os error"

ImportInv == TypeOK /\ NothingIsForgotten

\* Restarting is enough: once nothing fails any more, every well-formed file
\* arrives, as long as the installation is the one that is found.
MissingFilesArrive ==
  \A s \in Sources :
    Committed(s) ~> \/ \A f \in Valid[s] : data[f] # NoFile
                    \/ s \notin Found
==============================================================================
