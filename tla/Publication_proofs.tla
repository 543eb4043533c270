------------------------- MODULE Publication_proofs --------------------------
(***************************************************************************)
(* What Publication guarantees for any number of entries, captions, files  *)
(* of other programs and faults: the session answers for every entry it    *)
(* was told of, one fault loses no finished file, no file of another       *)
(* program is overwritten or removed, and the sweep of the next start      *)
(* removes only what is redundant.                                         *)
(*                                                                         *)
(* The invariant is Base.  It says where a file of each kind may lie       *)
(* (PlaceInv) and that no two lie in one place (OneEach), what the worker  *)
(* is about to do and for which entry (RootInv, TodoInv, TaskInv,          *)
(* MoveInv), that what it needs next is there (HeldInv, HandInv,           *)
(* YtdlpInv), what the outcome of an install says of the folder            *)
(* (ResultInv, OutputInv), which entries are answered for (AnswerInv),     *)
(* and what counts as the session's own (OwnedInv) or as found by the      *)
(* sweep (SweepInv).  SurviveInv adds, while there was at most one fault,  *)
(* that an entry the worker is done with is in the folder or in a staging  *)
(* directory that will be kept; StemInv what the sweep takes for the       *)
(* merged file of a stream.                                                *)
(*                                                                         *)
(* The proof goes in two layers: lemmas named ...At say where an action    *)
(* leaves the files, as a Moves, a Remove or no change; the lemmas of each *)
(* part of Base use only those and the control of the action.              *)
(***************************************************************************)
EXTENDS Publication, FiniteSetTheorems, SequenceTheorems, TLAPS

Flags ==
  /\ choice \in Choices /\ faults \in 0 .. MaxFaults
  /\ completed \subseteq Files /\ failed \subseteq Media /\ excused \subseteq Files
  /\ known \in BOOLEAN /\ preserve \in BOOLEAN /\ cancelled \in BOOLEAN
DataInv == at \in [Files -> Places \cup {Nowhere}] /\ Flags

InFolder(f) == at[f].dir = "download"

\* Where the files of each kind may be, and that nobody else is in the place
\* of a file of the session unless he has replaced it.
WholeAt(m)   == InFolder(Whole(m)) \/ at[Whole(m)] \in {Nowhere, Staged(m), Held(m)}
StreamAt(m)  == \/ InFolder(Stream(m))
                \/ at[Stream(m)] \in {Nowhere, In("stage", Part(m)), In("stage", Stream(m))}
ThumbAt(m)   == InFolder(Thumb(m)) \/ at[Thumb(m)] \in {Nowhere, In("stage", Thumb(m))}
CaptionAt(m) == \/ InFolder(Caption(m))
                \/ at[Caption(m)] \in {Nowhere, In("stage", Caption(m)), In("held", Caption(m))}
OutputAt(m)  == InFolder(Output(m)) \/ at[Output(m)] \in {Nowhere, In("convert", Output(m))}
StrangerAt(x) ==
  \/ InFolder(x) \/ at[x] \in {Nowhere, In("stage", x)}
  \/ \E m \in Media : at[x] \in {Staged(m), Held(m)} /\ Whole(m) \in excused
  \/ \E m \in Captioned :
       at[x] \in {In("stage", Caption(m)), In("held", Caption(m))} /\ Caption(m) \in excused

PlaceInv ==
  /\ \A m \in Media : WholeAt(m) /\ StreamAt(m) /\ ThumbAt(m) /\ OutputAt(m)
  /\ \A m \in Captioned : CaptionAt(m)
  /\ \A x \in Foreign : StrangerAt(x)
  /\ InFolder(Placeholder) \/ at[Placeholder] = Nowhere

OneEach == \A f, g \in Files : Kept(f) /\ at[f] = at[g] => f = g

\* Where the worker is.
ConvertPcs == {"ffmpeg", "output", "caption fallback", "decide", "retire", "check retired",
               "replacement", "converted"}
CaptionPcs == {"captions", "take caption", "check caption", "caption published"}
MovePcs == {"move", "rename"}
WorkerPcs == {"handoff", "install", "pending", "convert", "published"}
             \cup ConvertPcs \cup CaptionPcs \cup MovePcs
Pcs == WorkerPcs \cup {"ytdlp", "drop", "verify", "done", "down", "sweep"}

\* A task is in progress, and the task or step concerns the first entry of todo.
Publishing ==
  \/ pc = "published" \/ pc \in CaptionPcs
  \/ pc \in MovePcs /\ move.next \in {"published", "caption published"}
Converting ==
  \/ pc \in ConvertPcs
  \/ pc \in MovePcs /\ move.next \in {"output", "replacement"}
  \/ Publishing /\ task.next \in {"converted", "caption fallback"}

\* The entries the worker has not come to.
Rest == IF Converting THEN Entries(Tail(todo)) ELSE Entries(todo)

NoTwice(s) == \A i, j \in 1 .. Len(s) : s[i] = s[j] => i = j

RootInv ==
  /\ pc \in Pcs
  /\ pc \in WorkerPcs \cup {"ytdlp", "drop"} => root = "stage"
  /\ pc = "verify" => root = "retired"
  /\ pc = "sweep" => root # "gone"
  /\ root \in {"stage", "retired", "gone"}
  /\ root = "gone" => StageFiles = {}

TodoInv ==
  /\ todo \in Seq(Media) /\ NoTwice(todo) /\ Entries(todo) \subseteq Reported
  /\ recorded \in Seq(Media) /\ NoTwice(recorded)
  /\ Converting => todo # <<>>
  /\ pc \in {"ytdlp", "drop", "verify", "done", "down", "sweep"} => todo = <<>>

TaskInv ==
  Publishing =>
    /\ task.media \in Reported
    /\ task.next \in {"install", "pending", "converted", "caption fallback"}
    /\ task.next \in {"converted", "caption fallback"} => task.media = Head(todo)
    /\ task.next \in {"install", "pending"} => task.media \notin Entries(todo)
    /\ task.next = "caption fallback" =>
         pc \in CaptionPcs \/ (pc \in MovePcs /\ move.next = "caption published")

MoveInv ==
  /\ move = [from |-> move.from, to |-> move.to, name |-> move.name,
             next |-> move.next, result |-> move.result, file |-> move.file]
  /\ pc \in MovePcs =>
       \/ /\ move.next = "published" /\ move.from = Staged(task.media)
          /\ move.name = Whole(task.media)
       \/ /\ move.next = "caption published" /\ move.from = HeldCaption
          /\ move.name = Caption(task.media)
       \/ /\ move.next = "output" /\ move.from = In("convert", Output(Head(todo)))
          /\ move.name = Output(Head(todo))
       \/ /\ move.next = "replacement" /\ move.from = Held(Head(todo))
          /\ move.name = Whole(Head(todo))
  /\ pc = "rename" => at[Placeholder] = move.to /\ move.to.dir = "download" /\ move.to \in Places

\* What has been taken away from a place in the staging directory is in one place.
HeldInv ==
  /\ \A m \in Media : ~(Taken(Staged(m)) /\ Taken(Held(m)))
  /\ \A m \in Captioned : ~(Taken(In("stage", Caption(m))) /\ Taken(In("held", Caption(m))))

\* What the worker still needs is there: a staged file for every entry it has
\* not finished with.
Here(m) == Taken(Staged(m))
HandInv ==
  /\ pc = "ytdlp" => \A m \in Reported : Here(m)
  /\ \A m \in Rest : Here(m)
  /\ pc \in {"ffmpeg", "output", "caption fallback", "decide", "retire"} => Here(Head(todo))
  /\ pc \in MovePcs /\ move.next = "output" => Here(Head(todo))
  /\ Publishing /\ task.next = "caption fallback" => Here(Head(todo))
  /\ pc \in MovePcs /\ move.next = "published" => Here(task.media)
  /\ pc \in MovePcs /\ move.next = "replacement" => Taken(Held(Head(todo)))
  /\ pc = "check retired" => Taken(Held(Head(todo)))
  /\ pc = "check caption" => Taken(HeldCaption)

\* What an install has done when it is over.
ResultInv ==
  pc \in {"published", "caption published", "output", "replacement"} =>
    /\ move.result \in {"ok", "unsynced", "failed"}
    /\ move.result \in {"ok", "unsynced"} =>
         /\ move.file \in Files \ {Placeholder} /\ InFolder(move.file)
         /\ pc = "published" =>
              move.file = Whole(task.media) \/ Whole(task.media) \in excused
         /\ pc = "output" => move.file = Output(Head(todo))
    /\ move.result = "failed" /\ pc = "published" => Here(task.media) /\ faults > 0

\* No converted file of an entry still to be converted, and a converted file
\* where its original is given up.
OutputInv ==
  /\ pc = "ytdlp" => \A m \in Media : at[Output(m)] = Nowhere
  /\ pc \in {"handoff", "convert"} \/ Converting => \A m \in Rest : at[Output(m)] = Nowhere
  /\ \/ pc \in {"caption fallback", "decide", "retire", "check retired"}
     \/ Publishing /\ task.next = "caption fallback"
     => InFolder(Output(Head(todo)))

\* yt-dlp has not begun with an entry of which there is nothing.
YtdlpInv ==
  pc = "ytdlp" =>
    /\ \A f \in Files : at[f].dir \notin {"held", "convert"} /\ (InFolder(f) => f \in Foreign)
    /\ \A m \in Media :
         at[Stream(m)] = Nowhere /\ at[Whole(m)] = Nowhere /\ Whole(m) \notin excused =>
           /\ at[Thumb(m)] = Nowhere
           /\ m \in Captioned => at[Caption(m)] = Nowhere /\ Caption(m) \notin excused
    /\ completed = {} /\ failed = {}

\* The entry whose publication has not come to an end.
Open(m) ==
  \/ pc \in {"ffmpeg", "output"} /\ m = Head(todo)
  \/ pc \in MovePcs /\ move.next = "output" /\ m = Head(todo)
  \/ pc \in MovePcs /\ move.next = "published" /\ m = task.media
  \/ pc = "published" /\ m = task.media

Answered(m) ==
  m \in failed \/ Whole(m) \in completed \cup excused \/ Output(m) \in completed

AnswerInv ==
  /\ \A f \in completed : f \in Files \ {Placeholder} /\ InFolder(f)
  /\ pc \in WorkerPcs \cup {"drop"} => \A m \in Reported : m \in Rest \/ Open(m) \/ Answered(m)

Safe(m) == InFolder(Output(m)) \/ InFolder(Whole(m)) \/ Whole(m) \in excused

\* Left behind, but the staging directory will be kept.
Retained(m) ==
  /\ at[Whole(m)] = Staged(m)
  /\ ~known \/ (preserve /\ faults > 0 /\ ~(pc = "replacement" /\ move.result # "ok"))

SurviveInv ==
  /\ pc \in WorkerPcs \cup {"drop"} =>
       \A m \in Reported : m \in Rest \/ Open(m) \/ Safe(m) \/ Retained(m)
  /\ pc = "verify" => \A m \in Reported : Safe(m)
  /\ FinishedSurvives

OwnedInv ==
  /\ owned \subseteq Places \X Files
  /\ \A p \in Places, x \in Foreign : <<p, x>> \in owned => x \in excused

SweepInv ==
  pc = "sweep" =>
    /\ sweep = [left |-> sweep.left, merged |-> sweep.merged, retained |-> sweep.retained]
    /\ \A p \in sweep.left : p.dir \in {"stage", "held", "convert"}

\* Without thumbnails only a whole file has the stem of an entry.
StemInv ==
  /\ \A m \in Media : at[Thumb(m)] = Nowhere
  /\ pc = "sweep" => \A m \in Media :
       <<"entry", m>> \in sweep.merged => Kept(Whole(m)) \/ Whole(m) \in excused

SurviveInv1 == faults <= 1 => SurviveInv
StemInv1 == Thumbnails = FALSE => StemInv

\* All of this but what bounds the faults.
Base ==
  /\ DataInv /\ OneEach /\ PlaceInv /\ RootInv /\ TodoInv /\ TaskInv /\ MoveInv /\ HeldInv
  /\ HandInv /\ ResultInv /\ OutputInv /\ YtdlpInv /\ AnswerInv /\ OwnedInv /\ SweepInv

-----------------------------------------------------------------------------
(* Files and places                                                        *)

\* The kinds of files are told apart by their first component.
LEMMA Kinds ==
  /\ \A m : Whole(m)[1] = "media" /\ Whole(m)[2] = m
  /\ \A m : Stream(m)[1] = "stream" /\ Stream(m)[2] = m
  /\ \A m : Part(m)[1] = "part" /\ Part(m)[2] = m
  /\ \A m : Thumb(m)[1] = "thumb" /\ Thumb(m)[2] = m
  /\ \A m : Caption(m)[1] = "caption" /\ Caption(m)[2] = m
  /\ \A m : Output(m)[1] = "output" /\ Output(m)[2] = m
  /\ Placeholder[1] = "placeholder"
  /\ \A x \in Foreign : x[1] = "stranger"
BY DEF Whole, Stream, Part, Thumb, Caption, Output, Placeholder, Foreign

\* The files of the session and of other programs are files.
LEMMA FilesAre ==
  /\ \A m \in Media : /\ Whole(m) \in Files /\ Stream(m) \in Files
                      /\ Thumb(m) \in Files /\ Output(m) \in Files
  /\ \A m \in Captioned : Caption(m) \in Files
  /\ Foreign \subseteq Files /\ Placeholder \in Files
BY DEF Files, Whole, Stream, Thumb, Caption, Output

\* Every file is of one kind.
LEMMA KindOf ==
  ASSUME NEW f \in Files
  PROVE  \/ \E m \in Media : f = Whole(m) \/ f = Stream(m) \/ f = Thumb(m) \/ f = Output(m)
         \/ \E m \in Captioned : f = Caption(m)
         \/ f \in Foreign \/ f = Placeholder
<1>1. CASE f \in {"media", "stream", "thumb", "output"} \X Media
  <2>1. PICK k \in {"media", "stream", "thumb", "output"}, m \in Media : f = <<k, m>>
    BY <1>1
  <2>2. QED
    BY <2>1 DEF Whole, Stream, Thumb, Output
<1>2. CASE f \in {"caption"} \X Captioned
  <2>1. PICK m \in Captioned : f = <<"caption", m>>
    BY <1>2
  <2>2. QED
    BY <2>1 DEF Caption
<1>3. QED
  BY <1>1, <1>2 DEF Files

\* Every file is the name of a place, and so is a part of one.
LEMMA NamesAre ==
  /\ Files \subseteq Names
  /\ \A m \in Media : Part(m) \in Names
BY DEF Names, Part

\* Places in the private directories.
LEMMA InIs ==
  /\ \A d, e : In(d, e).dir = d /\ In(d, e).name = e /\ In(d, e).n = 0
  /\ \A d, e, g, h : In(d, e) = In(g, h) <=> d = g /\ e = h
  /\ \A d \in Dirs, e \in Names : In(d, e) \in Places
  /\ Nowhere.dir = "nowhere"
<1>1. 0 \in Tries
  <2>1. Cardinality(Strangers) \in Nat
    BY PublicationAssumption, FS_CardinalityType
  <2>2. QED
    BY <2>1 DEF Tries
<1>2. \A d, e : In(d, e).dir = d /\ In(d, e).name = e /\ In(d, e).n = 0
  BY DEF In
<1>3. \A d, e, g, h : In(d, e) = In(g, h) <=> d = g /\ e = h
  BY DEF In
<1>4. \A d \in Dirs, e \in Names : In(d, e) \in Places
  BY <1>1 DEF In, Places
<1>5. QED
  BY <1>2, <1>3, <1>4 DEF Nowhere

\* A place has a directory and a name, and Nowhere is none.
LEMMA PlacesAre ==
  /\ \A p \in Places : p.dir \in Dirs /\ p.name \in Names
  /\ Nowhere \notin Places
BY DEF Places, Nowhere, Dirs

\* A free place for a name is an empty one of that name in the download folder.
LEMMA FreeIs ==
  ASSUME NEW name \in Names, NEW p \in FreePlaces(name)
  PROVE  p \in Places /\ p.dir = "download" /\ p.name = name /\ ~Taken(p) /\ p # Nowhere
BY DEF FreePlaces, Places, Dirs, Nowhere

\* FileAt is the file in a place that is taken.
LEMMA FileAtIs ==
  ASSUME NEW p, Taken(p)
  PROVE  FileAt(p) \in Files /\ at[FileAt(p)] = p
BY DEF Taken, FileAt

\* OneEach makes FileAt the inverse of at.
LEMMA FileAtOnly ==
  ASSUME OneEach, NEW f \in Files, NEW p, at[f] = p, p # Nowhere
  PROVE  Taken(p) /\ FileAt(p) = f
<1>1. Taken(p)
  BY DEF Taken
<1>2. QED
  BY <1>1, FileAtIs DEF OneEach, Kept

\* Who can be in the place of a whole file: that file, or who has replaced it.
LEMMA AtWhole ==
  ASSUME PlaceInv, NEW m, NEW f \in Files, at[f] \in {Staged(m), Held(m)}
  PROVE  m \in Media /\ (f = Whole(m) \/ (f \in Foreign /\ Whole(m) \in excused))
<1> USE Kinds, InIs DEF Staged, Held, InFolder
<1>0. at[f] # Nowhere /\ at[f].dir \in {"stage", "held"} /\ at[f].name = Whole(m)
  BY DEF Nowhere
<1>1. ASSUME NEW k \in Media, f = Whole(k) PROVE m = k
  BY <1>0, <1>1 DEF PlaceInv, WholeAt
<1>2. ASSUME NEW k \in Media, f = Stream(k) \/ f = Thumb(k) \/ f = Output(k) PROVE FALSE
  BY <1>0, <1>2 DEF PlaceInv, StreamAt, ThumbAt, OutputAt
<1>3. ASSUME NEW k \in Captioned, f = Caption(k) PROVE FALSE
  BY <1>0, <1>3 DEF PlaceInv, CaptionAt
<1>4. ASSUME f = Placeholder PROVE FALSE
  BY <1>0, <1>4 DEF PlaceInv
<1>5. ASSUME f \in Foreign PROVE m \in Media /\ Whole(m) \in excused
  BY <1>0, <1>5 DEF PlaceInv, StrangerAt
<1>6. QED
  BY <1>1, <1>2, <1>3, <1>4, <1>5, KindOf

\* The same of a caption.
LEMMA AtCaption ==
  ASSUME PlaceInv, NEW m, NEW f \in Files,
         at[f] \in {In("stage", Caption(m)), In("held", Caption(m))}
  PROVE  m \in Captioned /\ (f = Caption(m) \/ (f \in Foreign /\ Caption(m) \in excused))
<1> USE Kinds, InIs DEF Staged, Held, InFolder
<1>0. at[f] # Nowhere /\ at[f].dir \in {"stage", "held"} /\ at[f].name = Caption(m)
  BY DEF Nowhere
<1>1. ASSUME NEW k \in Captioned, f = Caption(k) PROVE m = k
  BY <1>0, <1>1 DEF PlaceInv, CaptionAt
<1>2. ASSUME NEW k \in Media, f = Stream(k) \/ f = Thumb(k) \/ f = Output(k) \/ f = Whole(k)
      PROVE FALSE
  BY <1>0, <1>2 DEF PlaceInv, StreamAt, ThumbAt, OutputAt, WholeAt
<1>4. ASSUME f = Placeholder PROVE FALSE
  BY <1>0, <1>4 DEF PlaceInv
<1>5. ASSUME f \in Foreign PROVE m \in Captioned /\ Caption(m) \in excused
  BY <1>0, <1>5 DEF PlaceInv, StrangerAt
<1>6. QED
  BY <1>1, <1>2, <1>4, <1>5, KindOf

\* Streams, thumbnails and what ffmpeg writes are always in their own places.
LEMMA AtOwn ==
  ASSUME PlaceInv, NEW f \in Files, at[f].dir \in {"stage", "held", "convert"}
  PROVE  /\ at[f].dir = "convert" =>
              \E m \in Media : f = Output(m) /\ at[f] = In("convert", Output(m))
         /\ \A m : at[f].name = Thumb(m) => f = Thumb(m)
         /\ at[f].name[1] \in {"part", "stream"} =>
              \E m \in Media : f = Stream(m) /\ at[f] \in {In("stage", Part(m)), In("stage", Stream(m))}
         /\ at[f].name \in Foreign => at[f].name = f
<1> USE Kinds, InIs DEF Staged, Held, InFolder
<1>0. at[f] # Nowhere /\ at[f].dir # "download"
  BY DEF Nowhere
<1>1. CASE \E k \in Media : f = Whole(k)
  BY <1>0, <1>1 DEF PlaceInv, WholeAt
<1>2. CASE \E k \in Media : f = Stream(k)
  BY <1>0, <1>2 DEF PlaceInv, StreamAt
<1>3. CASE \E k \in Media : f = Thumb(k)
  BY <1>0, <1>3 DEF PlaceInv, ThumbAt
<1>4. CASE \E k \in Media : f = Output(k)
  BY <1>0, <1>4 DEF PlaceInv, OutputAt
<1>5. CASE \E k \in Captioned : f = Caption(k)
  BY <1>0, <1>5 DEF PlaceInv, CaptionAt
<1>6. CASE f = Placeholder
  BY <1>0, <1>6 DEF PlaceInv
<1>7. CASE f \in Foreign
  BY <1>0, <1>7 DEF PlaceInv, StrangerAt
<1>8. QED
  BY <1>1, <1>2, <1>3, <1>4, <1>5, <1>6, <1>7, KindOf


-----------------------------------------------------------------------------
(* Steps that move one file                                                *)

AtType == at \in [Files -> Places \cup {Nowhere}]
AtInv == AtType /\ OneEach /\ PlaceInv

\* A file in a place of its own in the staging directory, or in that of a file it
\* has replaced.
Placed(f) ==
  \/ \E m \in Media :
       \/ f = Whole(m) /\ at[f] \in {Staged(m), Held(m)}
       \/ f = Stream(m) /\ at[f] \in {In("stage", Part(m)), In("stage", Stream(m))}
       \/ f = Thumb(m) /\ at[f] = In("stage", Thumb(m))
       \/ f = Output(m) /\ at[f] = In("convert", Output(m))
       \/ f \in Foreign /\ at[f] \in {Staged(m), Held(m)} /\ Whole(m) \in excused
  \/ \E m \in Captioned :
       /\ f = Caption(m) \/ (f \in Foreign /\ Caption(m) \in excused)
       /\ at[f] \in {In("stage", Caption(m)), In("held", Caption(m))}
  \/ f \in Foreign /\ at[f] = In("stage", f)

\* Files leave their places only for nowhere, the download folder or such a place.
LEMMA PlaceKept ==
  ASSUME PlaceInv, excused \subseteq excused',
         \A f \in Files : \/ at'[f] \in {at[f], Nowhere} \/ at'[f].dir = "download"
                          \/ Placed(f)'
  PROVE  PlaceInv'
<1> USE Kinds, FilesAre
<1>0. Nowhere' = Nowhere /\ Foreign' = Foreign
  BY DEF Nowhere, Foreign
<1>1. ASSUME NEW m \in Media PROVE WholeAt(m)'
  <2>1. Whole(m) \in Files
    OBVIOUS
  <2>2. Placed(Whole(m))' => at'[Whole(m)] \in {Staged(m), Held(m)}
    BY DEF Placed
  <2>3. WholeAt(m)
    BY DEF PlaceInv
  <2>4. QED
    BY <2>1, <2>2, <2>3, <1>0 DEF WholeAt, InFolder
<1>2. ASSUME NEW m \in Media PROVE StreamAt(m)'
  <2>1. Stream(m) \in Files
    OBVIOUS
  <2>2. Placed(Stream(m))' => at'[Stream(m)] \in {In("stage", Part(m)), In("stage", Stream(m))}
    BY DEF Placed
  <2>3. StreamAt(m)
    BY DEF PlaceInv
  <2>4. QED
    BY <2>1, <2>2, <2>3, <1>0 DEF StreamAt, InFolder
<1>3. ASSUME NEW m \in Media PROVE ThumbAt(m)'
  <2>1. Thumb(m) \in Files
    OBVIOUS
  <2>2. Placed(Thumb(m))' => at'[Thumb(m)] = In("stage", Thumb(m))
    BY DEF Placed
  <2>3. ThumbAt(m)
    BY DEF PlaceInv
  <2>4. QED
    BY <2>1, <2>2, <2>3, <1>0 DEF ThumbAt, InFolder
<1>4. ASSUME NEW m \in Media PROVE OutputAt(m)'
  <2>1. Output(m) \in Files
    OBVIOUS
  <2>2. Placed(Output(m))' => at'[Output(m)] = In("convert", Output(m))
    BY DEF Placed
  <2>3. OutputAt(m)
    BY DEF PlaceInv
  <2>4. QED
    BY <2>1, <2>2, <2>3, <1>0 DEF OutputAt, InFolder
<1>5. ASSUME NEW m \in Captioned PROVE CaptionAt(m)'
  <2>1. Caption(m) \in Files
    OBVIOUS
  <2>2. Placed(Caption(m))' =>
          at'[Caption(m)] \in {In("stage", Caption(m)), In("held", Caption(m))}
    BY DEF Placed
  <2>3. CaptionAt(m)
    BY DEF PlaceInv
  <2>4. QED
    BY <2>1, <2>2, <2>3, <1>0 DEF CaptionAt, InFolder
<1>6. ASSUME NEW x \in Foreign PROVE StrangerAt(x)'
  <2>1. x \in Files
    OBVIOUS
  <2>2. Placed(x)' => StrangerAt(x)'
    BY DEF Placed, StrangerAt
  <2>3. StrangerAt(x)
    BY DEF PlaceInv
  <2>4. CASE Placed(x)'
    BY <2>2, <2>4
  <2>5. CASE at'[x] = Nowhere \/ at'[x].dir = "download"
    BY <2>5 DEF StrangerAt, InFolder
  <2>6. CASE at'[x] = at[x]
    BY <2>3, <2>6 DEF StrangerAt, InFolder
  <2>7. QED
    BY <2>1, <2>4, <2>5, <2>6
<1>7. (InFolder(Placeholder) \/ at[Placeholder] = Nowhere)'
  <2>1. ~Placed(Placeholder)'
    BY DEF Placed
  <2>2. QED
    BY <2>1, <1>0 DEF PlaceInv, InFolder
<1>8. QED
  BY <1>0, <1>1, <1>2, <1>3, <1>4, <1>5, <1>6, <1>7 DEF PlaceInv

\* One file moves to a place that is free or becomes free; the files of R vanish.
Moves(g, p, R) ==
  at' = [f \in Files |-> IF f = g THEN p ELSE IF f \in R THEN Nowhere ELSE at[f]]

\* The files of the download folder stay, but for the placeholder.
FolderKept == \A f \in Files \ {Placeholder} : InFolder(f) => at'[f] = at[f]

\* A move of one file keeps AtInv and what is in the folder, if it leaves the folder alone
\* but for placeholders and puts the file where its kind may be.
LEMMA MovesKeep ==
  ASSUME AtInv, excused \subseteq excused',
         NEW g \in Files, NEW p \in Places \cup {Nowhere}, NEW R \in SUBSET Files,
         Moves(g, p, R),
         \A f \in Files \ (R \cup {g}) : at[f] = p => p = Nowhere,
         \A f \in (R \cup {g}) \ {Placeholder} : ~InFolder(f),
         p = Nowhere \/ p.dir = "download" \/ Placed(g)'
  PROVE  AtInv' /\ FolderKept
<1>1. \A f \in Files : at'[f] = IF f = g THEN p ELSE IF f \in R THEN Nowhere ELSE at[f]
  BY DEF Moves
<1>2. AtType'
  BY DEF Moves, AtInv, AtType, Files, Places, Nowhere
<1>3. OneEach'
  <2>1. SUFFICES ASSUME NEW f \in Files, NEW h \in Files, at'[f] # Nowhere, at'[f] = at'[h]
                 PROVE  f = h
    BY DEF OneEach, Kept, Files, Nowhere
  <2>2. QED
    BY <1>1, <2>1 DEF AtInv, OneEach, Kept
<1>4. PlaceInv'
  BY <1>1, PlaceKept DEF AtInv
<1>5. FolderKept
  BY <1>1 DEF FolderKept
<1>6. QED
  BY <1>2, <1>3, <1>4, <1>5 DEF AtInv

\* So does a step that moves nothing ...
LEMMA SameKeeps ==
  ASSUME AtInv, excused \subseteq excused', at' = at
  PROVE  AtInv' /\ FolderKept
<1>1. AtType'
  BY DEF AtInv, AtType, Files, Places, Nowhere
<1>2. OneEach'
  BY DEF AtInv, OneEach, Kept, Files, Nowhere
<1>3. PlaceInv'
  BY PlaceKept DEF AtInv
<1>4. QED
  BY <1>1, <1>2, <1>3 DEF AtInv, FolderKept

\* ... and one that removes files outside of the folder.
LEMMA RemoveKeeps ==
  ASSUME AtInv, excused \subseteq excused', NEW R \in SUBSET Files, at' = Remove(R),
         \A f \in R \ {Placeholder} : ~InFolder(f)
  PROVE  AtInv' /\ FolderKept
<1>1. \A f \in Files : at'[f] = IF f \in R THEN Nowhere ELSE at[f]
  BY DEF Remove
<1>2. AtType'
  BY DEF Remove, AtInv, AtType, Files, Places, Nowhere
<1>3. OneEach'
  <2>1. SUFFICES ASSUME NEW f \in Files, NEW h \in Files, at'[f] # Nowhere, at'[f] = at'[h]
                 PROVE  f = h
    BY DEF OneEach, Kept, Files, Nowhere
  <2>2. QED
    BY <1>1, <2>1 DEF AtInv, OneEach, Kept
<1>4. PlaceInv'
  BY <1>1, PlaceKept DEF AtInv
<1>5. FolderKept
  BY <1>1 DEF FolderKept
<1>6. QED
  BY <1>2, <1>3, <1>4, <1>5 DEF AtInv

-----------------------------------------------------------------------------
(* Sequences of entries                                                    *)

\* The empty list of entries.
LEMMA NoEntries == Entries(<<>>) = {} /\ <<>> \in Seq(Media) /\ NoTwice(<<>>)
BY DEF Entries, NoTwice

\* The first entry of a list without repetition, and the rest.
LEMMA HeadTail ==
  ASSUME NEW s \in Seq(Media), s # <<>>, NoTwice(s)
  PROVE  /\ Head(s) \in Media /\ Head(s) \in Entries(s)
         /\ Tail(s) \in Seq(Media) /\ NoTwice(Tail(s))
         /\ Entries(Tail(s)) = Entries(s) \ {Head(s)}
<1>1. Len(s) \in Nat /\ Len(s) >= 1 /\ Head(s) = s[1] /\ s[1] \in Media
  OBVIOUS
<1>2. /\ Tail(s) \in Seq(Media) /\ Len(Tail(s)) = Len(s) - 1
      /\ \A i \in 1 .. Len(s) - 1 : Tail(s)[i] = s[i + 1]
  OBVIOUS
<1>3. NoTwice(Tail(s))
  <2>1. SUFFICES ASSUME NEW i \in 1 .. Len(s) - 1, NEW j \in 1 .. Len(s) - 1,
                        Tail(s)[i] = Tail(s)[j]
                 PROVE  i = j
    BY <1>2 DEF NoTwice
  <2>2. i + 1 \in 1 .. Len(s) /\ j + 1 \in 1 .. Len(s) /\ s[i + 1] = s[j + 1]
    BY <1>1, <1>2, <2>1
  <2>3. i + 1 = j + 1
    BY <2>2 DEF NoTwice
  <2>4. QED
    BY <2>3, <1>1
<1>4. Head(s) \in Entries(s)
  <2>1. 1 \in 1 .. Len(s)
    BY <1>1
  <2>2. QED
    BY <1>1, <2>1 DEF Entries
<1>5. ASSUME NEW m \in Entries(Tail(s)) PROVE m \in Entries(s) /\ m # Head(s)
  <2>1. PICK i \in 1 .. Len(s) - 1 : m = Tail(s)[i]
    BY <1>2, <1>5 DEF Entries
  <2>2. i + 1 \in 1 .. Len(s) /\ 1 \in 1 .. Len(s) /\ m = s[i + 1] /\ i + 1 # 1
    BY <1>1, <1>2, <2>1
  <2>3. QED
    BY <2>2, <1>1 DEF Entries, NoTwice
<1>6. ASSUME NEW m \in Entries(s), m # Head(s) PROVE m \in Entries(Tail(s))
  <2>1. PICK i \in 1 .. Len(s) : m = s[i]
    BY <1>6 DEF Entries
  <2>2. i - 1 \in 1 .. Len(s) - 1
    BY <1>1, <1>6, <2>1
  <2>3. Tail(s)[i - 1] = m
    BY <1>1, <1>2, <2>1, <2>2
  <2>4. QED
    BY <1>2, <2>2, <2>3 DEF Entries
<1>7. QED
  BY <1>1, <1>2, <1>3, <1>4, <1>5, <1>6

\* A new entry at the end of such a list.
LEMMA AppendIs ==
  ASSUME NEW s \in Seq(Media), NEW m \in Media, m \notin Entries(s), NoTwice(s)
  PROVE  /\ Append(s, m) \in Seq(Media) /\ NoTwice(Append(s, m))
         /\ Entries(Append(s, m)) = Entries(s) \cup {m}
<1> DEFINE a == Append(s, m)
<1>1. Len(s) \in Nat /\ a \in Seq(Media) /\ Len(a) = Len(s) + 1
  OBVIOUS
<1>2. a[Len(s) + 1] = m /\ \A i \in 1 .. Len(s) : a[i] = s[i]
  OBVIOUS
<1>3. \A i \in 1 .. Len(a) : i \in 1 .. Len(s) \/ i = Len(s) + 1
  BY <1>1
<1>4. Len(s) + 1 \in 1 .. Len(a) /\ \A i \in 1 .. Len(s) : i \in 1 .. Len(a)
  BY <1>1
<1>5. \A i \in 1 .. Len(s) : s[i] # m
  BY DEF Entries
<1> HIDE DEF a
<1>6. NoTwice(a)
  BY <1>2, <1>3, <1>5 DEF NoTwice
<1>7. Entries(a) = Entries(s) \cup {m}
  BY <1>2, <1>3, <1>4 DEF Entries
<1>8. QED
  BY <1>1, <1>6, <1>7 DEF a

\* The files to be published are the finished ones, each once.
LEMMA PresentIs ==
  ASSUME NEW s \in Present, recorded \in Seq(Media), NoTwice(recorded)
  PROVE  s \in Seq(Media) /\ NoTwice(s) /\ Entries(s) = Finished
<1>1. PICK n \in 0 .. Cardinality(Finished) : s \in [1 .. n -> Finished]
  BY DEF Present
<1>2. /\ Entries(s) = Finished
      /\ \A i, j \in 1 .. Len(s) : i < j =>
           \E k, l \in 1 .. Len(recorded) : k < l /\ recorded[k] = s[i] /\ recorded[l] = s[j]
  BY DEF Present
<1>3. Finished \subseteq Media
  BY DEF Finished, Reported, Entries
<1>4. s \in Seq(Media) /\ Len(s) \in Nat
  <2>1. n \in Nat
    BY <1>1
  <2>2. QED
    BY <1>1, <1>3, <2>1
<1>5. ASSUME NEW i \in 1 .. Len(s), NEW j \in 1 .. Len(s), i < j PROVE s[i] # s[j]
  <2>1. PICK k \in 1 .. Len(recorded), l \in 1 .. Len(recorded) :
          k < l /\ recorded[k] = s[i] /\ recorded[l] = s[j]
    BY <1>2, <1>5
  <2>2. k # l
    BY <2>1
  <2>3. QED
    BY <2>1, <2>2 DEF NoTwice
<1>6. \A i, j \in 1 .. Len(s) : i = j \/ i < j \/ j < i
  BY <1>4
<1>7. QED
  BY <1>2, <1>4, <1>5, <1>6 DEF NoTwice

-----------------------------------------------------------------------------
(* What the steps do to the files                                          *)

\* The parts of Base.
LEMMA BaseHas ==
  ASSUME Base
  PROVE  /\ AtInv /\ DataInv /\ OneEach /\ PlaceInv /\ RootInv /\ TodoInv /\ TaskInv
         /\ MoveInv /\ HeldInv /\ HandInv /\ ResultInv /\ OutputInv /\ YtdlpInv /\ AnswerInv
         /\ OwnedInv /\ SweepInv
BY DEF Base, AtInv, DataInv, AtType

\* What is reported and still to do are entries of the session.
LEMMA ReportedIn ==
  ASSUME TodoInv
  PROVE  /\ Reported \subseteq Media /\ Entries(todo) \subseteq Media
         /\ todo # <<>> => /\ Head(todo) \in Media /\ Head(todo) \in Reported
                           /\ Head(todo) \in Entries(todo) /\ Head(todo) \notin Entries(Tail(todo))
                           /\ Entries(Tail(todo)) = Entries(todo) \ {Head(todo)}
<1>1. ASSUME NEW s \in Seq(Media) PROVE Entries(s) \subseteq Media
  BY <1>1 DEF Entries
<1>2. QED
  BY <1>1, HeadTail DEF TodoInv, Reported

\* The task and the first entry of todo are reported ones.
LEMMA TaskIs ==
  ASSUME Base
  PROVE  /\ Publishing => task.media \in Reported /\ task.media \in Media
         /\ Converting => todo # <<>> /\ Head(todo) \in Reported /\ Head(todo) \in Media
<1>1. TodoInv /\ TaskInv
  BY BaseHas
<1>2. Publishing => task.media \in Reported
  BY <1>1 DEF TaskInv
<1>3. Converting => todo # <<>>
  BY <1>1 DEF TodoInv
<1>4. QED
  BY <1>1, <1>2, <1>3, ReportedIn

\* Where an install takes its file from, and the file that is there.
LEMMA FromIs ==
  ASSUME Base, pc \in MovePcs
  PROVE  /\ move.from # Nowhere /\ move.from.dir \in {"stage", "held", "convert"}
         /\ Taken(move.from) =>
              /\ FileAt(move.from) \in Files \ {Placeholder} /\ at[FileAt(move.from)] = move.from
              /\ ~InFolder(FileAt(move.from)) /\ move.name \in Names
<1>1. MoveInv /\ TaskInv /\ TodoInv /\ PlaceInv /\ OneEach
  BY BaseHas
<1>2. \/ /\ move.next = "published" /\ move.from = Staged(task.media)
         /\ move.name = Whole(task.media)
      \/ /\ move.next = "caption published" /\ move.from = HeldCaption
         /\ move.name = Caption(task.media)
      \/ /\ move.next = "output" /\ move.from = In("convert", Output(Head(todo)))
         /\ move.name = Output(Head(todo))
      \/ /\ move.next = "replacement" /\ move.from = Held(Head(todo))
         /\ move.name = Whole(Head(todo))
  BY <1>1 DEF MoveInv
<1>3. move.from # Nowhere /\ move.from.dir \in {"stage", "held", "convert"}
  <2>1. \/ move.from \in {Staged(task.media), HeldCaption, Held(Head(todo))}
        \/ move.from = In("convert", Output(Head(todo)))
    BY <1>2
  <2>3. move.from.dir \in {"stage", "held", "convert"}
    BY <2>1, InIs DEF Staged, Held, HeldCaption
  <2>2. QED
    BY <2>3, InIs
<1>4. ASSUME Taken(move.from) PROVE move.name \in Names
  <2>1. PICK f \in Files : at[f] = move.from
    BY <1>4 DEF Taken
  <2>2. CASE move.next = "published"
    <3>1. task.media \in Media
      BY <1>1, <1>2, <2>1, <2>2, AtWhole
    <3>2. QED
      BY <1>2, <2>2, <3>1, FilesAre, NamesAre
  <2>3. CASE move.next = "caption published"
    <3>1. task.media \in Captioned
      BY <1>2, <2>1, <2>3, <1>1, AtCaption DEF HeldCaption
    <3>2. QED
      BY <1>2, <2>3, <3>1, FilesAre, NamesAre
  <2>4. CASE move.next \in {"output", "replacement"}
    <3>1. Head(todo) \in Media
      BY TaskIs, <2>4 DEF Converting
    <3>2. QED
      BY <1>2, <2>4, <3>1, FilesAre, NamesAre
  <2>5. QED
    BY <1>2, <2>2, <2>3, <2>4
<1>5. ASSUME Taken(move.from)
      PROVE  /\ FileAt(move.from) \in Files \ {Placeholder} /\ at[FileAt(move.from)] = move.from
             /\ ~InFolder(FileAt(move.from))
  <2>1. FileAt(move.from) \in Files /\ at[FileAt(move.from)] = move.from
    BY <1>5, FileAtIs
  <2>2. InFolder(Placeholder) \/ at[Placeholder] = Nowhere
    BY <1>1 DEF PlaceInv
  <2>3. QED
    BY <1>3, <2>1, <2>2 DEF InFolder
<1>6. QED
  BY <1>3, <1>4, <1>5

\* In a private place there is the file of that name, or one that has replaced it.
LEMMA YtdlpMoves ==
  ASSUME Base, NEW moved, YtdlpStep(moved)
  PROVE  /\ \A f \in Files : at'[f] = IF f \in DOMAIN moved THEN moved[f] ELSE at[f]
         /\ excused' = excused
BY DEF YtdlpStep

\* yt-dlp writes its files at their places in the staging directory ...
LEMMA FetchAt ==
  ASSUME Base, NEW m \in Media, Fetch(m)
  PROVE  AtInv' /\ FolderKept /\ excused' = excused
<1> DEFINE D == {Stream(m)} \cup (IF Thumbnails THEN {Thumb(m)} ELSE {})
                 \cup (IF m \in Captioned THEN {Caption(m)} ELSE {})
<1> DEFINE moved == [f \in D |-> IF f = Stream(m) THEN In("stage", Part(m)) ELSE In("stage", f)]
<1>1. YtdlpStep(moved) /\ pc = "ytdlp" /\ at[Stream(m)] = Nowhere /\ at[Whole(m)] = Nowhere
      /\ Whole(m) \notin excused
  BY DEF Fetch, YtdlpStep
<1>2. AtInv /\ PlaceInv /\ YtdlpInv /\ OneEach
  BY BaseHas
<1>3. D \subseteq Files /\ Stream(m) \in D
  BY FilesAre
<1>4. /\ \A f \in Files \ D : at'[f] = at[f]
      /\ at'[Stream(m)] = In("stage", Part(m))
      /\ \A f \in D \ {Stream(m)} : at'[f] = In("stage", f)
      /\ excused' = excused
  BY <1>1, <1>3, YtdlpMoves
<1>5. \A f \in D : f = Stream(m) \/ f = Thumb(m) \/ (m \in Captioned /\ f = Caption(m))
  OBVIOUS
<1>6. ASSUME NEW f \in Files PROVE at[f] # In("stage", Part(m)) \/ f = Stream(m)
  <2>1. SUFFICES ASSUME at[f] = In("stage", Part(m)) PROVE f = Stream(m)
    OBVIOUS
  <2>2. PICK k \in Media : f = Stream(k) /\ at[f] \in {In("stage", Part(k)), In("stage", Stream(k))}
    BY <1>2, <2>1, AtOwn, InIs, Kinds
  <2>3. k = m
    BY <2>1, <2>2, InIs, Kinds
  <2>4. QED
    BY <2>2, <2>3
<1>7. ASSUME NEW f \in Files PROVE at[f] # In("stage", Thumb(m)) \/ f = Thumb(m)
  BY <1>2, AtOwn, InIs
<1>8. ASSUME NEW f \in Files, m \in Captioned PROVE at[f] # In("stage", Caption(m)) \/ f = Caption(m)
  <2>1. Caption(m) \notin excused
    BY <1>1, <1>2, <1>8 DEF YtdlpInv
  <2>2. QED
    BY <2>1, <1>2, AtCaption
<1>9. ASSUME NEW f \in Files, NEW d \in D, f # d PROVE at'[f] # at'[d]
  <2>1. CASE f \in D
    BY <1>4, <1>5, <1>9, <2>1, InIs, Kinds
  <2>2. CASE f \notin D
    <3>1. at'[f] = at[f]
      BY <1>4, <2>2
    <3>2. CASE d = Stream(m)
      BY <1>4, <1>6, <1>9, <3>1, <3>2
    <3>3. CASE d = Thumb(m)
      BY <1>4, <1>7, <1>9, <3>1, <3>3, Kinds
    <3>4. CASE m \in Captioned /\ d = Caption(m)
      BY <1>4, <1>8, <1>9, <3>1, <3>4, Kinds
    <3>5. QED
      BY <1>5, <3>2, <3>3, <3>4
  <2>3. QED
    BY <2>1, <2>2
<1>10. OneEach'
  <2>1. SUFFICES ASSUME NEW f \in Files, NEW h \in Files, at'[f] # Nowhere, at'[f] = at'[h]
                 PROVE  f = h
    BY DEF OneEach, Kept, Files, Nowhere
  <2>2. CASE f \in D \/ h \in D
    BY <1>9, <2>1, <2>2
  <2>3. CASE f \notin D /\ h \notin D
    BY <1>2, <1>4, <2>1, <2>3 DEF OneEach, Kept
  <2>4. QED
    BY <2>2, <2>3
<1>11. ASSUME NEW f \in D PROVE Placed(f)'
  <2>1. at'[f] = IF f = Stream(m) THEN In("stage", Part(m)) ELSE In("stage", f)
    BY <1>4, <1>11
  <2>2. CASE f = Stream(m)
    BY <2>1, <2>2 DEF Placed
  <2>3. CASE f = Thumb(m)
    BY <2>1, <2>3, Kinds DEF Placed
  <2>4. CASE m \in Captioned /\ f = Caption(m)
    BY <2>1, <2>4, Kinds DEF Placed
  <2>5. QED
    BY <1>5, <2>2, <2>3, <2>4
<1>12. PlaceInv'
  BY <1>2, <1>4, <1>11, PlaceKept
<1>13. AtType'
  <2>1. \A f \in D : at'[f] \in Places
    BY <1>3, <1>4, FilesAre, NamesAre, InIs DEF Dirs
  <2>2. at' = [f \in Files |-> at'[f]]
    BY <1>1 DEF YtdlpStep
  <2>3. \A f \in Files : at[f] \in Places \cup {Nowhere}
    BY <1>2 DEF AtInv, AtType
  <2>4. \A f \in Files : at'[f] \in Places \cup {Nowhere}
    BY <1>4, <2>1, <2>3
  <2>5. at' \in [Files -> Places \cup {Nowhere}]
    BY <2>2, <2>4
  <2>6. QED
    BY <2>5 DEF AtType, Files, Places, Nowhere
<1>14. FolderKept
  <2>1. \A f \in D : ~InFolder(f)
    BY <1>1, <1>2, <1>3, <1>5, Kinds DEF YtdlpInv
  <2>2. QED
    BY <1>4, <2>1 DEF FolderKept
<1>15. QED
  BY <1>4, <1>10, <1>12, <1>13, <1>14 DEF AtInv

\* The streams get their final name.
LEMMA FinishAt ==
  ASSUME Base, NEW m \in Media, FinishStreams(m)
  PROVE  AtInv' /\ FolderKept /\ excused' = excused /\ Moves(Stream(m), In("stage", Stream(m)), {})
<1>1. YtdlpStep([f \in {Stream(m)} |-> In("stage", f)]) /\ pc = "ytdlp"
      /\ at[Stream(m)] = In("stage", Part(m))
  BY DEF FinishStreams, YtdlpStep
<1>2. AtInv /\ PlaceInv /\ YtdlpInv /\ OneEach
  BY BaseHas
<1>3. Moves(Stream(m), In("stage", Stream(m)), {}) /\ excused' = excused
  BY <1>1 DEF YtdlpStep, Moves
<1>4. ASSUME NEW f \in Files, at[f] = In("stage", Stream(m)) PROVE f = Stream(m)
  <2>2. PICK k \in Media : f = Stream(k) /\ at[f] \in {In("stage", Part(k)), In("stage", Stream(k))}
    BY <1>2, <1>4, AtOwn, InIs, Kinds
  <2>3. k = m
    BY <1>4, <2>2, InIs, Kinds
  <2>4. QED
    BY <2>2, <2>3
<1>5. Stream(m) \in Files /\ In("stage", Stream(m)) \in Places
  BY FilesAre, NamesAre, InIs DEF Dirs
<1>6. Placed(Stream(m))'
  BY <1>3, <1>5 DEF Placed, Moves
<1>7. ~InFolder(Stream(m))
  BY <1>1, InIs DEF InFolder
<1>8. QED
  BY <1>2, <1>3, <1>4, <1>5, <1>6, <1>7, MovesKeep

\* ... merges the streams of an entry into a whole file ...
LEMMA MergeAt ==
  ASSUME Base, NEW m \in Media, Merge(m)
  PROVE  AtInv' /\ FolderKept /\ excused' = excused /\ Moves(Whole(m), Staged(m), {})
<1>1. YtdlpStep([f \in {Whole(m)} |-> Staged(m)]) /\ pc = "ytdlp"
      /\ at[Whole(m)] = Nowhere /\ ~Taken(Staged(m))
  BY DEF Merge, YtdlpStep
<1>2. AtInv
  BY BaseHas
<1>3. Moves(Whole(m), Staged(m), {}) /\ excused' = excused
  BY <1>1 DEF YtdlpStep, Moves
<1>4. Whole(m) \in Files /\ Staged(m) \in Places
  BY FilesAre, NamesAre, InIs DEF Dirs, Staged
<1>5. Placed(Whole(m))'
  BY <1>3, <1>4 DEF Placed, Moves
<1>6. ~InFolder(Whole(m))
  BY <1>1, InIs DEF InFolder
<1>7. QED
  BY <1>1, <1>2, <1>3, <1>4, <1>5, <1>6, MovesKeep DEF Taken

\* ... and removes what it merged.
LEMMA TidyAt ==
  ASSUME Base, NEW m \in Media, Tidy(m)
  PROVE  AtInv' /\ FolderKept /\ excused' = excused /\ at' = Remove({Stream(m), Thumb(m)})
<1>1. YtdlpStep([f \in {Stream(m)} \cup {Thumb(m)} |-> Nowhere]) /\ pc = "ytdlp"
  BY DEF Tidy, YtdlpStep
<1>2. AtInv /\ YtdlpInv
  BY BaseHas
<1>3. at' = Remove({Stream(m), Thumb(m)}) /\ excused' = excused
  BY <1>1 DEF YtdlpStep, Remove
<1>4. ~InFolder(Stream(m)) /\ ~InFolder(Thumb(m))
  BY <1>1, <1>2, FilesAre, Kinds DEF YtdlpInv
<1>5. QED
  BY <1>2, <1>3, <1>4, FilesAre, RemoveKeeps

\* Another program puts a file where there was one of the session, or none.
LEMMA InterfereMoves ==
  ASSUME NEW x \in Foreign, NEW place, NEW victim, Interfere(x, place, victim)
  PROVE  /\ at[x] = Nowhere /\ x \notin excused
         /\ Moves(x, place, {victim}) /\ excused \subseteq excused'
         /\ victim # x => excused' = excused \cup {victim}
         /\ victim = x => excused' = excused
         /\ UNCHANGED <<choice, stage, session, pc, todo, task, move, sweep, faults>>
BY DEF Interfere, Moves

\* What a stranger replaces.
LEMMA ReplaceIs ==
  ASSUME Base, NEW x \in Foreign, Replace(x)
  PROVE  \E victim \in Files :
           /\ Interfere(x, at[victim], victim) /\ root = "stage" /\ victim # x
           /\ victim \notin Foreign /\ victim # Placeholder
           /\ \/ \E m \in Media : victim = Whole(m) /\ at[victim] = Staged(m)
              \/ \E m \in Captioned : victim = Caption(m) /\ at[victim] = In("stage", Caption(m))
<1>1. PICK victim \in FilesIn({"stage"}) :
        /\ victim[1] \in {"media", "caption"} /\ root = "stage"
        /\ Interfere(x, at[victim], victim)
  BY DEF Replace
<1>2. victim \in Files /\ at[victim].dir = "stage" /\ PlaceInv
  BY BaseHas DEF FilesIn
<1>3. victim \notin Foreign /\ victim # Placeholder
  BY <1>1, Kinds
<1>4. at[victim] # Nowhere /\ ~InFolder(victim)
  BY <1>2, InIs DEF InFolder
<1>5. CASE \E m \in Media : victim = Whole(m)
  BY <1>1, <1>2, <1>3, <1>4, <1>5, InIs DEF PlaceInv, WholeAt, Held
<1>6. CASE \E m \in Captioned : victim = Caption(m)
  BY <1>1, <1>2, <1>3, <1>4, <1>6, InIs DEF PlaceInv, CaptionAt
<1>7. QED
  BY <1>1, <1>2, <1>3, <1>5, <1>6, KindOf, Kinds

\* Another program puts its file in the place of one ...
LEMMA ReplaceAt ==
  ASSUME Base, NEW x \in Foreign, Replace(x)
  PROVE  AtInv' /\ FolderKept /\ excused \subseteq excused'
<1>1. PICK victim \in Files :
           /\ Interfere(x, at[victim], victim) /\ root = "stage" /\ victim # x
           /\ \/ \E m \in Media : victim = Whole(m) /\ at[victim] = Staged(m)
              \/ \E m \in Captioned : victim = Caption(m) /\ at[victim] = In("stage", Caption(m))
  BY ReplaceIs
<1>2. /\ at[x] = Nowhere /\ Moves(x, at[victim], {victim}) /\ excused' = excused \cup {victim}
  BY <1>1, InterfereMoves
<1>3. AtInv /\ OneEach /\ x \in Files
  BY BaseHas, FilesAre
<1>4. at[victim] \in Places /\ ~InFolder(victim) /\ ~InFolder(x)
  <2>1. at[victim] \in Places \cup {Nowhere}
    BY <1>3 DEF AtInv, AtType
  <2>2. at[victim].dir = "stage"
    BY <1>1, InIs DEF Staged
  <2>3. QED
    BY <2>1, <2>2, <1>2, InIs DEF InFolder
<1>5. at'[x] = at[victim]
  BY <1>2, <1>3 DEF Moves
<1>6. Placed(x)'
  BY <1>1, <1>2, <1>5 DEF Placed, Foreign
<1>7. \A f \in Files \ {x, victim} : at[f] # at[victim]
  BY <1>3, <1>4, PlacesAre DEF OneEach, Kept
<1>8. QED
  BY <1>2, <1>3, <1>4, <1>6, <1>7, MovesKeep

\* ... or at a free place of the staging directory ...
LEMMA DepositAt ==
  ASSUME Base, NEW x \in Foreign, Deposit(x)
  PROVE  AtInv' /\ FolderKept /\ excused \subseteq excused'
<1>1. at[x] = Nowhere /\ Moves(x, In("stage", x), {x}) /\ excused' = excused
  BY InterfereMoves DEF Deposit
<1>2. AtInv /\ PlaceInv /\ x \in Files /\ In("stage", x) \in Places
  BY BaseHas, FilesAre, NamesAre, InIs DEF Dirs
<1>3. \A f \in Files : at[f] = In("stage", x) => f = x
  BY <1>2, AtOwn, InIs
<1>4. at'[x] = In("stage", x)
  BY <1>1, <1>2 DEF Moves
<1>5. Placed(x)'
  BY <1>4 DEF Placed, Foreign
<1>6. ~InFolder(x)
  BY <1>1, InIs DEF InFolder
<1>7. QED
  BY <1>1, <1>2, <1>3, <1>5, <1>6, MovesKeep

\* ... or of the download folder.
LEMMA SquatAt ==
  ASSUME Base, NEW x \in Foreign, Squat(x)
  PROVE  /\ AtInv' /\ FolderKept /\ excused \subseteq excused'
         /\ \E p \in Places : p.dir = "download" /\ Moves(x, p, {x})
<1>1. PICK f \in ({"media", "output"} \X Media) : \E place \in FreePlaces(f) : Interfere(x, place, x)
  BY DEF Squat
<1>2. PICK place \in FreePlaces(f) : Interfere(x, place, x)
  BY <1>1
<1>3. f \in Names
  BY DEF Names, Files
<1>4. place \in Places /\ place.dir = "download" /\ ~Taken(place)
  BY <1>3, <1>2, FreeIs
<1>5. at[x] = Nowhere /\ Moves(x, place, {x}) /\ excused' = excused
  BY <1>2, InterfereMoves
<1>6. AtInv /\ x \in Files
  BY BaseHas, FilesAre
<1>7. ~InFolder(x) /\ \A h \in Files : at[h] # place
  BY <1>4, <1>5, InIs DEF InFolder, Taken
<1>8. QED
  BY <1>4, <1>5, <1>6, <1>7, MovesKeep

-----------------------------------------------------------------------------
(* Installs                                                                *)

\* A file is renamed to a place that is free or that the placeholder holds.
LEMMA RenameAt ==
  ASSUME Base, pc \in MovePcs, Taken(move.from), excused' = excused,
         NEW to \in Places, to.dir = "download", ~Taken(to) \/ at[Placeholder] = to,
         Rename(to)
  PROVE  /\ AtInv' /\ FolderKept
         /\ \E R \in SUBSET {Placeholder} : Moves(FileAt(move.from), to, R)
<1> DEFINE g == FileAt(move.from)
           R == {f \in Files : at[f] = to}
<1>1. AtInv /\ OneEach
  BY BaseHas
<1>2. /\ g \in Files \ {Placeholder} /\ at[g] = move.from /\ ~InFolder(g)
      /\ move.from # Nowhere
  BY FromIs
<1>3. to # Nowhere
  BY PlacesAre
<1>4. \A f \in Files : at[f] = move.from <=> f = g
  BY <1>1, <1>2 DEF OneEach, Kept
<1>5. at' = [f \in Files |-> IF at[f] = move.from THEN to
                             ELSE IF at[f] = to THEN Nowhere ELSE at[f]]
  BY DEF Rename
<1> HIDE DEF g
<1>6. Moves(g, to, R)
  BY <1>4, <1>5 DEF Moves
<1>7. R \subseteq {Placeholder}
  BY <1>1, <1>3, FilesAre DEF Taken, OneEach, Kept
<1>8. R \in SUBSET Files /\ \A f \in Files \ (R \cup {g}) : at[f] # to
  OBVIOUS
<1>9. AtInv' /\ FolderKept
  BY <1>1, <1>2, <1>6, <1>7, <1>8, MovesKeep
<1>10. QED
  BY <1>6, <1>7, <1>9 DEF g

\* An exclusive rename moves the file to an empty place of the folder.
LEMMA MoveFlaggedAt ==
  ASSUME Base, MoveFlagged, excused' = excused
  PROVE  /\ AtInv' /\ FolderKept
         /\ \E to \in Places, R \in SUBSET {Placeholder} :
              Rename(to) /\ to.dir = "download" /\ Moves(FileAt(move.from), to, R)
<1>1. PICK place \in FreePlaces(move.name) : Rename(place)
  BY DEF MoveFlagged
<1>2. pc \in MovePcs /\ Taken(move.from)
  BY DEF MoveFlagged, MovePcs
<1>3. move.name \in Names
  BY <1>2, FromIs
<1>4. place \in Places /\ place.dir = "download" /\ ~Taken(place)
  BY <1>3, FreeIs
<1>5. QED
  BY <1>1, <1>2, <1>4, RenameAt

\* Without it a placeholder takes the place first ...
LEMMA ReserveAt ==
  ASSUME Base, Reserve, excused' = excused
  PROVE  /\ AtInv' /\ FolderKept
         /\ \E to \in Places : /\ to.dir = "download" /\ Moves(Placeholder, to, {})
                               /\ move' = [move EXCEPT !.to = to]
<1>1. PICK place \in FreePlaces(move.name) :
        at' = [at EXCEPT ![Placeholder] = place] /\ move' = [move EXCEPT !.to = place]
  BY DEF Reserve
<1>2. pc \in MovePcs /\ Taken(move.from)
  BY DEF Reserve, MovePcs
<1>3. move.name \in Names
  BY <1>2, FromIs
<1>4. place \in Places /\ place.dir = "download" /\ ~Taken(place)
  BY <1>3, FreeIs
<1>5. AtInv /\ Placeholder \in Files
  BY BaseHas, FilesAre
<1>6. Moves(Placeholder, place, {})
  BY <1>1, <1>5 DEF Moves, AtInv, AtType
<1>7. \A f \in Files : at[f] # place
  BY <1>4 DEF Taken
<1>8. QED
  BY <1>1, <1>4, <1>5, <1>6, <1>7, MovesKeep

\* ... and gives it to the file, or is removed.
LEMMA RenameReservedAt ==
  ASSUME Base, RenameReserved, excused' = excused
  PROVE  /\ AtInv' /\ FolderKept
         /\ \/ \E to \in Places, R \in SUBSET {Placeholder} :
                 /\ Taken(move.from) /\ Rename(to) /\ to.dir = "download"
                 /\ Moves(FileAt(move.from), to, R)
            \/ /\ at' = Remove({Placeholder}) /\ Moved("failed", Placeholder)
               /\ IF Taken(move.from) THEN Fault ELSE NoFault
<1>1. pc = "rename" /\ pc \in MovePcs
  BY DEF RenameReserved, MovePcs
<1>2. AtInv /\ MoveInv /\ Placeholder \in Files
  BY BaseHas, FilesAre
<1>3. at[Placeholder] = move.to /\ move.to.dir = "download" /\ move.to \in Places
  BY <1>1, <1>2 DEF MoveInv
<1>4. CASE Taken(move.from) /\ Rename(move.to)
  BY <1>1, <1>3, <1>4, RenameAt
<1>5. CASE /\ at' = [at EXCEPT ![Placeholder] = Nowhere] /\ Moved("failed", Placeholder)
           /\ IF Taken(move.from) THEN Fault ELSE NoFault
  <2>1. at' = Remove({Placeholder})
    BY <1>2, <1>5 DEF Remove, AtInv, AtType
  <2>2. QED
    BY <1>2, <1>5, <2>1, RemoveKeeps
<1>6. QED
  BY <1>4, <1>5 DEF RenameReserved

-----------------------------------------------------------------------------
(* Captions, conversions and originals                                     *)

\* A caption goes from its place to the private directory, or back.
LEMMA CaptionAtKept ==
  ASSUME Base, excused' = excused, NEW m,
         NEW g \in Files, at[g] \in {In("stage", Caption(m)), In("held", Caption(m))},
         NEW p \in {In("stage", Caption(m)), In("held", Caption(m))}, ~Taken(p),
         at' = [at EXCEPT ![g] = p]
  PROVE  AtInv' /\ FolderKept /\ m \in Captioned /\ Moves(g, p, {})
<1>1. AtInv /\ PlaceInv
  BY BaseHas
<1>2. m \in Captioned /\ (g = Caption(m) \/ (g \in Foreign /\ Caption(m) \in excused))
  BY <1>1, AtCaption
<1>3. p \in Places
  BY <1>2, FilesAre, NamesAre, InIs DEF Dirs
<1>4. Moves(g, p, {})
  BY <1>1 DEF Moves, AtInv, AtType
<1>5. at'[g] = p
  BY <1>1 DEF AtInv, AtType
<1>6. Placed(g)'
  BY <1>2, <1>5 DEF Placed, Foreign
<1>7. \A f \in Files : at[f] # p
  BY DEF Taken
<1>8. ~InFolder(g)
  BY InIs DEF InFolder
<1>9. QED
  BY <1>1, <1>2, <1>3, <1>4, <1>6, <1>7, <1>8, MovesKeep

\* A caption is set aside ...
LEMMA QuarantineAt ==
  ASSUME Base, QuarantineCaption
  PROVE  /\ AtInv' /\ FolderKept /\ excused' = excused
         /\ task.media \in Captioned /\ at[FileAt(CaptionPlace)] = CaptionPlace
         /\ Moves(FileAt(CaptionPlace), HeldCaption, {})
<1>1. /\ Taken(CaptionPlace) /\ at' = [at EXCEPT ![FileAt(CaptionPlace)] = HeldCaption]
      /\ excused' = excused
  BY DEF QuarantineCaption
<1>2. FileAt(CaptionPlace) \in Files /\ at[FileAt(CaptionPlace)] = CaptionPlace
  BY <1>1, FileAtIs
<1>3. task.media \in Captioned
  BY <1>2, BaseHas, AtCaption DEF CaptionPlace
<1>4. ~Taken(HeldCaption)
  BY <1>1, <1>3, BaseHas DEF HeldInv, CaptionPlace, HeldCaption
<1>5. QED
  BY <1>1, <1>2, <1>3, <1>4, CaptionAtKept DEF CaptionPlace, HeldCaption

\* ... and put back only where nothing has taken its place.
LEMMA RestoredAt ==
  ASSUME Base, at' = Restored, excused' = excused
  PROVE  /\ AtInv' /\ FolderKept
         /\ \/ at' = at
            \/ /\ Taken(HeldCaption) /\ ~Taken(CaptionPlace) /\ task.media \in Captioned
               /\ at[FileAt(HeldCaption)] = HeldCaption
               /\ Moves(FileAt(HeldCaption), CaptionPlace, {})
<1>1. CASE Taken(HeldCaption) /\ ~Taken(CaptionPlace)
  <2>1. at' = [at EXCEPT ![FileAt(HeldCaption)] = CaptionPlace]
    BY <1>1 DEF Restored
  <2>2. FileAt(HeldCaption) \in Files /\ at[FileAt(HeldCaption)] = HeldCaption
    BY <1>1, FileAtIs
  <2>3. QED
    BY <1>1, <2>1, <2>2, CaptionAtKept DEF CaptionPlace, HeldCaption
<1>2. CASE ~(Taken(HeldCaption) /\ ~Taken(CaptionPlace))
  BY <1>2, BaseHas, SameKeeps DEF Restored
<1>3. QED
  BY <1>1, <1>2

\* ffmpeg writes a file of its own.
LEMMA ConvertAt ==
  ASSUME Base, pc = "convert", todo # <<>>, excused' = excused, NEW m, m = Head(todo),
         at' = [at EXCEPT ![Output(m)] = In("convert", Output(m))]
  PROVE  /\ AtInv' /\ FolderKept /\ m \in Media
         /\ Moves(Output(m), In("convert", Output(m)), {})
         /\ at[Output(m)] = Nowhere
<1> DEFINE g == Output(m)
           p == In("convert", g)
<1>1. AtInv /\ PlaceInv /\ TodoInv /\ OutputInv
  BY BaseHas
<1>2. m \in Media /\ m \in Entries(todo)
  BY <1>1, ReportedIn
<1>3. g \in Files /\ p \in Places
  BY <1>2, FilesAre, NamesAre, InIs DEF Dirs
<1>4. ~Converting
  BY DEF Converting, Publishing, ConvertPcs, CaptionPcs, MovePcs
<1>5. at[g] = Nowhere
  BY <1>1, <1>2, <1>4 DEF OutputInv, Rest
<1>6. Moves(g, p, {})
  BY <1>1 DEF Moves, AtInv, AtType
<1>7. at'[g] = p
  BY <1>3, <1>6 DEF Moves
<1>8. Placed(g)'
  BY <1>2, <1>7 DEF Placed
<1>9. ASSUME NEW f \in Files, at[f] = p PROVE FALSE
  <2>1. PICK k \in Media : f = Output(k) /\ at[f] = In("convert", Output(k))
    BY <1>1, <1>9, AtOwn, InIs
  <2>2. k = m
    BY <1>9, <2>1, InIs, Kinds
  <2>3. QED
    BY <1>5, <1>9, <2>1, <2>2, <1>3, InIs
<1>10. ~InFolder(g)
  BY <1>5, InIs DEF InFolder
<1>11. QED
  BY <1>1, <1>2, <1>3, <1>5, <1>6, <1>8, <1>9, <1>10, MovesKeep

\* Only the temporary file of the conversion is removed.
LEMMA RemoveTempAt ==
  ASSUME Base, NEW m, excused' = excused, at' = RemoveTemp(m)
  PROVE  /\ AtInv' /\ FolderKept
         /\ \/ at' = at
            \/ /\ m \in Media /\ at[Output(m)] = In("convert", Output(m))
               /\ at' = Remove({Output(m)})
<1>1. AtInv /\ PlaceInv
  BY BaseHas
<1>2. CASE Output(m) \in Files /\ at[Output(m)] = In("convert", Output(m))
  <2>1. at' = Remove({Output(m)})
    BY <1>1, <1>2 DEF RemoveTemp, Remove, AtInv, AtType
  <2>2. ~InFolder(Output(m))
    BY <1>2, InIs DEF InFolder
  <2>3. PICK k \in Media : Output(m) = Output(k)
    BY <1>1, <1>2, AtOwn, InIs
  <2>4. m \in Media
    BY <2>3, Kinds
  <2>5. QED
    BY <1>1, <1>2, <2>1, <2>2, <2>4, RemoveKeeps
<1>3. CASE ~(Output(m) \in Files /\ at[Output(m)] = In("convert", Output(m)))
  <2>1. at' = at
    BY <1>1, <1>3 DEF RemoveTemp, AtInv, AtType
  <2>2. QED
    BY <1>1, <2>1, SameKeeps
<1>4. QED
  BY <1>2, <1>3

\* An original on its way out.
LEMMA RetireAt ==
  ASSUME Base, excused' = excused, NEW m, Taken(Staged(m)),
         at' = [at EXCEPT ![FileAt(Staged(m))] = Held(m)]
  PROVE  /\ AtInv' /\ FolderKept /\ m \in Media /\ at[FileAt(Staged(m))] = Staged(m)
         /\ FileAt(Staged(m)) \in Files /\ Moves(FileAt(Staged(m)), Held(m), {})
<1> PICK g : g = FileAt(Staged(m))
  OBVIOUS
<1>1. AtInv /\ PlaceInv /\ HeldInv
  BY BaseHas
<1>2. g \in Files /\ at[g] = Staged(m)
  BY FileAtIs
<1>3. m \in Media /\ (g = Whole(m) \/ (g \in Foreign /\ Whole(m) \in excused))
  BY <1>1, <1>2, AtWhole
<1>4. Moves(g, Held(m), {}) /\ at'[g] = Held(m)
  BY <1>1, <1>2 DEF Moves, AtInv, AtType
<1>5. Placed(g)'
  BY <1>3, <1>4 DEF Placed, Foreign
<1>6. \A f \in Files : at[f] # Held(m)
  BY <1>1, <1>3 DEF HeldInv, Taken
<1>7. Held(m) \in Places /\ ~InFolder(g)
  BY <1>2, <1>3, FilesAre, NamesAre, InIs DEF Dirs, Held, Staged, InFolder
<1>8. QED
  BY <1>1, <1>2, <1>3, <1>4, <1>5, <1>6, <1>7, MovesKeep

\* The original that was set aside is deleted.
LEMMA RetiredAt ==
  ASSUME Base, excused' = excused, NEW m, Taken(Held(m)), at' = [at EXCEPT ![FileAt(Held(m))] = Nowhere]
  PROVE  /\ AtInv' /\ FolderKept /\ m \in Media /\ at[FileAt(Held(m))] = Held(m)
         /\ FileAt(Held(m)) \in Files /\ at' = Remove({FileAt(Held(m))})
<1>1. AtInv /\ PlaceInv
  BY BaseHas
<1>2. FileAt(Held(m)) \in Files /\ at[FileAt(Held(m))] = Held(m)
  BY FileAtIs
<1>3. m \in Media
  BY <1>1, <1>2, AtWhole
<1>4. at' = Remove({FileAt(Held(m))})
  BY <1>1, <1>2 DEF Remove, AtInv, AtType
<1>5. ~InFolder(FileAt(Held(m)))
  BY <1>2, InIs DEF InFolder, Held
<1>6. QED
  BY <1>1, <1>2, <1>3, <1>4, <1>5, RemoveKeeps

-----------------------------------------------------------------------------
(* The end of the directory                                                *)

\* The files of the staging directory are those in its three directories.
LEMMA StageFilesAre ==
  /\ StageFiles \subseteq Files /\ \A f \in StageFiles : ~InFolder(f)
  /\ \A f \in Files : f \in StageFiles <=> at[f].dir \in {"stage", "held", "convert"}
BY DEF StageFiles, FilesIn, InFolder

\* The directory is removed as a whole, in part, or put back.
LEMMA VerifyAt ==
  ASSUME Base, Verify
  PROVE  /\ AtInv' /\ FolderKept /\ excused' = excused
         /\ \/ at' = at /\ (root' = root \/ root' = "stage")
            \/ \E R \in SUBSET StageFiles :
                 Verified /\ at' = Remove(R) /\ (root' = root \/ (root' = "gone" /\ R = StageFiles))
<1>1. AtInv /\ excused' = excused
  BY BaseHas DEF Verify
<1>2. CASE at' = at /\ (root' = root \/ root' = "stage")
  BY <1>1, <1>2, SameKeeps
<1>3. ASSUME NEW R \in SUBSET StageFiles, at' = Remove(R) PROVE AtInv' /\ FolderKept
  BY <1>1, <1>3, StageFilesAre, RemoveKeeps
<1>4. \/ at' = at /\ (root' = root \/ root' = "stage")
      \/ \E R \in SUBSET StageFiles :
           Verified /\ at' = Remove(R) /\ (root' = root \/ (root' = "gone" /\ R = StageFiles))
  BY DEF Verify
<1>5. QED
  BY <1>1, <1>2, <1>3, <1>4

\* The sweep leaves a file, removes it or installs it.
LEMMA SweepOneAt ==
  ASSUME Base, NEW q \in Places, SweepOne(q)
  PROVE  /\ AtInv' /\ FolderKept /\ excused' = excused /\ q.dir \in {"stage", "held", "convert"}
         /\ \/ at' = at
            \/ /\ FileAt(q) \in Files /\ at[FileAt(q)] = q
               /\ \/ Unwanted(q) /\ at' = Remove({FileAt(q)})
                  \/ \E p \in Places : p.dir = "download" /\ Moves(FileAt(q), p, {})
<1>1. AtInv /\ SweepInv /\ excused' = excused
  BY BaseHas DEF SweepOne, SweepKeeps
<1>2. q.dir \in {"stage", "held", "convert"}
  BY <1>1 DEF SweepInv, SweepOne
<1>3. CASE at' = at
  BY <1>1, <1>2, <1>3, SameKeeps
<1>4. CASE /\ Taken(q)
           /\ IF Unwanted(q) THEN at' = Remove({FileAt(q)})
              ELSE \E free \in FreePlaces(q.name) : at' = [at EXCEPT ![FileAt(q)] = free]
  <2>1. FileAt(q) \in Files /\ at[FileAt(q)] = q /\ ~InFolder(FileAt(q))
    BY <1>2, <1>4, FileAtIs DEF InFolder
  <2>2. CASE at' = Remove({FileAt(q)}) /\ Unwanted(q)
    BY <1>1, <1>2, <2>1, <2>2, RemoveKeeps
  <2>3. ASSUME NEW p \in FreePlaces(q.name), at' = [at EXCEPT ![FileAt(q)] = p]
        PROVE  AtInv' /\ FolderKept /\ p \in Places /\ p.dir = "download" /\ Moves(FileAt(q), p, {})
    <3>1. p \in Places /\ p.dir = "download" /\ ~Taken(p)
      BY PlacesAre, FreeIs
    <3>2. Moves(FileAt(q), p, {})
      BY <1>1, <2>3 DEF Moves, AtInv, AtType
    <3>3. \A f \in Files : at[f] # p
      BY <3>1 DEF Taken
    <3>4. QED
      BY <1>1, <2>1, <3>1, <3>2, <3>3, MovesKeep
  <2>4. QED
    BY <1>1, <1>2, <1>4, <2>1, <2>2, <2>3
<1>5. QED
  BY <1>3, <1>4 DEF SweepOne

\* Every step leaves the files well placed and those of the folder where they are.
LEMMA AtStep ==
  ASSUME Base, [Next]_vars
  PROVE  AtInv' /\ FolderKept /\ excused \subseteq excused'
<1> USE SameKeeps, BaseHas
<1>1. ASSUME NEW m \in Media, Fetch(m) \/ FinishStreams(m) \/ Merge(m) \/ Tidy(m)
      PROVE  AtInv' /\ FolderKept /\ excused \subseteq excused'
  BY <1>1, FetchAt, FinishAt, MergeAt, TidyAt
<1>2. ASSUME NEW m \in Media, ReportFinished(m)
      PROVE  AtInv' /\ FolderKept /\ excused \subseteq excused'
  BY <1>2 DEF ReportFinished
<1>3. ASSUME NEW u \in BOOLEAN, NEW d \in BOOLEAN, YtdlpExits(u, d)
      PROVE  AtInv' /\ FolderKept /\ excused \subseteq excused'
  BY <1>3 DEF YtdlpExits, Snapshot
<1>4. ASSUME NEW x \in Foreign, Replace(x) \/ Deposit(x) \/ Squat(x)
      PROVE  AtInv' /\ FolderKept /\ excused \subseteq excused'
  BY <1>4, ReplaceAt, DepositAt, SquatAt
<1>5. CASE CancelSession
  BY <1>5 DEF CancelSession
<1>6. CASE HandOff
  BY <1>6 DEF HandOff
<1>7. CASE MoveFile
  BY <1>7, MoveFlaggedAt, ReserveAt, RenameReservedAt DEF MoveFile, MoveFails, MoveKeeps
<1>8. CASE Published
  BY <1>8 DEF Published
<1>9. CASE TakeCaption
  BY <1>9 DEF TakeCaption
<1>10. CASE QuarantineCaption
  BY <1>10, QuarantineAt
<1>11. CASE CheckCaption
  BY <1>11, RestoredAt DEF CheckCaption
<1>12. CASE CaptionPublished
  BY <1>12, RestoredAt DEF CaptionPublished
<1>13. CASE InstallNext
  BY <1>13 DEF InstallNext
<1>14. CASE PublishPending
  BY <1>14 DEF PublishPending
<1>15. CASE ConvertNext
  BY <1>15, ConvertAt DEF ConvertNext
<1>16. CASE FfmpegEnds
  BY <1>16, RemoveTempAt DEF FfmpegEnds
<1>17. CASE OutputInstalled
  BY <1>17, RemoveTempAt DEF OutputInstalled
<1>18. CASE CaptionFallback
  BY <1>18 DEF CaptionFallback
<1>19. CASE Converted
  BY <1>19 DEF Converted
<1>20. CASE Decide
  BY <1>20 DEF Decide
<1>21. CASE Retire
  BY <1>21, RetireAt DEF Retire
<1>22. CASE CheckRetired
  <2>1. Taken(Held(Head(todo)))
    BY <1>22 DEF HandInv, CheckRetired
  <2>2. QED
    BY <1>22, <2>1, RetiredAt DEF CheckRetired
<1>23. CASE ReplacementInstalled
  BY <1>23 DEF ReplacementInstalled
<1>24. CASE Drop
  BY <1>24 DEF Drop
<1>25. CASE Verify
  BY <1>25, VerifyAt
<1>26. CASE Stops
  BY <1>26 DEF Stops
<1>27. CASE SweepBegins
  BY <1>27 DEF SweepBegins, SweepKeeps
<1>28. CASE SweepEnds
  BY <1>28 DEF SweepEnds, SweepKeeps
<1>29. CASE SweepDies
  BY <1>29 DEF SweepDies, SweepKeeps
<1>30. ASSUME NEW q \in Places, SweepOne(q)
       PROVE  AtInv' /\ FolderKept /\ excused \subseteq excused'
  BY <1>30, SweepOneAt
<1>31. CASE UNCHANGED vars
  BY <1>31 DEF vars
<1>32. QED
  BY <1>1, <1>2, <1>3, <1>4, <1>5, <1>6, <1>7, <1>8, <1>9, <1>10, <1>11, <1>12, <1>13, <1>14,
     <1>15, <1>16, <1>17, <1>18, <1>19, <1>20, <1>21, <1>22, <1>23, <1>24, <1>25, <1>26,
     <1>27, <1>28, <1>29, <1>30, <1>31
     DEF Next, Ytdlp, Stranger, Worker, Publishes, Sweep

-----------------------------------------------------------------------------
(* What the steps do to the worker                                         *)

IsMove(r) == r = [from |-> r.from, to |-> r.to, name |-> r.name, next |-> r.next,
                  result |-> r.result, file |-> r.file]

\* What an install begins with ...
LEMMA InstallIs ==
  ASSUME NEW from, NEW name, NEW next, Install(from, name, next)
  PROVE  /\ move' = [from |-> from, to |-> Nowhere, name |-> name, next |-> next,
                     result |-> "ok", file |-> Placeholder]
         /\ move'.from = from /\ move'.name = name /\ move'.next = next
         /\ pc' = "move" /\ UNCHANGED <<choice, root, recorded, cancelled>>
BY DEF Install, Goto, NoMove

\* ... the one of a publication, too ...
LEMMA PublishIs ==
  ASSUME NEW m, NEW c, NEW i, NEW fails, NEW next, Publish(m, c, i, fails, next)
  PROVE  /\ task'.media = m /\ task'.next = next /\ task'.installing = i /\ task'.fails = fails
         /\ move'.from = Staged(m) /\ move'.name = Whole(m) /\ move'.next = "published"
         /\ pc' = "move" /\ UNCHANGED <<choice, root, recorded, cancelled>>
BY InstallIs DEF Publish

\* ... and how it ends.
LEMMA MovedIs ==
  ASSUME MoveInv, NEW result, NEW file, Moved(result, file)
  PROVE  /\ move'.from = move.from /\ move'.to = move.to /\ move'.name = move.name
         /\ move'.next = move.next /\ move'.result = result /\ move'.file = file
         /\ pc' = move.next /\ UNCHANGED <<choice, root, recorded, cancelled>>
<1>1. IsMove(move)
  BY DEF MoveInv, IsMove
<1>2. move' = [move EXCEPT !.result = result, !.file = file]
  BY DEF Moved
<1>3. /\ move'.from = move.from /\ move'.to = move.to /\ move'.name = move.name
      /\ move'.next = move.next /\ move'.result = result /\ move'.file = file
  BY <1>1, <1>2 DEF IsMove
<1>4. QED
  BY <1>3 DEF Moved, Goto

\* Another operation fails, or none.
LEMMA FaultIs ==
  ASSUME DataInv
  PROVE  /\ faults \in Nat /\ MaxFaults \in Nat
         /\ Fault => faults' = faults + 1 /\ faults' \in 0 .. MaxFaults /\ faults' > 0
         /\ NoFault => faults' = faults /\ faults' \in 0 .. MaxFaults
BY PublicationAssumption DEF DataInv, Flags, Fault, NoFault

\* The worker's variables keep their types.
LEMMA FlagsStep ==
  ASSUME Base, [Next]_vars
  PROVE  Flags'
<1>0. Flags
  BY BaseHas DEF DataInv
<1>a1. Fault \/ NoFault => faults' \in 0 .. MaxFaults
  BY BaseHas, FaultIs
<1>a2. /\ Publishing => task.media \in Media
       /\ Converting => Head(todo) \in Media
  BY TaskIs
<1>a3. ResultInv
  BY BaseHas
<1> USE <1>0, <1>a1 DEF Flags
<1>1. ASSUME NEW m \in Media, Fetch(m) \/ FinishStreams(m) \/ Merge(m) \/ Tidy(m)
     PROVE  Flags'
  BY <1>1 DEF Fetch, FinishStreams, Merge, Tidy, YtdlpStep, stage, session
<1>2. ASSUME NEW x \in Foreign, Deposit(x) \/ Squat(x)
     PROVE  Flags'
  BY <1>2, InterfereMoves, FilesAre DEF Squat, Deposit, stage, session
<1>3. CASE \/ CancelSession \/ HandOff \/ Converted
  BY <1>3 DEF CancelSession, HandOff, Converted, Goto, session, stage
<1>4. CASE \/ Drop \/ Verify \/ Stops
  BY <1>4 DEF Drop, Verify, Stops, Goto, session
<1>5. CASE \/ SweepBegins \/ SweepEnds \/ SweepDies
  BY <1>5 DEF SweepBegins, SweepEnds, SweepDies, SweepOne, SweepKeeps, session
<1>6. ASSUME NEW q \in Places, SweepOne(q)
     PROVE  Flags'
  BY <1>6 DEF SweepBegins, SweepEnds, SweepDies, SweepOne, SweepKeeps, session
<1>7. CASE \/ InstallNext \/ PublishPending \/ ConvertNext \/ FfmpegEnds
           \/ CaptionFallback \/ Decide
  BY <1>7, PublishIs, InstallIs DEF InstallNext, PublishPending, CaptionFallback,
     Decide, ConvertNext, FfmpegEnds, Goto
<1>8. CASE \/ (MoveFails /\ MoveKeeps) \/ (MoveFlagged /\ MoveKeeps)
           \/ (Reserve /\ MoveKeeps) \/ (RenameReserved /\ MoveKeeps)
  BY <1>8, BaseHas, MovedIs DEF MoveKeeps, MoveFails, MoveFlagged, Reserve,
     RenameReserved, Rename, Goto
<1>9. ASSUME NEW m \in Media, ReportFinished(m) PROVE Flags'
  BY <1>9 DEF ReportFinished, Goto, stage, session
<1>10. ASSUME NEW u \in BOOLEAN, NEW d \in BOOLEAN, YtdlpExits(u, d) PROVE Flags'
  <2>1. UNCHANGED <<choice, completed, failed, cancelled>>
    BY <1>10 DEF YtdlpExits, Goto
  <2>2. PICK valid \in BOOLEAN :
          /\ IF valid THEN NoFault ELSE Fault
          /\ Snapshot(valid)
          /\ preserve' = \/ ~valid
                         \/ /\ Finished = {}
                            /\ \/ u /\ d /\ ~cancelled
                               \/ ~NothingOfWorth(d)
    BY <1>10 DEF YtdlpExits
  <2>3. faults' \in 0 .. MaxFaults
    BY <2>2
  <2>4. preserve' \in BOOLEAN
    BY <2>2
  <2>5. known' \in BOOLEAN /\ excused' \subseteq Files
    BY <2>2, FilesAre DEF Snapshot
  <2>6. QED
    BY <2>1, <2>3, <2>4, <2>5
<1>11. ASSUME NEW x \in Foreign, Replace(x) PROVE Flags'
  <2>1. PICK victim \in Files : Interfere(x, at[victim], victim)
    BY <1>11, ReplaceIs
  <2>2. /\ UNCHANGED <<choice, faults, completed, failed, known, preserve, cancelled>>
        /\ excused' \subseteq excused \cup {victim}
    BY <2>1, InterfereMoves DEF stage, session
  <2>3. QED
    BY <2>1, <2>2
<1>12. CASE Published
  BY <1>12, <1>a2, <1>a3 DEF Published, Ends, Publishing, ResultInv, Goto
<1>13. CASE TakeCaption
  BY <1>13, <1>a2 DEF TakeCaption, CaptionFails, Publishing, CaptionPcs, Goto
<1>14. CASE QuarantineCaption
  BY <1>14 DEF QuarantineCaption, Goto, stage, session
<1>15. CASE CheckCaption
  BY <1>15, <1>a2, InstallIs DEF CheckCaption, CaptionFails, Publishing, CaptionPcs,
     Goto
<1>16. CASE CaptionPublished
  BY <1>16, <1>a2 DEF CaptionPublished, CaptionFails, Publishing, CaptionPcs, Goto
<1>17. CASE OutputInstalled
  <2>1. Head(todo) \in Media
    BY <1>17, <1>a2 DEF OutputInstalled, Converting, ConvertPcs
  <2>2. /\ UNCHANGED <<known, preserve, faults, excused, failed>>
        /\ completed' \subseteq completed \cup {Output(Head(todo))}
    BY <1>17 DEF OutputInstalled
  <2>3. UNCHANGED <<choice, cancelled>>
    BY <1>17, PublishIs DEF OutputInstalled, Goto
  <2>4. QED
    BY <2>1, <2>2, <2>3, FilesAre
<1>18. CASE Retire
  <2>1. Head(todo) \in Media
    BY <1>18, <1>a2 DEF Retire, Converting, ConvertPcs
  <2>2. UNCHANGED <<choice, cancelled, known, excused, completed>>
    BY <1>18 DEF Retire, Goto
  <2>3. faults' \in 0 .. MaxFaults /\ failed' \subseteq failed \cup {Head(todo)}
    BY <1>18 DEF Retire, Taken
  <2>4. preserve' \in BOOLEAN
    BY <1>18 DEF Retire, Taken
  <2>5. QED
    BY <2>1, <2>2, <2>3, <2>4
<1>19. CASE CheckRetired
  BY <1>19, <1>a2, InstallIs DEF CheckRetired, Converting, ConvertPcs, Goto
<1>20. CASE ReplacementInstalled
  <2>1. Head(todo) \in Media
    BY <1>20, <1>a2 DEF ReplacementInstalled, Converting, ConvertPcs
  <2>2. UNCHANGED <<choice, cancelled, known, excused, faults>>
    BY <1>20 DEF ReplacementInstalled, Goto
  <2>3. preserve' \in BOOLEAN /\ failed' \subseteq failed \cup {Head(todo)}
    BY <1>20 DEF ReplacementInstalled, Taken
  <2>4. completed' \subseteq Files
    BY <1>20, <1>a3 DEF ReplacementInstalled, ResultInv
  <2>5. QED
    BY <2>1, <2>2, <2>3, <2>4
<1>21. CASE UNCHANGED vars
  BY <1>21 DEF vars, stage, session
<1>22. QED
  BY <1>1, <1>2, <1>3, <1>4, <1>5, <1>6, <1>7, <1>8, <1>9, <1>10, <1>11, <1>12, <1>13,
     <1>14, <1>15, <1>16, <1>17, <1>18, <1>19, <1>20, <1>21 DEF Next, Ytdlp, Stranger,
     Worker, MoveFile, Publishes, Sweep

\* Every step keeps DataInv.
LEMMA DataStep ==
  ASSUME Base, [Next]_vars
  PROVE  DataInv'
<1>1. AtType'
  BY AtStep DEF AtInv
<1>2. QED
  BY <1>1, FlagsStep DEF DataInv, AtType, Files, Places, Nowhere

\* The directory has its name while the worker is in it.
Sound ==
  /\ pc \in Pcs
  /\ pc \in WorkerPcs \cup {"ytdlp", "drop"} => root = "stage"
  /\ pc = "verify" => root = "retired"
  /\ pc = "sweep" => root # "gone"
  /\ root \in {"stage", "retired", "gone"}

\* The worker goes from one of its steps to another.
LEMMA SoundStep ==
  ASSUME Base, [Next]_vars
  PROVE  Sound'
<1>0. /\ pc \in WorkerPcs \cup {"ytdlp", "drop"} => root = "stage"
      /\ pc = "verify" => root = "retired"
      /\ pc = "sweep" => root # "gone"
      /\ root \in {"stage", "retired", "gone"} /\ pc \in Pcs
  BY BaseHas DEF RootInv
<1>a1. /\ pc \in MovePcs => move.next \in {"published", "caption published", "output", "replacement"}
       /\ Publishing => task.next \in {"install", "pending", "converted", "caption fallback"}
  BY BaseHas DEF MoveInv, TaskInv
<1> USE <1>0 DEF Sound, Pcs, WorkerPcs, ConvertPcs, CaptionPcs, MovePcs
<1>1. ASSUME NEW m \in Media, Fetch(m) \/ FinishStreams(m) \/ Merge(m) \/ Tidy(m) \/ ReportFinished(m)
     PROVE  Sound'
  BY <1>1 DEF Fetch, FinishStreams, Merge, Tidy, ReportFinished, YtdlpStep, stage
<1>2. ASSUME NEW x \in Foreign, Replace(x) \/ Deposit(x) \/ Squat(x)
     PROVE  Sound'
  BY <1>2 DEF Replace, Deposit, Squat, Interfere, stage
<1>3. CASE \/ (MoveFails /\ MoveKeeps) \/ (MoveFlagged /\ MoveKeeps)
           \/ (Reserve /\ MoveKeeps) \/ (RenameReserved /\ MoveKeeps)
  BY <1>3, <1>a1 DEF MoveFails, MoveFlagged, Reserve, RenameReserved, Rename, Moved,
     Goto
<1>4. CASE \/ Published \/ TakeCaption \/ QuarantineCaption \/ CheckCaption
           \/ CaptionPublished
  BY <1>4, <1>a1, InstallIs DEF Publishing, Published, Ends, TakeCaption,
     QuarantineCaption, CheckCaption, CaptionPublished, CaptionFails, Goto
<1>5. CASE \/ InstallNext \/ PublishPending \/ ConvertNext \/ FfmpegEnds
           \/ OutputInstalled \/ CaptionFallback
  BY <1>5, PublishIs, InstallIs DEF InstallNext, PublishPending, ConvertNext,
     FfmpegEnds, OutputInstalled, CaptionFallback, Goto
<1>6. CASE \/ Converted \/ Decide \/ Retire \/ CheckRetired \/ ReplacementInstalled
  BY <1>6, PublishIs, InstallIs DEF Converted, Decide, Retire, CheckRetired,
     ReplacementInstalled, Goto
<1>7. CASE \/ HandOff \/ Drop \/ Verify \/ Stops
  BY <1>7 DEF HandOff, Drop, Verify, Stops, Goto
<1>8. CASE \/ SweepBegins \/ SweepEnds \/ SweepDies
  BY <1>8 DEF SweepBegins, SweepEnds, SweepDies, SweepOne
<1>9. ASSUME NEW q \in Places, SweepOne(q)
     PROVE  Sound'
  BY <1>9 DEF SweepBegins, SweepEnds, SweepDies, SweepOne
<1>10. ASSUME NEW u \in BOOLEAN, NEW d \in BOOLEAN, YtdlpExits(u, d) PROVE Sound'
  BY <1>10 DEF YtdlpExits, Goto, stage, vars
<1>11. CASE CancelSession
  BY <1>11 DEF CancelSession, Goto, stage, vars
<1>12. CASE UNCHANGED vars
  BY <1>12 DEF vars, stage, session
<1>13. QED
  BY <1>1, <1>2, <1>3, <1>4, <1>5, <1>6, <1>7, <1>8, <1>9, <1>10, <1>11, <1>12 DEF Next,
     Ytdlp, Stranger, Worker, MoveFile, Publishes, Sweep

\* Nothing gets into a directory that is gone.
LEMMA GoneStep ==
  ASSUME Base, [Next]_vars
  PROVE  (root = "gone" => StageFiles = {})'
<1>0. /\ pc \in WorkerPcs \cup {"ytdlp", "drop"} => root = "stage"
      /\ pc = "verify" => root = "retired"
      /\ pc = "sweep" => root # "gone"
      /\ root = "gone" => StageFiles = {}
      /\ pc \in Pcs
  BY BaseHas DEF RootInv
<1>1. ASSUME root' = root, root = "gone" PROVE StageFiles' = {}
  <2>1. pc \in {"done", "down"}
    BY <1>0, <1>1 DEF Pcs
  <2>2. \A f \in Files : at[f].dir \notin {"stage", "held", "convert"}
    BY <1>0, <1>1, StageFilesAre
  <2>3. at' = at \/ \E x \in Foreign : Squat(x)
    BY <2>1, <1>1 DEF Next, vars, Ytdlp, Fetch, FinishStreams, Merge, Tidy, ReportFinished, YtdlpStep,
       YtdlpExits, Stranger, Replace, Deposit, CancelSession, Worker, HandOff, MoveFile, MoveFails,
       MoveFlagged, Reserve, RenameReserved, Publishes, Published, TakeCaption,
       QuarantineCaption, CheckCaption, CaptionPublished, InstallNext, PublishPending,
       ConvertNext, FfmpegEnds, OutputInstalled, CaptionFallback, Converted, Decide, Retire,
       CheckRetired, ReplacementInstalled, Drop, Verify, Stops, Sweep, SweepBegins, SweepEnds,
       SweepDies, SweepOne
  <2>4. CASE at' = at
    BY <2>2, <2>4 DEF StageFiles, FilesIn, Files
  <2>5. ASSUME NEW x \in Foreign, Squat(x) PROVE StageFiles' = {}
    <3>1. PICK p \in Places : p.dir = "download" /\ Moves(x, p, {x})
      BY <2>5, SquatAt
    <3>2. \A f \in Files : at'[f].dir \notin {"stage", "held", "convert"}
      BY <2>2, <3>1, InIs DEF Moves
    <3>3. QED
      BY <3>2 DEF StageFiles, FilesIn, Files
  <2>6. QED
    BY <2>3, <2>4, <2>5
<1>2. CASE Verify
  <2>1. CASE \E R \in SUBSET StageFiles : at' = Remove(R) /\ R = StageFiles
    <3>1. at' = Remove(StageFiles)
      BY <2>1
    <3>2. \A f \in Files : at'[f].dir \notin {"stage", "held", "convert"}
      BY <3>1, StageFilesAre, InIs DEF Remove
    <3>3. QED
      BY <3>2 DEF StageFiles, FilesIn, Files
  <2>2. QED
    BY <1>0, <1>2, <2>1, VerifyAt DEF Verify
<1>3. CASE SweepEnds
  <2>1. root' = "gone" => root = "gone" \/ StageFiles = {}
    BY <1>3 DEF SweepEnds
  <2>2. at' = at /\ pc = "sweep"
    BY <1>3 DEF SweepEnds
  <2>3. StageFiles' = StageFiles
    BY <2>2 DEF StageFiles, FilesIn, Files
  <2>4. QED
    BY <1>0, <2>1, <2>2, <2>3
<1>4. root' = root \/ root' = "retired" \/ Verify \/ SweepEnds
  BY PublishIs, InstallIs DEF Next, vars, stage, Ytdlp, Fetch, FinishStreams, Merge, Tidy,
       ReportFinished, YtdlpStep,
       YtdlpExits, Stranger, Replace, Deposit, Squat, Interfere, CancelSession, Worker, HandOff,
       MoveFile, MoveFails, Rename, Moved, Ends, CaptionFails,
       MoveFlagged, Reserve, RenameReserved, Publishes, Published, TakeCaption,
       QuarantineCaption, CheckCaption, CaptionPublished, InstallNext, PublishPending,
       ConvertNext, FfmpegEnds, OutputInstalled, CaptionFallback, Converted, Decide, Retire,
       CheckRetired, ReplacementInstalled, Drop, Stops, Sweep, SweepBegins,
       SweepDies, SweepOne, Goto
<1>5. QED
  BY <1>1, <1>2, <1>3, <1>4

\* Every step keeps RootInv.
LEMMA RootStep ==
  ASSUME Base, [Next]_vars
  PROVE  RootInv'
BY SoundStep, GoneStep DEF RootInv, Sound

\* Which entry the worker is at and which it has still to come to.
Control ==
  \/ todo' = todo /\ (Converting' <=> Converting)
  \/ /\ pc = "ytdlp" /\ pc' \in {"handoff", "install"}
     /\ todo' \in Present /\ ~Converting /\ ~Converting'
  \/ /\ pc \in {"install", "pending"} /\ todo # <<>> /\ todo' = Tail(todo)
     /\ ~Converting /\ ~Converting'
  \/ /\ pc = "convert" /\ todo # <<>> /\ todo' = todo /\ ~Converting /\ Converting'
  \/ /\ pc = "converted" /\ pc' = "convert" /\ todo' = Tail(todo) /\ Converting /\ ~Converting'
  \/ /\ pc \in {"ffmpeg", "output"} /\ pc' = "pending" /\ todo' = todo /\ Converting /\ ~Converting'
  \/ pc' = "down" /\ todo' = <<>> /\ ~Converting'

\* A step goes on with an entry, takes the next one or leaves one.
LEMMA ControlStep ==
  ASSUME Base, [Next]_vars
  PROVE  Control
<1>a1. /\ pc \in MovePcs => move.next \in {"published", "caption published", "output", "replacement"}
       /\ Publishing => task.next \in {"install", "pending", "converted", "caption fallback"}
       /\ MoveInv
  BY BaseHas DEF MoveInv, TaskInv
<1> USE <1>a1 DEF Control, Converting, Publishing, ConvertPcs, CaptionPcs, MovePcs
<1>1. ASSUME NEW m \in Media, Fetch(m) \/ FinishStreams(m) \/ Merge(m) \/ Tidy(m) \/ ReportFinished(m)
     PROVE  Control
  BY <1>1 DEF Fetch, FinishStreams, Merge, Tidy, ReportFinished, YtdlpStep
<1>2. ASSUME NEW x \in Foreign, Replace(x) \/ Deposit(x) \/ Squat(x)
     PROVE  Control
  BY <1>2 DEF Replace, Deposit, Squat, Interfere
<1>3. CASE \/ Drop \/ Verify
  BY <1>3 DEF Drop, Verify
<1>4. CASE \/ SweepBegins \/ SweepEnds \/ SweepDies
  BY <1>4 DEF SweepBegins, SweepEnds, SweepDies, SweepOne, SweepKeeps
<1>5. ASSUME NEW q \in Places, SweepOne(q)
     PROVE  Control
  BY <1>5 DEF SweepBegins, SweepEnds, SweepDies, SweepOne, SweepKeeps
<1>6. ASSUME NEW u \in BOOLEAN, NEW d \in BOOLEAN, YtdlpExits(u, d) PROVE Control
  BY <1>6 DEF YtdlpExits, Goto
<1>7. CASE CancelSession
  BY <1>7 DEF CancelSession, Goto
<1>8. CASE HandOff
  BY <1>8 DEF HandOff, Goto
<1>9. CASE MoveFails /\ MoveKeeps
  BY <1>9, MovedIs DEF MoveFails, MoveKeeps
<1>10. CASE MoveFlagged /\ MoveKeeps
  BY <1>10, MovedIs DEF MoveFlagged, Rename, MoveKeeps
<1>11. CASE Reserve /\ MoveKeeps
  <2>1. \E to : move' = [move EXCEPT !.to = to]
    BY <1>11 DEF Reserve
  <2>2. move'.next = move.next
    BY <2>1, <1>a1 DEF MoveInv
  <2>3. QED
    BY <1>11, <2>2 DEF Reserve, MoveKeeps, Goto
<1>12. CASE RenameReserved /\ MoveKeeps
  BY <1>12, MovedIs DEF RenameReserved, Rename, MoveKeeps
<1>13. CASE Published
  BY <1>13 DEF Published, Ends, Goto
<1>14. CASE TakeCaption
  BY <1>14 DEF TakeCaption, CaptionFails, Goto
<1>15. CASE QuarantineCaption
  BY <1>15 DEF QuarantineCaption, Goto
<1>16. CASE CheckCaption
  <2>1. todo' = todo /\ task' = task /\ pc = "check caption"
    BY <1>16 DEF CheckCaption
  <2>2. CASE Install(HeldCaption, Caption(task.media), "caption published")
    <3>1. pc' = "move" /\ move'.next = "caption published"
      BY <2>2, InstallIs
    <3>2. QED
      BY <2>1, <3>1
  <2>3. CASE CaptionFails /\ move' = move
    BY <2>1, <2>3 DEF CaptionFails, Goto
  <2>4. QED
    BY <1>16, <2>2, <2>3 DEF CheckCaption
<1>17. CASE CaptionPublished
  BY <1>17 DEF CaptionPublished, CaptionFails, Goto
<1>18. CASE InstallNext
  <2>1. pc = "install" /\ ~Converting
    BY <1>18 DEF InstallNext
  <2>2. CASE todo = <<>>
    BY <1>18, <2>1, <2>2 DEF InstallNext, Goto
  <2>3. CASE todo # <<>>
    <3>1. Publish(Head(todo), TRUE, TRUE, FALSE, "install") /\ todo' = Tail(todo)
      BY <1>18, <2>3 DEF InstallNext
    <3>2. pc' = "move" /\ move'.next = "published" /\ task'.next = "install"
      BY <3>1, PublishIs
    <3>3. ~Converting'
      BY <3>2
    <3>4. QED
      BY <2>1, <2>3, <3>1, <3>3
  <2>4. QED
    BY <2>2, <2>3
<1>19. CASE PublishPending
  <2>1. pc = "pending" /\ ~Converting
    BY <1>19 DEF PublishPending
  <2>2. CASE todo = <<>>
    BY <1>19, <2>1, <2>2 DEF PublishPending, Goto
  <2>3. CASE todo # <<>>
    <3>1. /\ todo' = Tail(todo)
          /\ Publish(Head(todo), TRUE, FALSE, FALSE, "pending") \/ pc' = "pending"
      BY <1>19, <2>3 DEF PublishPending, Goto
    <3>2. \/ pc' = "move" /\ move'.next = "published" /\ task'.next = "pending"
          \/ pc' = "pending"
      BY <3>1, PublishIs
    <3>3. ~Converting'
      BY <3>2
    <3>4. QED
      BY <2>1, <2>3, <3>1, <3>3
  <2>4. QED
    BY <2>2, <2>3
<1>20. CASE ConvertNext
  <2>1. pc = "convert" /\ todo' = todo /\ ~Converting
    BY <1>20 DEF ConvertNext
  <2>2. \/ pc' \in {"drop", "pending"}
        \/ todo # <<>> /\ pc' = "ffmpeg"
        \/ todo # <<>> /\ Publish(Head(todo), TRUE, FALSE, FALSE, "converted")
        \/ todo # <<>> /\ Publish(Head(todo), TRUE, FALSE, TRUE, "converted")
    BY <1>20 DEF ConvertNext, Goto
  <2>3. CASE pc' \in {"drop", "pending"}
    <3>1. ~Converting'
      BY <2>3
    <3>2. QED
      BY <2>1, <3>1
  <2>4. CASE todo # <<>> /\ pc' # "drop" /\ pc' # "pending"
    <3>1. \/ pc' = "ffmpeg"
          \/ pc' = "move" /\ move'.next = "published" /\ task'.next = "converted"
      BY <2>2, <2>4, PublishIs
    <3>2. Converting'
      BY <3>1
    <3>3. QED
      BY <2>1, <2>4, <3>2
  <2>5. QED
    BY <2>2, <2>3, <2>4
<1>21. CASE FfmpegEnds
  <2>1. pc = "ffmpeg" /\ todo' = todo /\ Converting
    BY <1>21 DEF FfmpegEnds
  <2>2. \/ pc' = "pending"
        \/ Publish(Head(todo), TRUE, FALSE, TRUE, "converted")
        \/ Install(In("convert", Output(Head(todo))), Output(Head(todo)), "output")
    BY <1>21 DEF FfmpegEnds, Goto
  <2>3. \/ pc' = "pending"
        \/ pc' = "move" /\ move'.next = "published" /\ task'.next = "converted"
        \/ pc' = "move" /\ move'.next = "output"
    BY <2>2, PublishIs, InstallIs
  <2>4. QED
    BY <2>1, <2>3
<1>22. CASE OutputInstalled
  BY <1>22, PublishIs DEF OutputInstalled, NoTask, Goto
<1>23. CASE CaptionFallback
  BY <1>23, PublishIs DEF CaptionFallback
<1>24. CASE Converted
  BY <1>24 DEF Converted, Goto
<1>25. CASE Decide
  BY <1>25, PublishIs DEF Decide, Goto
<1>26. CASE Retire
  BY <1>26 DEF Retire, Goto
<1>27. CASE CheckRetired
  BY <1>27, InstallIs DEF CheckRetired, Goto
<1>28. CASE ReplacementInstalled
  BY <1>28 DEF ReplacementInstalled, Goto
<1>29. CASE Stops
  BY <1>29 DEF Stops, Goto
<1>30. CASE UNCHANGED vars
  BY <1>30 DEF vars, stage, session
<1>31. QED
  BY <1>1, <1>2, <1>3, <1>4, <1>5, <1>6, <1>7, <1>8, <1>9, <1>10, <1>11, <1>12, <1>13,
     <1>14, <1>15, <1>16, <1>17, <1>18, <1>19, <1>20, <1>21, <1>22, <1>23, <1>24, <1>25,
     <1>26, <1>27, <1>28, <1>29, <1>30 DEF Next, Ytdlp, Stranger, Worker, MoveFile,
     Publishes, Sweep

\* What the worker has still to come to shrinks, but for an entry it could not convert.
LEMMA RestStep ==
  ASSUME Base, [Next]_vars
  PROVE  /\ todo' \in Seq(Media) /\ NoTwice(todo') /\ Rest' \subseteq Entries(todo')
         /\ Converting' => todo' # <<>> /\ Head(todo') \notin Rest'
         /\ \/ /\ pc = "ytdlp" /\ pc' \in {"handoff", "install"}
               /\ Rest' = Finished /\ Entries(todo') = Finished
            \/ /\ \/ Rest' = Rest
                  \/ todo # <<>> /\ Rest' = Rest \ {Head(todo)}
                  \/ /\ pc \in {"ffmpeg", "output"} /\ pc' = "pending"
                     /\ Rest' = Rest \cup {Head(todo)}
                  \/ pc' = "down" /\ Rest' = {}
               /\ Entries(todo') \subseteq Entries(todo)
<1>1. /\ todo \in Seq(Media) /\ NoTwice(todo) /\ recorded \in Seq(Media) /\ NoTwice(recorded)
      /\ Converting => todo # <<>>
  BY BaseHas DEF TodoInv
<1>2. todo # <<>> => /\ Tail(todo) \in Seq(Media) /\ NoTwice(Tail(todo))
                     /\ Entries(Tail(todo)) = Entries(todo) \ {Head(todo)}
                     /\ Head(todo) \in Entries(todo)
  BY <1>1, HeadTail
<1>3. CASE todo' = todo /\ (Converting' <=> Converting)
  BY <1>1, <1>2, <1>3 DEF Rest
<1>4. CASE /\ pc = "ytdlp" /\ pc' \in {"handoff", "install"}
           /\ todo' \in Present /\ ~Converting /\ ~Converting'
  BY <1>1, <1>4, PresentIs DEF Rest
<1>5. CASE todo # <<>> /\ todo' = Tail(todo) /\ ~Converting /\ ~Converting'
  BY <1>1, <1>2, <1>5 DEF Rest
<1>6. CASE todo # <<>> /\ todo' = todo /\ ~Converting /\ Converting'
  BY <1>1, <1>2, <1>6 DEF Rest
<1>7. CASE todo' = Tail(todo) /\ Converting /\ ~Converting'
  BY <1>1, <1>2, <1>7 DEF Rest
<1>8. CASE pc \in {"ffmpeg", "output"} /\ pc' = "pending" /\ todo' = todo /\ Converting /\ ~Converting'
  BY <1>1, <1>2, <1>8 DEF Rest
<1>9. CASE pc' = "down" /\ todo' = <<>> /\ ~Converting'
  <2>1. Rest' = {} /\ Entries(todo') = {}
    BY <1>9, NoEntries DEF Rest
  <2>2. QED
    BY <1>9, <2>1, NoEntries
<1>10. QED
  BY <1>3, <1>4, <1>5, <1>6, <1>7, <1>8, <1>9, ControlStep DEF Control

IdlePcs == {"ytdlp", "drop", "verify", "done", "down", "sweep"}

\* The worker has come to the last entry when it drops the directory.
LEMMA IdleStep ==
  ASSUME Base, [Next]_vars
  PROVE  (pc \in IdlePcs => todo = <<>>)'
<1>a1. /\ pc \in MovePcs => move.next \in {"published", "caption published", "output", "replacement"}
       /\ Publishing => task.next \in {"install", "pending", "converted", "caption fallback"}
       /\ pc \in IdlePcs => todo = <<>>
       /\ MoveInv
  BY BaseHas DEF MoveInv, TaskInv, TodoInv, IdlePcs
<1> USE <1>a1 DEF IdlePcs, Publishing, CaptionPcs, MovePcs
<1>1. ASSUME NEW m \in Media, Fetch(m) \/ FinishStreams(m) \/ Merge(m) \/ Tidy(m) \/ ReportFinished(m)
     PROVE  (pc \in IdlePcs => todo = <<>>)'
  BY <1>1 DEF Fetch, FinishStreams, Merge, Tidy, ReportFinished, YtdlpStep
<1>2. ASSUME NEW x \in Foreign, Replace(x) \/ Deposit(x) \/ Squat(x)
     PROVE  (pc \in IdlePcs => todo = <<>>)'
  BY <1>2 DEF Replace, Deposit, Squat, Interfere
<1>3. CASE \/ HandOff \/ Drop \/ Verify \/ Stops
  BY <1>3 DEF Drop, Verify, Stops, HandOff, Goto
<1>4. CASE \/ SweepBegins \/ SweepEnds \/ SweepDies
  BY <1>4 DEF SweepBegins, SweepEnds, SweepDies, SweepOne, SweepKeeps
<1>5. ASSUME NEW q \in Places, SweepOne(q)
     PROVE  (pc \in IdlePcs => todo = <<>>)'
  BY <1>5 DEF SweepBegins, SweepEnds, SweepDies, SweepOne, SweepKeeps
<1>6. CASE \/ (MoveFails /\ MoveKeeps) \/ (MoveFlagged /\ MoveKeeps)
           \/ (RenameReserved /\ MoveKeeps)
  BY <1>6, MovedIs DEF MoveFails, MoveFlagged, RenameReserved, Rename, MoveKeeps
<1>7. CASE \/ Published \/ TakeCaption \/ QuarantineCaption \/ CaptionPublished
  BY <1>7 DEF Published, Ends, TakeCaption, QuarantineCaption, CaptionPublished,
     CaptionFails, Goto
<1>8. CASE \/ InstallNext \/ PublishPending \/ ConvertNext
  BY <1>8, PublishIs DEF InstallNext, PublishPending, ConvertNext, Goto
<1>9. CASE \/ FfmpegEnds \/ OutputInstalled \/ CaptionFallback \/ Converted
  BY <1>9, PublishIs, InstallIs DEF FfmpegEnds, OutputInstalled, CaptionFallback,
     Converted, Goto
<1>10. ASSUME NEW u \in BOOLEAN, NEW d \in BOOLEAN, YtdlpExits(u, d) PROVE (pc \in IdlePcs => todo = <<>>)'
  BY <1>10 DEF YtdlpExits, Goto
<1>11. CASE CancelSession
  BY <1>11 DEF CancelSession, Goto
<1>12. CASE Reserve /\ MoveKeeps
  BY <1>12 DEF Reserve, MoveKeeps, Goto
<1>13. CASE CheckCaption
  BY <1>13, InstallIs DEF CheckCaption, CaptionFails, Goto
<1>14. CASE Decide
  BY <1>14, PublishIs DEF Decide, Goto
<1>15. CASE Retire
  BY <1>15 DEF Retire, Goto
<1>16. CASE CheckRetired
  BY <1>16, InstallIs DEF CheckRetired, Goto
<1>17. CASE ReplacementInstalled
  BY <1>17 DEF ReplacementInstalled, Goto
<1>18. CASE UNCHANGED vars
  BY <1>18 DEF vars, stage, session
<1>19. QED
  BY <1>1, <1>2, <1>3, <1>4, <1>5, <1>6, <1>7, <1>8, <1>9, <1>10, <1>11, <1>12, <1>13,
     <1>14, <1>15, <1>16, <1>17, <1>18 DEF Next, Ytdlp, Stranger, Worker, MoveFile,
     Publishes, Sweep

\* Only yt-dlp reports entries.
LEMMA RecordedStep ==
  ASSUME Base, [Next]_vars
  PROVE  \/ recorded' = recorded
         \/ \E m \in Media : ReportFinished(m)
BY PublishIs, InstallIs, MovedIs DEF Next, vars, session, Ytdlp, Fetch, FinishStreams, Merge, Tidy,
     YtdlpStep,
       YtdlpExits, Stranger, Replace, Deposit, Squat, Interfere, CancelSession, Worker, HandOff,
       MoveFile, MoveFails, Rename, Moved, Ends, CaptionFails,
       MoveFlagged, Reserve, RenameReserved, Publishes, Published, TakeCaption,
       QuarantineCaption, CheckCaption, CaptionPublished, InstallNext, PublishPending,
       ConvertNext, FfmpegEnds, OutputInstalled, CaptionFallback, Converted, Decide, Retire,
       CheckRetired, ReplacementInstalled, Drop, Verify, Stops, Sweep, SweepBegins, SweepEnds,
       SweepDies, SweepOne, SweepKeeps, Goto

\* Entries are reported by yt-dlp only, each once.
LEMMA ReportedGrows ==
  ASSUME Base, [Next]_vars
  PROVE  /\ recorded' \in Seq(Media) /\ NoTwice(recorded') /\ Reported \subseteq Reported'
         /\ pc # "ytdlp" => Reported' = Reported
<1>1. recorded \in Seq(Media) /\ NoTwice(recorded)
  BY BaseHas DEF TodoInv
<1>2. CASE recorded' = recorded
  BY <1>1, <1>2 DEF Reported
<1>3. ASSUME NEW m \in Media, ReportFinished(m)
      PROVE  /\ recorded' \in Seq(Media) /\ NoTwice(recorded') /\ Reported \subseteq Reported'
             /\ pc = "ytdlp"
  <2>1. recorded' = Append(recorded, m) /\ m \notin Reported /\ pc = "ytdlp"
    BY <1>3 DEF ReportFinished
  <2>2. QED
    BY <1>1, <2>1, AppendIs DEF Reported
<1>4. QED
  BY <1>2, <1>3, RecordedStep

\* Every step keeps TodoInv.
LEMMA TodoStep ==
  ASSUME Base, [Next]_vars
  PROVE  TodoInv'
<1>1. /\ todo' \in Seq(Media) /\ NoTwice(todo')
      /\ (Converting => todo # <<>>)'
  BY RestStep
<1>2. recorded' \in Seq(Media) /\ NoTwice(recorded') /\ Reported \subseteq Reported'
  BY ReportedGrows
<1>3. Finished \subseteq Reported /\ Entries(todo) \subseteq Reported
  BY BaseHas DEF Finished, TodoInv
<1>4. Entries(todo') \subseteq Reported'
  BY <1>2, <1>3, RestStep
<1>5. QED
  BY <1>1, <1>2, <1>4, IdleStep DEF TodoInv, IdlePcs

\* The move in progress is a record of its fields.
LEMMA RecordStep ==
  ASSUME Base, [Next]_vars
  PROVE  /\ IsMove(move')
         /\ \/ move' = move
            \/ pc' = "move" /\ pc \notin MovePcs
            \/ pc \in MovePcs
            \/ pc' = "down"
<1>1. MoveInv /\ IsMove(move)
  BY BaseHas DEF MoveInv, IsMove
<1>2. \A from, name, next : Install(from, name, next) => IsMove(move') /\ pc' = "move"
  BY InstallIs DEF IsMove
<1>3. \A m, c, i, fails, next : Publish(m, c, i, fails, next) => IsMove(move') /\ pc' = "move"
  BY <1>2 DEF Publish
<1>4. \A result, file : Moved(result, file) => IsMove(move')
  BY <1>1 DEF IsMove, Moved
<1>5. CASE MoveFile
  <2>1. pc \in MovePcs
    BY <1>5 DEF MoveFile, MoveFails, MoveFlagged, Reserve, RenameReserved, MovePcs
  <2>2. CASE Reserve
    <3>1. PICK to : move' = [move EXCEPT !.to = to]
      BY <2>2 DEF Reserve
    <3>2. IsMove(move')
      BY ONLY <1>1, <3>1 DEF IsMove
    <3>3. QED
      BY <2>1, <3>2
  <2>3. QED
    BY <1>4, <1>5, <2>1, <2>2 DEF MoveFile, MoveFails, MoveFlagged, RenameReserved, Rename
<1>6. CASE Stops
  BY <1>6 DEF Stops, IsMove, NoMove
<1>7. CASE Worker /\ ~MoveFile
  BY <1>1, <1>2, <1>3, <1>7 DEF Worker, HandOff, Publishes, Published, Ends, TakeCaption, CaptionFails,
       QuarantineCaption, CheckCaption, CaptionPublished, InstallNext, PublishPending,
       ConvertNext, FfmpegEnds, OutputInstalled, CaptionFallback, Converted, Decide, Retire,
       CheckRetired, ReplacementInstalled, Drop, Verify, Goto, MovePcs
<1>8. CASE Ytdlp \/ Stranger \/ CancelSession \/ Sweep \/ UNCHANGED vars
  BY <1>1, <1>8 DEF Ytdlp, Fetch, FinishStreams, Merge, Tidy, ReportFinished, YtdlpStep, YtdlpExits,
       Stranger, Replace, Deposit, Squat, Interfere, CancelSession, Sweep, SweepBegins, SweepEnds,
       SweepDies, SweepOne, SweepKeeps, vars
<1>9. QED
  BY <1>5, <1>6, <1>7, <1>8 DEF Next

\* Nobody but the worker touches the placeholder while the worker needs it.
LEMMA PlaceholderStays ==
  ASSUME Base, pc = "rename", pc' = "rename", [Next]_vars
  PROVE  at'[Placeholder] = at[Placeholder] /\ UNCHANGED <<move, task, todo>>
<1>1. Placeholder \in Files /\ \A x \in Foreign : x # Placeholder
  BY FilesAre, Kinds
<1>2. MoveInv
  BY BaseHas
<1>3. ASSUME NEW x \in Foreign, NEW p, NEW victim, Interfere(x, p, victim), victim # Placeholder
      PROVE  at'[Placeholder] = at[Placeholder] /\ UNCHANGED <<move, task, todo>>
  BY <1>1, <1>3 DEF Interfere
<1>4. ASSUME NEW x \in Foreign, Replace(x) \/ Deposit(x) \/ Squat(x)
      PROVE  at'[Placeholder] = at[Placeholder] /\ UNCHANGED <<move, task, todo>>
  <2>1. CASE Replace(x)
    BY <1>3, <2>1, ReplaceIs
  <2>2. CASE Deposit(x)
    BY <1>1, <1>3, <2>2 DEF Deposit
  <2>3. CASE Squat(x)
    BY <1>1, <1>3, <2>3 DEF Squat
  <2>4. QED
    BY <1>4, <2>1, <2>2, <2>3
<1>5. CASE MoveFile
  <2>1. \A result, file : ~Moved(result, file)
    BY <1>2, MovedIs DEF MoveInv, MovePcs
  <2>2. QED
    BY <1>5, <2>1 DEF MoveFile, MoveFails, MoveFlagged, Reserve, RenameReserved, Rename
<1>6. QED
  BY <1>4, <1>5 DEF Next, vars, Ytdlp, Fetch, FinishStreams, Merge, Tidy, YtdlpStep, ReportFinished,
       YtdlpExits, Stranger, CancelSession, Worker, HandOff,
       Publishes, Published, TakeCaption,
       QuarantineCaption, CheckCaption, CaptionPublished, InstallNext, PublishPending,
       ConvertNext, FfmpegEnds, OutputInstalled, CaptionFallback, Converted, Decide, Retire,
       CheckRetired, ReplacementInstalled, Drop, Verify, Stops, Sweep, SweepBegins, SweepEnds,
       SweepDies, SweepOne

\* What a move in progress is for.
Purpose ==
  pc \in MovePcs =>
       \/ /\ move.next = "published" /\ move.from = Staged(task.media)
          /\ move.name = Whole(task.media)
       \/ /\ move.next = "caption published" /\ move.from = HeldCaption
          /\ move.name = Caption(task.media)
       \/ /\ move.next = "output" /\ move.from = In("convert", Output(Head(todo)))
          /\ move.name = Output(Head(todo))
       \/ /\ move.next = "replacement" /\ move.from = Held(Head(todo))
          /\ move.name = Whole(Head(todo))

\* A step goes on with a move or begins one for a purpose.
LEMMA PurposeStep ==
  ASSUME Base, [Next]_vars
  PROVE  Purpose'
<1>a1. MoveInv /\ Purpose
  BY BaseHas DEF MoveInv, Purpose
<1>a2. Publishing => task.next \in {"install", "pending", "converted", "caption fallback"}
  BY BaseHas DEF TaskInv
<1>a3. pc \in MovePcs => move.next \in {"published", "caption published", "output", "replacement"}
  BY <1>a1 DEF MoveInv
<1>a4. ASSUME NEW m, NEW c, NEW i, NEW fails, NEW next, Publish(m, c, i, fails, next) PROVE Purpose'
  BY <1>a4, PublishIs DEF Purpose
<1> USE <1>a1, <1>a2, <1>a3, <1>a4 DEF Publishing, CaptionPcs, MovePcs
<1>1. ASSUME NEW m \in Media, Fetch(m) \/ FinishStreams(m) \/ Merge(m) \/ Tidy(m) \/ ReportFinished(m)
     PROVE  Purpose'
  BY <1>1 DEF Fetch, FinishStreams, Merge, Tidy, ReportFinished, YtdlpStep, Purpose
<1>2. ASSUME NEW x \in Foreign, Replace(x) \/ Deposit(x) \/ Squat(x)
     PROVE  Purpose'
  BY <1>2 DEF Replace, Deposit, Squat, Interfere, Purpose, HeldCaption
<1>3. CASE \/ HandOff \/ Drop \/ Verify \/ Stops
  BY <1>3 DEF Drop, Verify, Stops, HandOff, Goto, Purpose
<1>4. CASE \/ SweepBegins \/ SweepEnds \/ SweepDies
  BY <1>4 DEF SweepBegins, SweepEnds, SweepDies, SweepOne, Purpose
<1>5. ASSUME NEW q \in Places, SweepOne(q)
     PROVE  Purpose'
  BY <1>5 DEF SweepBegins, SweepEnds, SweepDies, SweepOne, Purpose
<1>6. CASE \/ (MoveFails /\ MoveKeeps) \/ (MoveFlagged /\ MoveKeeps)
           \/ (RenameReserved /\ MoveKeeps)
  BY <1>6, MovedIs DEF MoveFails, MoveFlagged, RenameReserved, Rename, Purpose
<1>7. CASE \/ Published \/ TakeCaption \/ QuarantineCaption \/ CaptionPublished
  BY <1>7 DEF Published, Ends, TakeCaption, QuarantineCaption, CaptionPublished,
     CaptionFails, Goto, Purpose
<1>8. CASE \/ InstallNext \/ PublishPending \/ CaptionFallback
  BY <1>8 DEF InstallNext, PublishPending, CaptionFallback, Goto, Purpose
<1>9. ASSUME NEW u \in BOOLEAN, NEW d \in BOOLEAN, YtdlpExits(u, d) PROVE Purpose'
  BY <1>9 DEF YtdlpExits, Goto, Purpose
<1>10. CASE CancelSession
  BY <1>10 DEF CancelSession, Purpose, HeldCaption
<1>11. CASE Reserve /\ MoveKeeps
  <2>1. \E to : move' = [move EXCEPT !.to = to]
    BY <1>11 DEF Reserve
  <2>2. move'.next = move.next /\ move'.from = move.from /\ move'.name = move.name
    BY <2>1, <1>a1 DEF MoveInv
  <2>3. task' = task /\ todo' = todo /\ pc \in MovePcs
    BY <1>11 DEF Reserve, MoveKeeps
  <2>4. QED
    BY <2>2, <2>3 DEF Purpose, HeldCaption
<1>12. CASE CheckCaption
  <2>1. CASE Install(HeldCaption, Caption(task.media), "caption published")
    <3>1. task' = task
      BY <1>12 DEF CheckCaption
    <3>2. QED
      BY <2>1, <3>1, InstallIs DEF Purpose, HeldCaption
  <2>2. CASE CaptionFails
    BY <1>12, <2>2 DEF CheckCaption, CaptionFails, Goto, Purpose
  <2>3. QED
    BY <1>12, <2>1, <2>2 DEF CheckCaption
<1>13. CASE ConvertNext
  BY <1>13 DEF ConvertNext, Goto, Purpose
<1>14. CASE FfmpegEnds
  <2>1. CASE Install(In("convert", Output(Head(todo))), Output(Head(todo)), "output")
    <3>1. todo' = todo
      BY <1>14 DEF FfmpegEnds
    <3>2. QED
      BY <2>1, <3>1, InstallIs DEF Purpose
  <2>2. CASE Goto("pending")
    BY <2>2 DEF Goto, Purpose
  <2>3. QED
    BY <1>14, <2>1, <2>2 DEF FfmpegEnds
<1>15. CASE OutputInstalled
  BY <1>15 DEF OutputInstalled, Goto, Purpose
<1>16. CASE Converted
  BY <1>16 DEF Converted, Goto, Purpose
<1>17. CASE Decide
  BY <1>17 DEF Decide, Goto, Purpose
<1>18. CASE Retire
  BY <1>18 DEF Retire, Goto, Purpose
<1>19. CASE CheckRetired
  <2>1. CASE Install(Held(Head(todo)), Whole(Head(todo)), "replacement")
    <3>1. todo' = todo
      BY <1>19 DEF CheckRetired
    <3>2. QED
      BY <2>1, <3>1, InstallIs DEF Purpose
  <2>2. CASE Goto("converted")
    BY <2>2 DEF Goto, Purpose
  <2>3. QED
    BY <1>19, <2>1, <2>2 DEF CheckRetired
<1>20. CASE ReplacementInstalled
  BY <1>20 DEF ReplacementInstalled, Goto, Purpose
<1>21. CASE UNCHANGED vars
  BY <1>21 DEF vars, Purpose, HeldCaption
<1>22. QED
  BY <1>1, <1>2, <1>3, <1>4, <1>5, <1>6, <1>7, <1>8, <1>9, <1>10, <1>11, <1>12, <1>13,
     <1>14, <1>15, <1>16, <1>17, <1>18, <1>19, <1>20, <1>21 DEF Next, Ytdlp, Stranger,
     Worker, MoveFile, Publishes, Sweep

\* Every step keeps MoveInv.
LEMMA MoveStep ==
  ASSUME Base, [Next]_vars
  PROVE  MoveInv'
<1>1. IsMove(move') /\ Purpose'
  BY RecordStep, PurposeStep
<1>2. (pc = "rename" => at[Placeholder] = move.to /\ move.to.dir = "download" /\ move.to \in Places)'
  <2>1. CASE pc = "rename" /\ pc' = "rename"
    <3>1. at'[Placeholder] = at[Placeholder] /\ move' = move
      BY <2>1, PlaceholderStays
    <3>2. MoveInv
      BY BaseHas
    <3>3. at[Placeholder] = move.to /\ move.to.dir = "download" /\ move.to \in Places
      BY <2>1, <3>2 DEF MoveInv
    <3>4. Places' = Places
      OBVIOUS
    <3>5. QED
      BY <3>1, <3>3
  <2>2. CASE Reserve /\ MoveKeeps
    <3>1. excused' = excused
      BY <2>2 DEF MoveKeeps
    <3>2. PICK to \in Places : /\ to.dir = "download" /\ Moves(Placeholder, to, {})
                               /\ move' = [move EXCEPT !.to = to]
      BY <2>2, <3>1, ReserveAt
    <3>3. at'[Placeholder] = to
      BY <3>2, FilesAre DEF Moves
    <3>4. move'.to = to
      BY <3>2, BaseHas DEF MoveInv
    <3>5. QED
      BY <3>2, <3>3, <3>4
  <2>3. pc' = "rename" => pc = "rename" \/ (Reserve /\ MoveKeeps)
    <3>1. MoveInv /\ TaskInv
      BY BaseHas
    <3>2. /\ pc \in MovePcs => move.next \in {"published", "caption published", "output", "replacement"}
          /\ Publishing => task.next \in {"install", "pending", "converted", "caption fallback"}
      BY <3>1 DEF MoveInv, TaskInv
    <3>3. QED
      BY <3>1, <3>2, MovedIs, InstallIs, PublishIs DEF Publishing, CaptionPcs, MovePcs,
       Next, vars, stage, Ytdlp, Fetch, FinishStreams, Merge, Tidy, ReportFinished, YtdlpStep,
       YtdlpExits, Stranger, Replace, Deposit, Squat, Interfere, CancelSession, Worker, HandOff,
       MoveFile, MoveFails, Rename, Ends, CaptionFails,
       MoveFlagged, RenameReserved, Publishes, Published, TakeCaption,
       QuarantineCaption, CheckCaption, CaptionPublished, InstallNext, PublishPending,
       ConvertNext, FfmpegEnds, OutputInstalled, CaptionFallback, Converted, Decide, Retire,
       CheckRetired, ReplacementInstalled, Drop, Verify, Stops, Sweep, SweepBegins, SweepEnds,
       SweepDies, SweepOne, Goto
  <2>4. QED
    BY <2>1, <2>2, <2>3
<1>3. QED
  BY <1>1, <1>2 DEF MoveInv, IsMove, Purpose

\* The task in progress is of a reported entry.
LEMMA TaskStep ==
  ASSUME Base, [Next]_vars
  PROVE  TaskInv'
<1>a1. MoveInv /\ TaskInv /\ TodoInv
  BY BaseHas
<1>a2. Reported \subseteq Reported'
  BY ReportedGrows
<1>a3. pc \in MovePcs => move.next \in {"published", "caption published", "output", "replacement"}
  BY <1>a1 DEF MoveInv
<1>a4. todo # <<>> => /\ Head(todo) \in Reported /\ Head(todo) \notin Entries(Tail(todo))
  BY <1>a1, ReportedIn
<1>a5. ASSUME task' = task, todo' = todo, Publishing, Publishing',
              task.next = "caption fallback" =>
                (pc \in CaptionPcs \/ (pc \in MovePcs /\ move.next = "caption published"))'
       PROVE  TaskInv'
  BY <1>a1, <1>a2, <1>a5 DEF TaskInv
<1>a6. ASSUME ~Publishing' PROVE TaskInv'
  BY <1>a6 DEF TaskInv
<1>a7. ASSUME NEW c, NEW i, NEW fails, todo # <<>>,
              \/ Publish(Head(todo), c, i, fails, "converted") /\ todo' = todo
              \/ /\ todo' = Tail(todo)
                 /\ \E next \in {"install", "pending"} : Publish(Head(todo), c, i, fails, next)
       PROVE  TaskInv'
  <2>1. task'.media = Head(todo)
    BY <1>a7, PublishIs
  <2>2. \/ task'.next = "converted" /\ todo' = todo
        \/ task'.next \in {"install", "pending"} /\ todo' = Tail(todo)
    BY <1>a7, PublishIs
  <2>3. QED
    BY <1>a2, <1>a4, <1>a7, <2>1, <2>2 DEF TaskInv
<1>a8. Converting => todo # <<>>
  BY <1>a1 DEF TodoInv
<1>a9. Publishing => (task.next = "caption fallback" =>
                pc \in CaptionPcs \/ (pc \in MovePcs /\ move.next = "caption published"))
                /\ task.next \in {"install", "pending", "converted", "caption fallback"}
  BY <1>a1 DEF TaskInv
<1> USE <1>a1, <1>a3, <1>a5, <1>a6, <1>a9 DEF Publishing, CaptionPcs, MovePcs
<1>1. ASSUME NEW m \in Media, Fetch(m) \/ FinishStreams(m) \/ Merge(m) \/ Tidy(m) \/ ReportFinished(m)
     PROVE  TaskInv'
  BY <1>1 DEF Fetch, FinishStreams, Merge, Tidy, ReportFinished, YtdlpStep
<1>2. ASSUME NEW x \in Foreign, Replace(x) \/ Deposit(x) \/ Squat(x)
     PROVE  TaskInv'
  BY <1>2 DEF Replace, Deposit, Squat, Interfere
<1>3. CASE \/ HandOff \/ Drop \/ Verify \/ Stops
  BY <1>3 DEF Drop, Verify, Stops, HandOff, Goto
<1>4. CASE \/ SweepBegins \/ SweepEnds \/ SweepDies
  BY <1>4 DEF SweepBegins, SweepEnds, SweepDies, SweepOne
<1>5. ASSUME NEW q \in Places, SweepOne(q)
     PROVE  TaskInv'
  BY <1>5 DEF SweepBegins, SweepEnds, SweepDies, SweepOne
<1>6. CASE \/ (MoveFails /\ MoveKeeps) \/ (MoveFlagged /\ MoveKeeps)
           \/ (RenameReserved /\ MoveKeeps)
  BY <1>6, MovedIs DEF MoveFails, MoveFlagged, RenameReserved, Rename, MoveKeeps
<1>7. CASE \/ Published \/ TakeCaption \/ QuarantineCaption
  BY <1>7 DEF Published, Ends, TakeCaption, QuarantineCaption, CaptionFails, Goto
<1>8. CASE CaptionPublished
  BY <1>8 DEF CaptionPublished, CaptionFails, Goto
<1>9. ASSUME NEW u \in BOOLEAN, NEW d \in BOOLEAN, YtdlpExits(u, d) PROVE TaskInv'
  BY <1>9 DEF YtdlpExits, Goto
<1>10. CASE CancelSession
  BY <1>10 DEF CancelSession, Goto
<1>11. CASE Reserve /\ MoveKeeps
  <2>1. \E to : move' = [move EXCEPT !.to = to]
    BY <1>11 DEF Reserve
  <2>2. move'.next = move.next
    BY <2>1, <1>a1 DEF MoveInv
  <2>3. task' = task /\ todo' = todo /\ pc \in MovePcs /\ pc' \in MovePcs
    BY <1>11 DEF Reserve, MoveKeeps, Goto
  <2>4. QED
    BY <2>2, <2>3
<1>12. CASE CheckCaption
  <2>0. task' = task /\ todo' = todo /\ Publishing
    BY <1>12 DEF CheckCaption
  <2>1. CASE Install(HeldCaption, Caption(task.media), "caption published")
    <3>1. pc' = "move" /\ move'.next = "caption published"
      BY <2>1, InstallIs
    <3>2. QED
      BY <2>0, <3>1
  <2>2. CASE CaptionFails
    BY <2>0, <2>2 DEF CaptionFails, Goto
  <2>3. QED
    BY <1>12, <2>1, <2>2 DEF CheckCaption
<1>13. CASE InstallNext
  BY <1>13, <1>a7 DEF InstallNext, Goto
<1>14. CASE PublishPending
  BY <1>14, <1>a7 DEF PublishPending, Goto
<1>15. CASE ConvertNext
  BY <1>15, <1>a7 DEF ConvertNext, Goto
<1>16. CASE FfmpegEnds
  <2>1. pc = "ffmpeg" /\ todo # <<>> /\ todo' = todo
    BY <1>16, <1>a8 DEF FfmpegEnds, Converting, ConvertPcs
  <2>2. CASE Install(In("convert", Output(Head(todo))), Output(Head(todo)), "output")
    <3>1. pc' = "move" /\ move'.next = "output"
      BY <2>2, InstallIs
    <3>2. QED
      BY <3>1
  <2>3. CASE pc' = "pending"
    BY <2>3
  <2>4. CASE Publish(Head(todo), TRUE, FALSE, TRUE, "converted")
    BY <1>a7, <2>1, <2>4
  <2>5. QED
    BY <1>16, <2>2, <2>3, <2>4 DEF FfmpegEnds, Goto
<1>17. CASE OutputInstalled
  <2>1. pc = "output" /\ todo # <<>> /\ todo' = todo
    BY <1>17, <1>a8 DEF OutputInstalled, Converting, ConvertPcs
  <2>2. ASSUME task' = [NoTask EXCEPT !.media = Head(todo), !.next = "caption fallback"],
               pc' = "captions" \/ pc' = "decide"
        PROVE  TaskInv'
    <3>1. task'.media = Head(todo) /\ task'.next = "caption fallback"
      BY <2>2 DEF NoTask
    <3>2. QED
      BY <1>a2, <1>a4, <2>1, <2>2, <3>1 DEF TaskInv
  <2>3. \/ \E c, i, fails \in BOOLEAN : Publish(Head(todo), c, i, fails, "converted")
        \/ pc' = "pending"
        \/ /\ task' = [NoTask EXCEPT !.media = Head(todo), !.next = "caption fallback"]
           /\ pc' = "captions" \/ pc' = "decide"
    BY <1>17 DEF OutputInstalled, Goto
  <2>4. QED
    BY <1>a7, <2>1, <2>2, <2>3
<1>18. CASE CaptionFallback
  BY <1>18, <1>a7, <1>a8 DEF CaptionFallback, Converting, ConvertPcs
<1>19. CASE Converted
  BY <1>19 DEF Converted, Goto
<1>20. CASE Decide
  BY <1>20, <1>a7, <1>a8 DEF Decide, Goto, Converting, ConvertPcs
<1>21. CASE Retire
  BY <1>21 DEF Retire, Goto
<1>22. CASE CheckRetired
  <2>1. CASE Install(Held(Head(todo)), Whole(Head(todo)), "replacement")
    <3>1. pc' = "move" /\ move'.next = "replacement"
      BY <2>1, InstallIs
    <3>2. QED
      BY <3>1
  <2>2. CASE Goto("converted")
    BY <2>2 DEF Goto
  <2>3. QED
    BY <1>22, <2>1, <2>2 DEF CheckRetired
<1>23. CASE ReplacementInstalled
  BY <1>23 DEF ReplacementInstalled, Goto
<1>24. CASE UNCHANGED vars
  BY <1>24 DEF vars
<1>25. QED
  BY <1>1, <1>2, <1>3, <1>4, <1>5, <1>6, <1>7, <1>8, <1>9, <1>10, <1>11, <1>12, <1>13,
     <1>14, <1>15, <1>16, <1>17, <1>18, <1>19, <1>20, <1>21, <1>22, <1>23, <1>24 DEF
     Next, Ytdlp, Stranger, Worker, MoveFile, Publishes, Sweep

-----------------------------------------------------------------------------
(* Which places are taken                                                  *)

\* Which places are taken after a move ...
LEMMA TakenMoves ==
  ASSUME OneEach, NEW g \in Files, NEW p, NEW R, Moves(g, p, R), NEW q, q # Nowhere
  PROVE  /\ Taken(q)' => q = p \/ Taken(q)
         /\ Taken(q) /\ q # at[g] /\ (\A f \in Files : f \in R => at[f] # q) => Taken(q)'
         /\ q = at[g] /\ q # p => ~Taken(q)'
         /\ q = p => Taken(q)'
<1>1. \A f \in Files : at'[f] = IF f = g THEN p ELSE IF f \in R THEN Nowhere ELSE at[f]
  BY DEF Moves
<1>2. Taken(q)' <=> \E f \in Files : at'[f] = q
  BY DEF Taken, Files
<1>3. Taken(q) <=> \E f \in Files : at[f] = q
  BY DEF Taken
<1>4. QED
  BY <1>1, <1>2, <1>3 DEF OneEach, Kept

\* ... after a removal ...
LEMMA TakenRemove ==
  ASSUME NEW R, at' = Remove(R), NEW q, q # Nowhere
  PROVE  /\ Taken(q)' => Taken(q)
         /\ Taken(q) /\ (\A f \in Files : f \in R => at[f] # q) => Taken(q)'
<1>1. \A f \in Files : at'[f] = IF f \in R THEN Nowhere ELSE at[f]
  BY DEF Remove
<1>2. Taken(q)' <=> \E f \in Files : at'[f] = q
  BY DEF Taken, Files
<1>3. Taken(q) <=> \E f \in Files : at[f] = q
  BY DEF Taken
<1>4. QED
  BY <1>1, <1>2, <1>3

\* ... and when nothing moves.
LEMMA TakenSame ==
  ASSUME at' = at, NEW q
  PROVE  Taken(q)' <=> Taken(q)
BY DEF Taken, Files

\* A place that a stranger takes from a file stays taken.
LEMMA TakenReplace ==
  ASSUME Base, NEW x \in Foreign, Replace(x), NEW q, q # Nowhere
  PROVE  Taken(q)' <=> Taken(q)
<1>1. PICK victim \in Files : Interfere(x, at[victim], victim) /\ victim # x
  BY ReplaceIs
<1>2. at[x] = Nowhere /\ Moves(x, at[victim], {victim}) /\ x \in Files /\ OneEach
  BY <1>1, InterfereMoves, FilesAre, BaseHas
<1>3. Taken(q)' => q = at[victim] \/ Taken(q)
  BY <1>2, TakenMoves
<1>4. Taken(at[victim])
  BY DEF Taken
<1>5. Taken(q) /\ q # at[victim] => Taken(q)'
  BY <1>2, TakenMoves
<1>6. q = at[victim] => Taken(q)'
  BY <1>2, TakenMoves
<1>7. QED
  BY <1>3, <1>4, <1>5, <1>6

\* Places in the staging directory and the quarantine that were free.
LEMMA NewlyTaken ==
  ASSUME Base, [Next]_vars, pc # "ytdlp", NEW q, q.dir \in {"stage", "held"},
         Taken(q)', ~Taken(q)
  PROVE  \/ \E x \in Foreign : q = In("stage", x)
         \/ /\ q = HeldCaption
            /\ ~(\E f \in Files : at'[f] = CaptionPlace)
         \/ /\ q = CaptionPlace
            /\ ~(\E f \in Files : at'[f] = HeldCaption)
         \/ \E m \in Media : q = Held(m) /\ m = Head(todo) /\ ~Taken(Staged(m))'
<1>0. q # Nowhere /\ OneEach /\ at' # at
  BY InIs, BaseHas, TakenSame
<1> USE <1>0
<1>1. ASSUME NEW g \in Files, NEW p, NEW R, Moves(g, p, R) PROVE q = p
  BY <1>1, TakenMoves
<1>2. \A R : at' # Remove(R)
  BY TakenRemove
<1>3. ASSUME NEW x \in Foreign, Replace(x) \/ Deposit(x) \/ Squat(x)
      PROVE  q = In("stage", x)
  <2>1. CASE Deposit(x)
    <3>1. Moves(x, In("stage", x), {x})
      BY <2>1, InterfereMoves DEF Deposit
    <3>2. QED
      BY <1>1, <3>1, FilesAre
  <2>2. CASE Squat(x)
    <3>1. PICK p \in Places : p.dir = "download" /\ Moves(x, p, {x})
      BY <2>2, SquatAt
    <3>2. QED
      BY <1>1, <3>1, FilesAre
  <2>3. QED
    BY <1>3, <2>1, <2>2, TakenReplace
<1>4. ~MoveFile
  <2>1. SUFFICES ASSUME MoveFile PROVE FALSE
    OBVIOUS
  <2>2. excused' = excused
    BY <2>1 DEF MoveFile, MoveKeeps
  <2>3. \A p \in Places : \A R : p.dir = "download" =>
          ~Moves(Placeholder, p, R) /\ (Taken(move.from) => ~Moves(FileAt(move.from), p, R))
    BY <1>1, FilesAre, FileAtIs
  <2>4. ~MoveFlagged
    BY <2>2, <2>3, MoveFlaggedAt DEF MoveFlagged
  <2>5. ~Reserve
    BY <2>2, <2>3, ReserveAt
  <2>6. ~RenameReserved
    BY <1>2, <2>2, <2>3, RenameReservedAt
  <2>7. QED
    BY <2>1, <2>4, <2>5, <2>6 DEF MoveFile, MoveFails
<1>5. CASE QuarantineCaption
  <2>1. /\ Moves(FileAt(CaptionPlace), HeldCaption, {}) /\ FileAt(CaptionPlace) \in Files
        /\ at[FileAt(CaptionPlace)] = CaptionPlace
    BY <1>5, QuarantineAt, FileAtIs DEF QuarantineCaption
  <2>2. q = HeldCaption
    BY <1>1, <2>1
  <2>3. CaptionPlace # HeldCaption /\ CaptionPlace # Nowhere
    BY InIs DEF CaptionPlace, HeldCaption
  <2>4. pc = "take caption"
    BY <1>5 DEF QuarantineCaption
  <2>5. \A f \in Files : at'[f] # CaptionPlace
    BY <2>1, <2>3 DEF Moves, OneEach, Kept
  <2>6. QED
    BY <2>2, <2>4, <2>5
<1>6. CASE at' = Restored /\ pc \in {"check caption", "caption published"} /\ excused' = excused
  <2>1. /\ Taken(HeldCaption) /\ Moves(FileAt(HeldCaption), CaptionPlace, {})
        /\ at[FileAt(HeldCaption)] = HeldCaption /\ FileAt(HeldCaption) \in Files
    BY <1>6, RestoredAt, FileAtIs
  <2>2. q = CaptionPlace
    BY <1>1, <2>1
  <2>3. CaptionPlace # HeldCaption /\ HeldCaption # Nowhere
    BY InIs DEF CaptionPlace, HeldCaption
  <2>4. \A f \in Files : at'[f] # HeldCaption
    BY <2>1, <2>3 DEF Moves, OneEach, Kept
  <2>5. QED
    BY <1>6, <2>2, <2>4
<1>7. ~ConvertNext
  <2>1. SUFFICES ASSUME ConvertNext PROVE FALSE
    OBVIOUS
  <2>2. PICK m : /\ m = Head(todo) /\ pc = "convert" /\ todo # <<>> /\ excused' = excused
                 /\ at' = [at EXCEPT ![Output(m)] = In("convert", Output(m))]
    BY <2>1 DEF ConvertNext
  <2>3. Moves(Output(m), In("convert", Output(m)), {}) /\ m \in Media
    BY <2>2, ConvertAt
  <2>4. q = In("convert", Output(m))
    BY <1>1, <2>3, FilesAre
  <2>5. QED
    BY <2>4, InIs
<1>8. ASSUME NEW m, at' = RemoveTemp(m), excused' = excused PROVE FALSE
  BY <1>2, <1>8, RemoveTempAt
<1>9. ~FfmpegEnds /\ ~OutputInstalled
  BY <1>8 DEF FfmpegEnds, OutputInstalled
<1>10. CASE Retire
  <2>1. PICK m : /\ m = Head(todo) /\ pc = "retire" /\ excused' = excused /\ Taken(Staged(m))
                 /\ at' = [at EXCEPT ![FileAt(Staged(m))] = Held(m)]
    BY <1>10 DEF Retire
  <2>2. /\ Moves(FileAt(Staged(m)), Held(m), {}) /\ FileAt(Staged(m)) \in Files /\ m \in Media
        /\ at[FileAt(Staged(m))] = Staged(m)
    BY <2>1, RetireAt
  <2>3. q = Held(m)
    BY <1>1, <2>2
  <2>4. Staged(m) # Held(m) /\ Staged(m) # Nowhere
    BY InIs DEF Staged, Held
  <2>5. ~Taken(Staged(m))'
    BY <2>2, <2>4, TakenMoves
  <2>6. QED
    BY <2>1, <2>2, <2>3, <2>5
<1>11. ~CheckRetired
  <2>1. SUFFICES ASSUME CheckRetired PROVE FALSE
    OBVIOUS
  <2>2. Taken(Held(Head(todo))) /\ excused' = excused
    BY <2>1, BaseHas DEF CheckRetired, HandInv
  <2>3. at' = [at EXCEPT ![FileAt(Held(Head(todo)))] = Nowhere]
    BY <2>1 DEF CheckRetired
  <2>4. QED
    BY <1>2, <2>2, <2>3, RetiredAt
<1>12. ~Verify
  BY <1>2, VerifyAt
<1>13. \A p \in Places : ~SweepOne(p)
  <2>1. SUFFICES ASSUME NEW p \in Places, SweepOne(p) PROVE FALSE
    OBVIOUS
  <2>2. \A r \in Places, g \in Files : r.dir = "download" => ~Moves(g, r, {})
    BY <1>1
  <2>3. QED
    BY <1>2, <2>1, <2>2, SweepOneAt
<1>14. QED
  BY <1>3, <1>4, <1>5, <1>6, <1>7, <1>9, <1>10, <1>11, <1>12, <1>13
     DEF Next, vars, Ytdlp, Fetch, FinishStreams, Merge, Tidy, ReportFinished, YtdlpStep, YtdlpExits,
         Stranger, CancelSession, Worker, HandOff, Publishes, Published, TakeCaption,
         CheckCaption, CaptionPublished, InstallNext, PublishPending, CaptionFallback, Converted,
         Decide, ReplacementInstalled, Drop, Stops, Sweep, SweepBegins, SweepEnds, SweepDies

\* How a step of an install ends: it fails, has a name reserved, or the file is
\* in the download folder.
Failing ==
  /\ pc' = move.next /\ move'.next = move.next /\ move'.from = move.from
  /\ move'.result = "failed" /\ move'.file = Placeholder
  /\ IF Taken(move.from) THEN Fault ELSE NoFault
  /\ at' = at \/ at' = Remove({Placeholder})
Reserving(to) ==
  /\ pc = "move" /\ pc' = "rename" /\ move'.next = move.next /\ move'.from = move.from
  /\ to.dir = "download" /\ Moves(Placeholder, to, {}) /\ NoFault /\ Taken(move.from)
Renaming(to, R) ==
  /\ pc' = move.next /\ move'.next = move.next /\ move'.from = move.from
  /\ Taken(move.from) /\ move'.file = FileAt(move.from)
  /\ to.dir = "download" /\ Moves(FileAt(move.from), to, R)
  /\ \/ move'.result = "ok" /\ NoFault
     \/ move'.result = "unsynced" /\ Fault

\* An install fails, reserves its place or renames the file, and changes nothing else.
LEMMA MoveFileIs ==
  ASSUME Base, MoveFile
  PROVE  /\ pc \in MovePcs /\ move.next \in {"published", "caption published", "output", "replacement"}
         /\ UNCHANGED <<known, owned, preserve, completed, failed, todo, task, sweep, excused>>
         /\ UNCHANGED <<choice, root, recorded, cancelled>>
         /\ \/ Failing
            \/ \E to \in Places : Reserving(to)
            \/ \E to \in Places, R \in SUBSET {Placeholder} : Renaming(to, R)
<1>1. MoveInv
  BY BaseHas
<1>2. pc \in MovePcs /\ MoveKeeps /\ excused' = excused
  BY DEF MoveFile, MoveKeeps, MoveFails, MoveFlagged, Reserve, RenameReserved, MovePcs
<1>3. move.next \in {"published", "caption published", "output", "replacement"}
  BY <1>1, <1>2 DEF MoveInv
<1>4. ASSUME NEW to \in Places, NEW R \in SUBSET {Placeholder}, Rename(to), Taken(move.from),
             to.dir = "download", Moves(FileAt(move.from), to, R)
      PROVE  Renaming(to, R) /\ UNCHANGED <<choice, root, recorded, cancelled>>
  <2>1. PICK result \in {"ok", "unsynced"} :
          /\ IF result = "ok" THEN NoFault ELSE Fault
          /\ Moved(result, FileAt(move.from))
    BY <1>4 DEF Rename
  <2>2. /\ move'.from = move.from /\ move'.next = move.next /\ move'.result = result
        /\ move'.file = FileAt(move.from) /\ pc' = move.next
        /\ UNCHANGED <<choice, root, recorded, cancelled>>
    BY <1>1, <2>1, MovedIs
  <2>3. QED
    BY <1>4, <2>1, <2>2 DEF Renaming
<1>5. ASSUME Moved("failed", Placeholder), at' = at \/ at' = Remove({Placeholder}),
             IF Taken(move.from) THEN Fault ELSE NoFault
      PROVE  Failing /\ UNCHANGED <<choice, root, recorded, cancelled>>
  BY <1>1, <1>5, MovedIs DEF Failing
<1>6. CASE MoveFails
  BY <1>2, <1>3, <1>5, <1>6 DEF MoveFails, MoveKeeps
<1>7. CASE MoveFlagged
  <2>1. Taken(move.from)
    BY <1>7 DEF MoveFlagged
  <2>2. QED
    BY <1>2, <1>3, <1>4, <1>7, <2>1, MoveFlaggedAt DEF MoveKeeps
<1>8. CASE Reserve
  <2>1. PICK to \in Places : /\ to.dir = "download" /\ Moves(Placeholder, to, {})
                             /\ move' = [move EXCEPT !.to = to]
    BY <1>2, <1>8, ReserveAt
  <2>2. move'.next = move.next /\ move'.from = move.from
    BY <1>1, <2>1 DEF MoveInv
  <2>3. /\ pc = "move" /\ pc' = "rename" /\ NoFault /\ Taken(move.from)
        /\ UNCHANGED <<choice, root, recorded, cancelled>>
    BY <1>8 DEF Reserve, Goto
  <2>4. Reserving(to)
    BY <2>1, <2>2, <2>3 DEF Reserving
  <2>5. QED
    BY <1>2, <1>3, <2>3, <2>4 DEF MoveKeeps
<1>9. CASE RenameReserved
  <2>1. CASE /\ at' = Remove({Placeholder}) /\ Moved("failed", Placeholder)
             /\ IF Taken(move.from) THEN Fault ELSE NoFault
    BY <1>2, <1>3, <1>5, <2>1 DEF MoveKeeps
  <2>2. QED
    BY <1>2, <1>3, <1>4, <1>9, <2>1, RenameReservedAt DEF MoveKeeps
<1>10. QED
  BY <1>6, <1>7, <1>8, <1>9 DEF MoveFile

\* Places in the staging directory and the quarantine that are left.
LEMMA NoLonger ==
  ASSUME Base, [Next]_vars, NEW q, q.dir \in {"stage", "held"}, Taken(q), ~Taken(q)'
  PROVE  \/ pc = "ytdlp" /\ \A m : q # Staged(m)
         \/ MoveFile /\ q = move.from /\ \E to \in Places, R \in SUBSET {Placeholder} : Renaming(to, R)
         \/ QuarantineCaption /\ q = CaptionPlace
         \/ (CheckCaption \/ CaptionPublished) /\ q = HeldCaption
         \/ Retire /\ q = Staged(Head(todo)) /\ at' # at
         \/ CheckRetired /\ q = Held(Head(todo)) /\ at' # at
         \/ Verify \/ \E p \in Places : SweepOne(p)
<1>0. q # Nowhere /\ OneEach /\ PlaceInv /\ at' # at
  BY InIs, BaseHas, TakenSame
<1> USE <1>0
<1>1. ASSUME NEW g \in Files, NEW p, NEW R, Moves(g, p, R), \A f \in Files : f \in R => at[f] # q
      PROVE  at[g] = q
  BY <1>1, TakenMoves
<1>2. ASSUME NEW R, at' = Remove(R) PROVE \E f \in Files : f \in R /\ at[f] = q
  BY <1>2, TakenRemove
<1>3. ASSUME NEW m \in Media, Fetch(m) \/ FinishStreams(m) \/ Merge(m) \/ Tidy(m)
      PROVE  pc = "ytdlp" /\ \A k : q # Staged(k)
  <2>1. pc = "ytdlp"
    BY <1>3 DEF Fetch, FinishStreams, Merge, Tidy, YtdlpStep
  <2>2. PICK g \in Files : at[g] = q
    BY DEF Taken
  <2>3. at'[g] # at[g]
    BY <2>2 DEF Taken, Files
  <2>4. g \in {Stream(m), Thumb(m), Caption(m), Whole(m)}
    BY <1>3, <2>3 DEF Fetch, FinishStreams, Merge, Tidy, YtdlpStep
  <2>5. ASSUME NEW k, q = Staged(k) PROVE FALSE
    <3>1. g = Whole(k) \/ g \in Foreign
      BY <2>2, <2>5, AtWhole
    <3>2. g = Whole(m)
      BY <2>4, <3>1, Kinds
    <3>3. Stream(m) \in Files /\ Whole(m) \in Files
      BY FilesAre
    <3>4. ASSUME NEW moved, YtdlpStep(moved), Whole(m) \notin DOMAIN moved PROVE FALSE
      BY <2>3, <3>2, <3>3, <3>4, YtdlpMoves
    <3>5. ~FinishStreams(m) /\ ~Tidy(m)
      BY <3>4, Kinds DEF FinishStreams, Tidy
    <3>6. at[Whole(m)] # Nowhere
      BY <2>2, <3>2
    <3>7. QED
      BY <1>3, <3>5, <3>6 DEF Fetch, Merge
  <2>6. QED
    BY <2>1, <2>5
<1>4. ASSUME NEW x \in Foreign, Replace(x) \/ Deposit(x) \/ Squat(x)
      PROVE  FALSE
  <2>1. CASE Deposit(x)
    <3>1. Moves(x, In("stage", x), {x}) /\ at[x] = Nowhere
      BY <2>1, InterfereMoves DEF Deposit
    <3>2. QED
      BY <1>1, <3>1, FilesAre
  <2>2. CASE Squat(x)
    <3>1. (\E p \in Places : p.dir = "download" /\ Moves(x, p, {x})) /\ at[x] = Nowhere
      BY <2>2, SquatAt DEF Squat, Interfere
    <3>2. QED
      BY <1>1, <3>1, FilesAre
  <2>3. QED
    BY <1>4, <2>1, <2>2, TakenReplace
<1>5. CASE MoveFile
  <2>1. /\ pc \in MovePcs
        /\ \/ Failing
           \/ \E to \in Places : Reserving(to)
           \/ \E to \in Places, R \in SUBSET {Placeholder} : Renaming(to, R)
    BY <1>5, MoveFileIs
  <2>2. at[Placeholder] # q /\ Placeholder \in Files
    BY FilesAre DEF PlaceInv, InFolder
  <2>3. ~Failing
    BY <1>2, <2>2 DEF Failing
  <2>4. \A to \in Places : ~Reserving(to)
    BY <1>1, <2>2 DEF Reserving
  <2>5. PICK to \in Places, R \in SUBSET {Placeholder} : Renaming(to, R)
    BY <2>1, <2>3, <2>4
  <2>6. FileAt(move.from) \in Files /\ at[FileAt(move.from)] = move.from
    BY <2>5, FileAtIs DEF Renaming
  <2>7. at[FileAt(move.from)] = q
    BY <1>1, <2>2, <2>5, <2>6 DEF Renaming
  <2>8. QED
    BY <1>5, <2>5, <2>6, <2>7
<1>6. CASE QuarantineCaption
  <2>1. /\ Moves(FileAt(CaptionPlace), HeldCaption, {}) /\ FileAt(CaptionPlace) \in Files
        /\ at[FileAt(CaptionPlace)] = CaptionPlace
    BY <1>6, QuarantineAt, FileAtIs DEF QuarantineCaption
  <2>2. q = CaptionPlace
    BY <1>1, <2>1
  <2>3. QED
    BY <1>6, <2>2
<1>7. CASE CheckCaption \/ CaptionPublished
  <2>1. /\ at' = Restored /\ excused' = excused
        /\ pc \in {"check caption", "caption published"}
    BY <1>7 DEF CheckCaption, CaptionPublished
  <2>2. /\ Moves(FileAt(HeldCaption), CaptionPlace, {})
        /\ at[FileAt(HeldCaption)] = HeldCaption /\ FileAt(HeldCaption) \in Files
    BY <2>1, RestoredAt, FileAtIs
  <2>3. q = HeldCaption
    BY <1>1, <2>2
  <2>4. QED
    BY <1>7, <2>3
<1>8. ~ConvertNext
  <2>1. SUFFICES ASSUME ConvertNext PROVE FALSE
    OBVIOUS
  <2>2. PICK m : /\ m = Head(todo) /\ pc = "convert" /\ todo # <<>> /\ excused' = excused
                 /\ at' = [at EXCEPT ![Output(m)] = In("convert", Output(m))]
    BY <2>1 DEF ConvertNext
  <2>3. Moves(Output(m), In("convert", Output(m)), {}) /\ m \in Media /\ at[Output(m)] = Nowhere
    BY <2>2, ConvertAt
  <2>4. QED
    BY <1>1, <2>3, FilesAre
<1>9. ASSUME NEW m, at' = RemoveTemp(m), excused' = excused PROVE FALSE
  <2>1. at[Output(m)] = In("convert", Output(m)) /\ at' = Remove({Output(m)})
    BY <1>9, RemoveTempAt
  <2>2. QED
    BY <1>2, <2>1, InIs
<1>10. ~FfmpegEnds /\ ~OutputInstalled
  BY <1>9 DEF FfmpegEnds, OutputInstalled
<1>11. CASE Retire
  <2>1. PICK m : /\ m = Head(todo) /\ pc = "retire" /\ excused' = excused /\ Taken(Staged(m))
                 /\ at' = [at EXCEPT ![FileAt(Staged(m))] = Held(m)] /\ pc' = "check retired"
    BY <1>11 DEF Retire, Goto
  <2>2. /\ Moves(FileAt(Staged(m)), Held(m), {}) /\ FileAt(Staged(m)) \in Files /\ m \in Media
        /\ at[FileAt(Staged(m))] = Staged(m)
    BY <2>1, RetireAt
  <2>3. q = Staged(m)
    BY <1>1, <2>2
  <2>4. QED
    BY <1>0, <1>11, <2>1, <2>3
<1>12. CASE CheckRetired
  <2>1. PICK m : m = Head(todo)
    OBVIOUS
  <2>2. Taken(Held(m)) /\ excused' = excused /\ pc = "check retired"
    BY <1>12, <2>1, BaseHas DEF CheckRetired, HandInv
  <2>3. at' = [at EXCEPT ![FileAt(Held(m))] = Nowhere] /\ pc' = "converted"
    BY <1>12, <2>1 DEF CheckRetired, Goto
  <2>4. at[FileAt(Held(m))] = Held(m) /\ at' = Remove({FileAt(Held(m))})
    BY <2>2, <2>3, RetiredAt
  <2>5. q = Held(m)
    BY <1>2, <2>4
  <2>6. QED
    BY <1>0, <1>12, <2>1, <2>5
<1>13. ~Drop /\ ~Stops /\ ~SweepBegins /\ ~SweepEnds /\ ~SweepDies
  BY DEF Drop, Stops, SweepBegins, SweepEnds, SweepDies
<1>14. QED
  BY <1>3, <1>4, <1>5, <1>6, <1>7, <1>8, <1>10, <1>11, <1>12, <1>13
     DEF Next, vars, Ytdlp, ReportFinished, YtdlpExits, Stranger, CancelSession, Worker, HandOff,
         Publishes, Published, TakeCaption, InstallNext, PublishPending, CaptionFallback, Converted,
         Decide, ReplacementInstalled, Sweep

-----------------------------------------------------------------------------
(* What yt-dlp has begun with, and what has been taken                     *)

\* While yt-dlp runs, it, other programs and cancels are all that acts.
LEMMA YtdlpStays ==
  ASSUME Base, [Next]_vars, pc' = "ytdlp"
  PROVE  /\ pc = "ytdlp" /\ UNCHANGED <<completed, failed>>
         /\ \/ \E m \in Media : Fetch(m) \/ FinishStreams(m) \/ Merge(m) \/ Tidy(m)
            \/ \E x \in Foreign : Replace(x) \/ Deposit(x) \/ Squat(x)
            \/ at' = at /\ excused' = excused
<1>1. /\ pc \in MovePcs => move.next \in {"published", "caption published", "output", "replacement"}
      /\ Publishing => task.next \in {"install", "pending", "converted", "caption fallback"}
  BY BaseHas DEF MoveInv, TaskInv
<1>2. ~MoveFile
  <2>1. SUFFICES ASSUME MoveFile PROVE FALSE
    OBVIOUS
  <2>2. pc' \in {"published", "caption published", "output", "replacement", "rename"}
    BY <2>1, MoveFileIs DEF Failing, Reserving, Renaming
  <2>3. QED
    BY <2>2
<1>3. ~Worker
  <2>1. ~(HandOff \/ Publishes \/ InstallNext \/ PublishPending)
    BY <1>1, PublishIs, InstallIs DEF HandOff, Publishes, InstallNext, PublishPending, Published, Ends,
       TakeCaption, QuarantineCaption, CheckCaption, CaptionPublished, CaptionFails, Goto,
       Publishing, CaptionPcs
  <2>2. ~(ConvertNext \/ FfmpegEnds \/ OutputInstalled \/ CaptionFallback \/ Converted)
    BY PublishIs, InstallIs DEF ConvertNext, FfmpegEnds, OutputInstalled, CaptionFallback,
       Converted, Goto
  <2>3. ~(Decide \/ Retire \/ CheckRetired \/ ReplacementInstalled \/ Drop \/ Verify)
    BY PublishIs, InstallIs DEF Decide, Retire, CheckRetired, ReplacementInstalled, Drop, Verify, Goto
  <2>4. QED
    BY <1>2, <2>1, <2>2, <2>3 DEF Worker
<1>4. ~Stops /\ ~Sweep /\ ~CancelSession
  BY DEF Stops, Sweep, SweepBegins, SweepEnds, SweepDies, SweepOne, CancelSession
<1>5. \A u, d : ~YtdlpExits(u, d)
  BY DEF YtdlpExits, Goto
<1>6. QED
  BY <1>3, <1>4, <1>5 DEF Next, vars, session, Ytdlp, Stranger, Fetch, FinishStreams, Merge, Tidy,
     YtdlpStep, ReportFinished, Replace, Deposit, Squat, Interfere

\* What yt-dlp does to the files of one entry.
LEMMA YtdlpTouches ==
  ASSUME NEW m \in Media, Fetch(m) \/ FinishStreams(m) \/ Merge(m) \/ Tidy(m), NEW f \in Files
  PROVE  /\ at'[f] = at[f] \/ f \in {Stream(m), Thumb(m), Caption(m), Whole(m)}
         /\ at'[f] = at[f] \/ at'[f] = Nowhere \/ at'[f].dir = "stage"
         /\ excused' = excused
<1> USE InIs
<1>1. ASSUME NEW moved, YtdlpStep(moved)
      PROVE  /\ at'[f] = (IF f \in DOMAIN moved THEN moved[f] ELSE at[f]) /\ excused' = excused
  BY <1>1 DEF YtdlpStep
<1>2. CASE Fetch(m)
  BY <1>1, <1>2 DEF Fetch
<1>3. CASE FinishStreams(m)
  BY <1>1, <1>3 DEF FinishStreams
<1>4. CASE Merge(m)
  BY <1>1, <1>4 DEF Merge, Staged
<1>5. CASE Tidy(m)
  BY <1>1, <1>5 DEF Tidy
<1>6. QED
  BY <1>2, <1>3, <1>4, <1>5

\* Of an entry that is not begun there is nothing.
Begun(m) ==
  at[Stream(m)] = Nowhere /\ at[Whole(m)] = Nowhere /\ Whole(m) \notin excused =>
     /\ at[Thumb(m)] = Nowhere
     /\ m \in Captioned => at[Caption(m)] = Nowhere /\ Caption(m) \notin excused

\* Of an entry yt-dlp has not begun with there is nothing, after every step.
LEMMA BegunStep ==
  ASSUME Base, [Next]_vars, pc' = "ytdlp", NEW m \in Media
  PROVE  Begun(m)'
<1>1. pc = "ytdlp" /\ Begun(m) /\ PlaceInv
  BY YtdlpStays, BaseHas DEF YtdlpInv, Begun
<1>2. /\ Stream(m) \in Files /\ Whole(m) \in Files /\ Thumb(m) \in Files
      /\ m \in Captioned => Caption(m) \in Files
  BY FilesAre
<1>3. Nowhere' = Nowhere
  BY DEF Nowhere
<1> USE <1>1, <1>2, <1>3 DEF Begun
<1>4. ASSUME NEW k \in Media, Fetch(k) \/ FinishStreams(k) \/ Merge(k) \/ Tidy(k)
      PROVE  Begun(m)'
  <2>1. CASE k # m
    <3>0. \A f \in Files : at'[f] = at[f] \/ f \in {Stream(k), Thumb(k), Caption(k), Whole(k)}
      BY <1>4, YtdlpTouches
    <3>1. \A f \in {Stream(m), Whole(m), Thumb(m)} : at'[f] = at[f]
      BY <2>1, <3>0, Kinds
    <3>2. m \in Captioned => at'[Caption(m)] = at[Caption(m)]
      BY <2>1, <3>0, Kinds
    <3>3. excused' = excused
      BY <1>4, YtdlpTouches
    <3>4. QED
      BY <3>1, <3>2, <3>3
  <2>2. CASE k = m /\ Fetch(m)
    <3>1. at'[Stream(m)] = In("stage", Part(m))
      BY <2>2 DEF Fetch, YtdlpStep
    <3>2. QED
      BY <3>1, InIs
  <2>3. CASE k = m /\ FinishStreams(m)
    <3>1. at'[Stream(m)] = In("stage", Stream(m))
      BY <2>3 DEF FinishStreams, YtdlpStep
    <3>2. QED
      BY <3>1, InIs
  <2>4. CASE k = m /\ Merge(m)
    <3>1. at'[Whole(m)] = Staged(m)
      BY <2>4 DEF Merge, YtdlpStep
    <3>2. QED
      BY <3>1, InIs DEF Staged
  <2>5. CASE k = m /\ Tidy(m)
    <3>1. PICK f \in Files : at[f] = Staged(m)
      BY <2>5 DEF Tidy, Taken
    <3>2. f = Whole(m) \/ Whole(m) \in excused
      BY <3>1, AtWhole
    <3>3. at'[Whole(m)] = at[Whole(m)] /\ excused' = excused
      BY <2>5, Kinds DEF Tidy, YtdlpStep
    <3>4. at[Whole(m)] # Nowhere \/ Whole(m) \in excused
      BY <3>1, <3>2, InIs DEF Staged
    <3>5. QED
      BY <3>3, <3>4
  <2>6. QED
    BY <1>4, <2>1, <2>2, <2>3, <2>4, <2>5
<1>5. ASSUME NEW x \in Foreign, Deposit(x) \/ Squat(x) PROVE Begun(m)'
  <2>1. PICK p : Interfere(x, p, x)
    BY <1>5 DEF Deposit, Squat
  <2>2. \A f \in Files : f # x => at'[f] = at[f]
    BY <2>1 DEF Interfere
  <2>3. excused' = excused
    BY <2>1, InterfereMoves
  <2>4. x \notin {Stream(m), Whole(m), Thumb(m), Caption(m)}
    BY Kinds
  <2>5. QED
    BY <2>2, <2>3, <2>4
<1>6. ASSUME NEW x \in Foreign, Replace(x) PROVE Begun(m)'
  <2>1. PICK victim \in Files :
           /\ Interfere(x, at[victim], victim) /\ victim # x
           /\ \/ \E k \in Media : victim = Whole(k) /\ at[victim] = Staged(k)
              \/ \E k \in Captioned : victim = Caption(k) /\ at[victim] = In("stage", Caption(k))
    BY <1>6, ReplaceIs
  <2>2. \A f \in Files : f # x /\ f # victim => at'[f] = at[f]
    BY <2>1 DEF Interfere
  <2>3. excused' = excused \cup {victim}
    BY <2>1, InterfereMoves
  <2>4. x \notin {Stream(m), Whole(m), Thumb(m), Caption(m)} /\ victim # Stream(m) /\ victim # Thumb(m)
    BY <2>1, Kinds
  <2>5. CASE victim = Whole(m)
    BY <2>3, <2>5
  <2>6. CASE m \in Captioned /\ victim = Caption(m)
    <3>1. at[Caption(m)] # Nowhere
      BY <2>1, <2>6, Kinds, InIs DEF Staged
    <3>2. at'[Stream(m)] = at[Stream(m)] /\ at'[Whole(m)] = at[Whole(m)]
      BY <2>2, <2>4, <2>6, Kinds
    <3>3. QED
      BY <2>3, <2>6, <3>1, <3>2
  <2>7. CASE victim # Whole(m) /\ ~(m \in Captioned /\ victim = Caption(m))
    <3>1. m \in Captioned => Caption(m) \notin {victim}
      BY <2>7
    <3>2. QED
      BY <2>2, <2>3, <2>4, <2>7, <3>1
  <2>8. QED
    BY <2>5, <2>6, <2>7
<1>7. QED
  BY <1>4, <1>5, <1>6, YtdlpStays

\* While yt-dlp runs there is nothing in the private directories, and nothing
\* of the session in the download folder.
LEMMA OutsideStep ==
  ASSUME Base, [Next]_vars, pc' = "ytdlp", NEW f \in Files
  PROVE  at'[f].dir \notin {"held", "convert"} /\ (InFolder(f)' => f \in Foreign)
<1>1. /\ pc = "ytdlp" /\ at[f].dir \notin {"held", "convert"} /\ (at[f].dir = "download" => f \in Foreign)
      /\ PlaceInv
  BY YtdlpStays, BaseHas DEF YtdlpInv, InFolder
<1>2. \/ at'[f] = at[f] \/ at'[f] = Nowhere \/ at'[f].dir = "stage"
      \/ f \in Foreign /\ at'[f].dir = "download"
  <2>1. ASSUME NEW m \in Media, Fetch(m) \/ FinishStreams(m) \/ Merge(m) \/ Tidy(m)
        PROVE  at'[f] = at[f] \/ at'[f] = Nowhere \/ at'[f].dir = "stage"
    BY <2>1, YtdlpTouches
  <2>2. ASSUME NEW x \in Foreign, Replace(x)
        PROVE  at'[f] = at[f] \/ at'[f] = Nowhere \/ at'[f].dir = "stage"
    <3>1. PICK victim \in Files :
           /\ Interfere(x, at[victim], victim)
           /\ \/ \E k \in Media : at[victim] = Staged(k)
              \/ \E k \in Captioned : at[victim] = In("stage", Caption(k))
      BY <2>2, ReplaceIs
    <3>2. at[victim].dir = "stage"
      BY <3>1, InIs DEF Staged
    <3>3. QED
      BY <3>1, <3>2 DEF Interfere
  <2>3. ASSUME NEW x \in Foreign, Deposit(x)
        PROVE  at'[f] = at[f] \/ at'[f] = Nowhere \/ at'[f].dir = "stage"
    BY <2>3, InIs DEF Deposit, Interfere
  <2>4. ASSUME NEW x \in Foreign, Squat(x)
        PROVE  at'[f] = at[f] \/ (f \in Foreign /\ at'[f].dir = "download")
    <3>1. PICK p \in Places : p.dir = "download" /\ Moves(x, p, {x})
      BY <2>4, SquatAt
    <3>2. QED
      BY <3>1 DEF Moves
  <2>5. QED
    BY <2>1, <2>2, <2>3, <2>4, YtdlpStays
<1>3. QED
  BY <1>1, <1>2, InIs DEF InFolder

\* Every step keeps YtdlpInv.
LEMMA YtdlpInvStep ==
  ASSUME Base, [Next]_vars
  PROVE  YtdlpInv'
<1>1. SUFFICES ASSUME pc' = "ytdlp" PROVE YtdlpInv'
  BY DEF YtdlpInv
<1>2. completed' = {} /\ failed' = {}
  BY <1>1, YtdlpStays, BaseHas DEF YtdlpInv
<1>3. \A f \in Files : at'[f].dir \notin {"held", "convert"} /\ (InFolder(f)' => f \in Foreign)
  BY <1>1, OutsideStep
<1>4. \A m \in Media : Begun(m)'
  BY <1>1, BegunStep
<1>5. QED
  BY <1>2, <1>3, <1>4 DEF YtdlpInv, Begun, InFolder

\* Every step keeps HeldInv.
LEMMA HeldStep ==
  ASSUME Base, [Next]_vars
  PROVE  HeldInv'
<1>1. \A q : Taken(q)' <=> \E f \in Files : at'[f] = q
  BY DEF Taken, Files
<1>2. HeldInv
  BY BaseHas
<1>3. CASE pc' = "ytdlp"
  <2>1. \A f \in Files : at'[f].dir # "held"
    BY <1>3, OutsideStep
  <2>2. \A m : ~Taken(Held(m))' /\ ~Taken(In("held", Caption(m)))'
    BY <1>1, <2>1, InIs DEF Held
  <2>3. QED
    BY <2>2 DEF HeldInv
<1>4. CASE pc = "ytdlp" /\ pc' # "ytdlp"
  <2>1. at' = at
    BY <1>4 DEF Next, vars, Ytdlp, Fetch, FinishStreams, Merge, Tidy, ReportFinished, YtdlpStep,
       YtdlpExits, Stranger, Replace, Deposit, Squat, Interfere, CancelSession, Worker, HandOff,
       MoveFile, MoveFails, MoveFlagged, Reserve, RenameReserved, Publishes, Published, TakeCaption,
       QuarantineCaption, CheckCaption, CaptionPublished, InstallNext, PublishPending,
       ConvertNext, FfmpegEnds, OutputInstalled, CaptionFallback, Converted, Decide, Retire,
       CheckRetired, ReplacementInstalled, Drop, Verify, Stops, Sweep, SweepBegins, SweepEnds,
       SweepDies, SweepOne
  <2>2. \A q : Taken(q)' <=> Taken(q)
    BY <2>1, TakenSame
  <2>3. QED
    BY <1>2, <2>2 DEF HeldInv
<1>5. CASE pc # "ytdlp"
  <2>1. ASSUME NEW m \in Media, Taken(Staged(m))', Taken(Held(m))' PROVE FALSE
    <3>1. ~Taken(Staged(m)) \/ ~Taken(Held(m))
      BY <1>2 DEF HeldInv
    <3>2. /\ Staged(m).dir = "stage" /\ Held(m).dir = "held"
          /\ \A x \in Foreign : Staged(m) # In("stage", x)
          /\ \A k : Staged(m) # In("stage", Caption(k)) /\ Held(m) # In("held", Caption(k))
          /\ \A k : Held(m) = Held(k) => m = k
      BY InIs, Kinds DEF Staged, Held
    <3>3. \A d, e : In(d, e).dir = d
      BY InIs
    <3>4. CASE ~Taken(Staged(m))
      <4>1. \A k : Staged(m) # Held(k)
        BY <3>2, <3>3 DEF Held
      <4>2. PICK q : q = Staged(m)
        OBVIOUS
      <4>3. q.dir \in {"stage", "held"} /\ Taken(q)' /\ ~Taken(q)
        BY <1>1, <2>1, <3>2, <3>4, <4>2
      <4>4. q # HeldCaption /\ q # CaptionPlace
        BY <3>2, <3>3, <4>2 DEF CaptionPlace, HeldCaption
      <4>5. QED
        BY <1>5, <3>2, <4>1, <4>2, <4>3, <4>4, NewlyTaken
    <3>5. CASE ~Taken(Held(m))
      <4>1. PICK k \in Media : Held(m) = Held(k) /\ ~Taken(Staged(k))'
        <5>1. PICK q : q = Held(m)
          OBVIOUS
        <5>2. q.dir \in {"stage", "held"} /\ Taken(q)' /\ ~Taken(q)
          BY <1>1, <2>1, <3>2, <3>5, <5>1
        <5>3. q # HeldCaption /\ q # CaptionPlace /\ \A x : q # In("stage", x)
          BY <3>2, <3>3, <5>1 DEF CaptionPlace, HeldCaption
        <5>4. QED
          BY <1>5, <5>1, <5>2, <5>3, NewlyTaken
      <4>2. QED
        BY <2>1, <3>2, <4>1
    <3>6. QED
      BY <3>1, <3>4, <3>5
  <2>2. ASSUME NEW m \in Captioned, Taken(In("stage", Caption(m)))', Taken(In("held", Caption(m)))'
        PROVE  FALSE
    <3>1. ~Taken(In("stage", Caption(m))) \/ ~Taken(In("held", Caption(m)))
      BY <1>2 DEF HeldInv
    <3>2. /\ \A d, e : In(d, e).dir = d
          /\ \A d, e, g, h : In(d, e) = In(g, h) => d = g /\ e = h
          /\ \A k : Caption(m) = Caption(k) => m = k
          /\ \A x \in Foreign : Caption(m) # x
          /\ \A k, d : In(d, Caption(m)) # Held(k)
      BY InIs, Kinds DEF Held
    <3>3. CASE ~Taken(In("stage", Caption(m)))
      <4>1. In("stage", Caption(m)) = CaptionPlace /\ ~(\E f \in Files : at'[f] = HeldCaption)
        <5>1. PICK q : q = In("stage", Caption(m))
          OBVIOUS
        <5>2. q.dir \in {"stage", "held"} /\ Taken(q)' /\ ~Taken(q)
          BY <1>1, <2>2, <3>2, <3>3, <5>1
        <5>3. q # HeldCaption /\ (\A x \in Foreign : q # In("stage", x)) /\ \A k : q # Held(k)
          BY <3>2, <5>1 DEF HeldCaption
        <5>4. QED
          BY <1>5, <5>1, <5>2, <5>3, NewlyTaken
      <4>2. HeldCaption = In("held", Caption(m))
        BY <3>2, <4>1 DEF CaptionPlace, HeldCaption
      <4>3. QED
        BY <1>1, <2>2, <4>1, <4>2
    <3>4. CASE ~Taken(In("held", Caption(m)))
      <4>1. In("held", Caption(m)) = HeldCaption /\ ~(\E f \in Files : at'[f] = CaptionPlace)
        <5>1. PICK q : q = In("held", Caption(m))
          OBVIOUS
        <5>2. q.dir \in {"stage", "held"} /\ Taken(q)' /\ ~Taken(q)
          BY <1>1, <2>2, <3>2, <3>4, <5>1
        <5>3. q # CaptionPlace /\ (\A x \in Foreign : q # In("stage", x)) /\ \A k : q # Held(k)
          BY <3>2, <5>1 DEF CaptionPlace
        <5>4. QED
          BY <1>5, <5>1, <5>2, <5>3, NewlyTaken
      <4>2. CaptionPlace = In("stage", Caption(m))
        BY <3>2, <4>1 DEF CaptionPlace, HeldCaption
      <4>3. QED
        BY <1>1, <2>2, <4>1, <4>2
    <3>5. QED
      BY <3>1, <3>3, <3>4
  <2>3. QED
    BY <2>1, <2>2 DEF HeldInv
<1>6. QED
  BY <1>3, <1>4, <1>5

-----------------------------------------------------------------------------
(* What the worker needs is there                                          *)

\* A staged file of an entry is taken away by its install, by its retirement or
\* by the end of the directory.
LEMMA HereStep ==
  ASSUME Base, [Next]_vars, NEW m, Here(m), ~Here(m)'
  PROVE  \/ /\ MoveFile /\ move.next = "published" /\ m = task.media
            /\ \E to \in Places, R \in SUBSET {Placeholder} : Renaming(to, R)
         \/ Retire /\ m = Head(todo) /\ at' # at
         \/ Verify \/ \E p \in Places : SweepOne(p)
<1>1. PICK q : q = Staged(m)
  OBVIOUS
<1>2. /\ q.dir \in {"stage", "held"} /\ Taken(q) /\ ~Taken(q)' /\ q.dir = "stage"
  BY <1>1, InIs DEF Here, Staged
<1>3. /\ \A k : q = Staged(k) => k = m
      /\ q # CaptionPlace /\ q # HeldCaption /\ \A k : q # Held(k) /\ q # In("convert", Output(k))
  BY <1>1, InIs, Kinds DEF Staged, Held, CaptionPlace, HeldCaption
<1>4. CASE MoveFile /\ q = move.from
  <2>1. pc \in MovePcs /\ MoveInv
    BY <1>4, MoveFileIs, BaseHas
  <2>2. move.next = "published" /\ move.from = Staged(task.media)
    BY <1>3, <1>4, <2>1 DEF MoveInv
  <2>3. m = task.media
    BY <1>3, <1>4, <2>2
  <2>4. \E to \in Places, R \in SUBSET {Placeholder} : Renaming(to, R)
    <3>1. q # Held(Head(todo)) /\ pc # "ytdlp"
      BY <1>3, <2>1 DEF MovePcs
    <3>2. ~QuarantineCaption /\ ~CheckCaption /\ ~CaptionPublished /\ ~Retire /\ ~CheckRetired
      BY <2>1 DEF QuarantineCaption, CheckCaption, CaptionPublished, Retire, CheckRetired, MovePcs
    <3>3. ~Verify /\ \A p : ~SweepOne(p)
      BY <2>1 DEF Verify, SweepOne, MovePcs
    <3>4. QED
      BY <1>2, <3>1, <3>2, <3>3, NoLonger
  <2>5. QED
    BY <1>4, <2>2, <2>3, <2>4
<1>5. CASE ~(MoveFile /\ q = move.from)
  <2>1. q # Held(Head(todo)) /\ (q = Staged(Head(todo)) => m = Head(todo))
    BY <1>3
  <2>2. QED
    BY <1>1, <1>2, <1>3, <1>5, <2>1, NoLonger
<1>6. QED
  BY <1>4, <1>5

NeedsHead ==
  \/ pc \in {"ffmpeg", "output", "caption fallback", "decide", "retire"}
  \/ pc \in MovePcs /\ move.next = "output"
  \/ Publishing /\ task.next = "caption fallback"

\* An entry that is needed was needed, or is the next to convert.
LEMMA NeedsHeadStep ==
  ASSUME Base, [Next]_vars
  PROVE  NeedsHead' => todo' = todo /\ (NeedsHead \/ (pc = "convert" /\ todo # <<>>))
<1>a0. /\ pc \in MovePcs => move.next \in {"published", "caption published", "output", "replacement"}
       /\ Publishing => task.next \in {"install", "pending", "converted", "caption fallback"}
  BY BaseHas DEF MoveInv, TaskInv
<1>a1. ASSUME MoveFile
       PROVE  /\ pc \in MovePcs /\ todo' = todo /\ task' = task /\ move'.next = move.next
              /\ pc' = move.next \/ pc' = "rename"
  <2>1. \/ Failing \/ (\E to \in Places : Reserving(to))
        \/ \E to \in Places, R \in SUBSET {Placeholder} : Renaming(to, R)
    BY <1>a1, MoveFileIs
  <2>2. QED
    BY <1>a1, <2>1, MoveFileIs DEF Failing, Reserving, Renaming
<1>a2. ASSUME NEW m, NEW c, NEW i, NEW f, NEW next, Publish(m, c, i, f, next)
       PROVE  pc' = "move" /\ move'.next = "published" /\ task'.media = m /\ task'.next = next
  BY <1>a2, PublishIs
<1> USE <1>a0 DEF NeedsHead, Publishing, CaptionPcs, MovePcs
<1>1. ASSUME NEW m \in Media, Fetch(m) \/ FinishStreams(m) \/ Merge(m) \/ Tidy(m) \/ ReportFinished(m)
     PROVE  NeedsHead' => todo' = todo /\ (NeedsHead \/ (pc = "convert" /\ todo # <<>>))
  BY <1>1 DEF Fetch, FinishStreams, Merge, Tidy, ReportFinished, YtdlpStep
<1>2. ASSUME NEW x \in Foreign, Replace(x) \/ Deposit(x) \/ Squat(x)
     PROVE  NeedsHead' => todo' = todo /\ (NeedsHead \/ (pc = "convert" /\ todo # <<>>))
  BY <1>2 DEF Replace, Deposit, Squat, Interfere
<1>3. CASE \/ HandOff \/ Drop \/ Verify \/ Stops
  BY <1>3 DEF Drop, Verify, Stops, HandOff, Goto
<1>4. CASE \/ SweepBegins \/ SweepEnds \/ SweepDies
  BY <1>4 DEF SweepBegins, SweepEnds, SweepDies, SweepOne, SweepKeeps
<1>5. ASSUME NEW q \in Places, SweepOne(q)
     PROVE  NeedsHead' => todo' = todo /\ (NeedsHead \/ (pc = "convert" /\ todo # <<>>))
  BY <1>5 DEF SweepBegins, SweepEnds, SweepDies, SweepOne, SweepKeeps
<1>6. ASSUME NEW u \in BOOLEAN, NEW d \in BOOLEAN, YtdlpExits(u, d)
      PROVE  NeedsHead' => todo' = todo /\ (NeedsHead \/ (pc = "convert" /\ todo # <<>>))
  BY <1>6 DEF YtdlpExits, Goto
<1>7. CASE CancelSession
  BY <1>7 DEF CancelSession
<1>8. CASE MoveFails /\ MoveKeeps
  BY <1>8, <1>a1 DEF MoveFile
<1>9. CASE MoveFlagged /\ MoveKeeps
  BY <1>9, <1>a1 DEF MoveFile
<1>10. CASE Reserve /\ MoveKeeps
  BY <1>10, <1>a1 DEF MoveFile
<1>11. CASE RenameReserved /\ MoveKeeps
  BY <1>11, <1>a1 DEF MoveFile
<1>12. CASE Published
  BY <1>12 DEF Published, Ends, Goto
<1>13. CASE TakeCaption
  BY <1>13 DEF TakeCaption, CaptionFails, Goto
<1>14. CASE QuarantineCaption
  BY <1>14 DEF QuarantineCaption, Goto
<1>15. CASE CheckCaption
  <2>1. task' = task /\ todo' = todo /\ pc \in CaptionPcs
    BY <1>15 DEF CheckCaption
  <2>2. CASE Install(HeldCaption, Caption(task.media), "caption published")
    <3>1. pc' = "move" /\ move'.next = "caption published"
      BY <2>2, InstallIs
    <3>2. QED
      BY <2>1, <3>1
  <2>3. CASE CaptionFails
    BY <2>1, <2>3 DEF CaptionFails, Goto
  <2>4. QED
    BY <1>15, <2>2, <2>3 DEF CheckCaption
<1>16. CASE CaptionPublished
  BY <1>16 DEF CaptionPublished, CaptionFails, Goto
<1>17. CASE InstallNext
  <2>1. CASE Goto("drop")
    BY <2>1 DEF Goto
  <2>2. CASE Publish(Head(todo), TRUE, TRUE, FALSE, "install")
    <3>1. pc' = "move" /\ move'.next = "published" /\ task'.next = "install"
      BY <1>a2, <2>2
    <3>2. QED
      BY <3>1
  <2>3. QED
    BY <1>17, <2>1, <2>2 DEF InstallNext
<1>18. CASE PublishPending
  <2>1. CASE Goto("drop") \/ Goto("pending")
    BY <2>1 DEF Goto
  <2>2. CASE Publish(Head(todo), TRUE, FALSE, FALSE, "pending")
    <3>1. pc' = "move" /\ move'.next = "published" /\ task'.next = "pending"
      BY <1>a2, <2>2
    <3>2. QED
      BY <3>1
  <2>3. QED
    BY <1>18, <2>1, <2>2 DEF PublishPending
<1>19. CASE ConvertNext
  BY <1>19, <1>a2 DEF ConvertNext, Goto
<1>20. CASE FfmpegEnds
  BY <1>20, <1>a2, InstallIs DEF FfmpegEnds, Goto
<1>21. CASE OutputInstalled
  BY <1>21, <1>a2 DEF OutputInstalled, NoTask, Goto
<1>22. CASE CaptionFallback
  BY <1>22, <1>a2 DEF CaptionFallback
<1>23. CASE Converted
  BY <1>23 DEF Converted, Goto
<1>24. CASE Decide
  BY <1>24, <1>a2 DEF Decide, Goto
<1>25. CASE Retire
  BY <1>25 DEF Retire, Goto
<1>26. CASE CheckRetired
  <2>1. CASE Install(Held(Head(todo)), Whole(Head(todo)), "replacement")
    <3>1. pc' = "move" /\ move'.next = "replacement"
      BY <2>1, InstallIs
    <3>2. QED
      BY <3>1
  <2>2. CASE Goto("converted")
    BY <2>2 DEF Goto
  <2>3. QED
    BY <1>26, <2>1, <2>2 DEF CheckRetired
<1>27. CASE ReplacementInstalled
  BY <1>27 DEF ReplacementInstalled, Goto
<1>28. CASE UNCHANGED vars
  BY <1>28 DEF vars
<1>29. QED
  BY <1>1, <1>2, <1>3, <1>4, <1>5, <1>6, <1>7, <1>8, <1>9, <1>10, <1>11, <1>12, <1>13,
     <1>14, <1>15, <1>16, <1>17, <1>18, <1>19, <1>20, <1>21, <1>22, <1>23, <1>24, <1>25,
     <1>26, <1>27, <1>28 DEF Next, Ytdlp, Stranger, Worker, MoveFile, Publishes, Sweep

NeedsTask == pc \in MovePcs /\ move.next = "published"
NeedsHeld == (pc \in MovePcs /\ move.next = "replacement") \/ pc = "check retired"
Settled   == pc \notin MovePcs \cup {"retire", "verify", "sweep"}

\* A publication begins with a staged file.
LEMMA NeedsTaskStep ==
  ASSUME Base, [Next]_vars
  PROVE  NeedsTask' => (NeedsTask /\ task' = task) \/ (Here(task'.media) /\ Settled)
<1>a0. /\ pc \in MovePcs => move.next \in {"published", "caption published", "output", "replacement"}
       /\ Publishing => task.next \in {"install", "pending", "converted", "caption fallback"}
  BY BaseHas DEF MoveInv, TaskInv
<1>a1. ASSUME MoveFile
       PROVE  /\ pc \in MovePcs /\ todo' = todo /\ task' = task /\ move'.next = move.next
              /\ pc' = move.next \/ pc' = "rename"
  <2>1. \/ Failing \/ (\E to \in Places : Reserving(to))
        \/ \E to \in Places, R \in SUBSET {Placeholder} : Renaming(to, R)
    BY <1>a1, MoveFileIs
  <2>2. QED
    BY <1>a1, <2>1, MoveFileIs DEF Failing, Reserving, Renaming
<1>a2. ASSUME NEW m, NEW c, NEW i, NEW f, NEW next, Publish(m, c, i, f, next)
       PROVE  pc' = "move" /\ move'.next = "published" /\ task'.media = m /\ task'.next = next
  BY <1>a2, PublishIs
<1>a3. todo # <<>> /\ ~Converting => Here(Head(todo))
  BY BaseHas, ReportedIn DEF HandInv, Rest
<1>a4. pc \in {"ffmpeg", "output", "caption fallback", "decide", "retire"} => Here(Head(todo))
  BY BaseHas DEF HandInv
<1>a5. ASSUME NEW c, NEW i, NEW f, NEW next, Publish(Head(todo), c, i, f, next), Here(Head(todo)), Settled
       PROVE  NeedsTask' => (NeedsTask /\ task' = task) \/ (Here(task'.media) /\ Settled)
  BY <1>a2, <1>a5
<1>a6. ASSUME ~NeedsTask' PROVE NeedsTask' => (NeedsTask /\ task' = task) \/ (Here(task'.media) /\ Settled)
  BY <1>a6
<1> USE <1>a0 DEF NeedsTask, MovePcs
<1>1. ASSUME NEW m \in Media, Fetch(m) \/ FinishStreams(m) \/ Merge(m) \/ Tidy(m) \/ ReportFinished(m)
     PROVE  NeedsTask' => (NeedsTask /\ task' = task) \/ (Here(task'.media) /\ Settled)
  BY <1>1 DEF Fetch, FinishStreams, Merge, Tidy, ReportFinished, YtdlpStep
<1>2. ASSUME NEW x \in Foreign, Replace(x) \/ Deposit(x) \/ Squat(x)
     PROVE  NeedsTask' => (NeedsTask /\ task' = task) \/ (Here(task'.media) /\ Settled)
  BY <1>2 DEF Replace, Deposit, Squat, Interfere
<1>3. CASE \/ HandOff \/ Drop \/ Verify \/ Stops
  BY <1>3 DEF Drop, Verify, Stops, HandOff, Goto
<1>4. CASE \/ SweepBegins \/ SweepEnds \/ SweepDies
  BY <1>4 DEF SweepBegins, SweepEnds, SweepDies, SweepOne, SweepKeeps
<1>5. ASSUME NEW q \in Places, SweepOne(q)
     PROVE  NeedsTask' => (NeedsTask /\ task' = task) \/ (Here(task'.media) /\ Settled)
  BY <1>5 DEF SweepBegins, SweepEnds, SweepDies, SweepOne, SweepKeeps
<1>6. ASSUME NEW u \in BOOLEAN, NEW d \in BOOLEAN, YtdlpExits(u, d)
      PROVE  NeedsTask' => (NeedsTask /\ task' = task) \/ (Here(task'.media) /\ Settled)
  BY <1>6 DEF YtdlpExits, Goto
<1>7. CASE CancelSession
  BY <1>7 DEF CancelSession
<1>8. CASE MoveFails /\ MoveKeeps
  BY <1>8, <1>a1 DEF MoveFile
<1>9. CASE MoveFlagged /\ MoveKeeps
  BY <1>9, <1>a1 DEF MoveFile
<1>10. CASE Reserve /\ MoveKeeps
  BY <1>10, <1>a1 DEF MoveFile
<1>11. CASE RenameReserved /\ MoveKeeps
  BY <1>11, <1>a1 DEF MoveFile
<1>12. CASE Published
  BY <1>12 DEF Published, Ends, Goto, Publishing
<1>13. CASE TakeCaption
  BY <1>13 DEF TakeCaption, CaptionFails, Goto, Publishing, CaptionPcs
<1>14. CASE QuarantineCaption
  BY <1>14 DEF QuarantineCaption, Goto
<1>15. CASE CheckCaption
  <2>2. CASE Install(HeldCaption, Caption(task.media), "caption published")
    <3>1. pc' = "move" /\ move'.next = "caption published"
      BY <2>2, InstallIs
    <3>2. QED
      BY <3>1
  <2>3. CASE CaptionFails
    <3>1. pc' = task.next /\ task' = task /\ pc = "check caption"
      BY <1>15, <2>3 DEF CheckCaption, CaptionFails, Goto
    <3>2. QED
      BY <3>1 DEF Publishing, CaptionPcs
  <2>4. QED
    BY <1>15, <2>2, <2>3 DEF CheckCaption
<1>16. CASE CaptionPublished
  BY <1>16 DEF CaptionPublished, CaptionFails, Goto, Publishing, CaptionPcs
<1>17. CASE InstallNext
  BY <1>17, <1>a3, <1>a5 DEF InstallNext, Goto, Settled, Converting, Publishing,
     ConvertPcs, CaptionPcs
<1>18. CASE PublishPending
  BY <1>18, <1>a3, <1>a5 DEF PublishPending, Goto, Settled, Converting, Publishing,
     ConvertPcs, CaptionPcs
<1>19. CASE ConvertNext
  BY <1>19, <1>a3, <1>a5 DEF ConvertNext, Goto, Settled, Converting, Publishing,
     ConvertPcs, CaptionPcs
<1>20. CASE FfmpegEnds
  <2>1. CASE Install(In("convert", Output(Head(todo))), Output(Head(todo)), "output")
    <3>1. pc' = "move" /\ move'.next = "output"
      BY <2>1, InstallIs
    <3>2. QED
      BY <3>1
  <2>2. CASE Publish(Head(todo), TRUE, FALSE, TRUE, "converted")
    <3>1. Settled /\ Here(Head(todo))
      BY <1>20, <1>a4 DEF FfmpegEnds, Settled
    <3>2. QED
      BY <1>a5, <2>2, <3>1
  <2>3. CASE Goto("pending")
    BY <2>3 DEF Goto
  <2>4. QED
    BY <1>20, <2>1, <2>2, <2>3 DEF FfmpegEnds
<1>21. CASE OutputInstalled
  BY <1>21, <1>a4, <1>a5 DEF OutputInstalled, Goto, Settled
<1>22. CASE CaptionFallback
  BY <1>22, <1>a4, <1>a5 DEF CaptionFallback, Settled
<1>23. CASE Converted
  BY <1>23 DEF Converted, Goto
<1>24. CASE Decide
  BY <1>24, <1>a4, <1>a5 DEF Decide, Goto, Settled
<1>25. CASE Retire
  BY <1>25 DEF Retire, Goto
<1>26. CASE CheckRetired
  <2>1. CASE Install(Held(Head(todo)), Whole(Head(todo)), "replacement")
    <3>1. pc' = "move" /\ move'.next = "replacement"
      BY <2>1, InstallIs
    <3>2. QED
      BY <3>1
  <2>2. CASE Goto("converted")
    BY <2>2 DEF Goto
  <2>3. QED
    BY <1>26, <2>1, <2>2 DEF CheckRetired
<1>27. CASE ReplacementInstalled
  BY <1>27 DEF ReplacementInstalled, Goto
<1>28. CASE UNCHANGED vars
  BY <1>28 DEF vars
<1>29. QED
  BY <1>1, <1>2, <1>3, <1>4, <1>5, <1>6, <1>7, <1>8, <1>9, <1>10, <1>11, <1>12, <1>13,
     <1>14, <1>15, <1>16, <1>17, <1>18, <1>19, <1>20, <1>21, <1>22, <1>23, <1>24, <1>25,
     <1>26, <1>27, <1>28 DEF Next, Ytdlp, Stranger, Worker, MoveFile, Publishes, Sweep

\* An original that is checked after it was set aside is there.
LEMMA RetireMoves ==
  ASSUME Base, Retire, pc' = "check retired", NEW h, h = Head(todo)
  PROVE  at' # at /\ Taken(Held(h))'
<1>1. /\ excused' = excused /\ Taken(Staged(h))
      /\ at' = [at EXCEPT ![FileAt(Staged(h))] = Held(h)]
  BY DEF Retire, Goto
<1>2. /\ FileAt(Staged(h)) \in Files /\ at[FileAt(Staged(h))] = Staged(h)
      /\ Moves(FileAt(Staged(h)), Held(h), {}) /\ OneEach
  BY <1>1, RetireAt, BaseHas
<1>3. Held(h) # Nowhere /\ Held(h) # Staged(h)
  <2>1. Held(h).dir = "held" /\ Staged(h).dir = "stage"
    BY InIs DEF Held, Staged
  <2>2. QED
    BY <2>1, InIs
<1>4. Taken(Held(h))'
  BY <1>2, <1>3, TakenMoves
<1>5. at'[FileAt(Staged(h))] = Held(h)
  BY <1>2 DEF Moves
<1>6. QED
  BY <1>2, <1>3, <1>4, <1>5

\* The quarantine is looked at when a file has been moved there.
LEMMA NeedsHeldStep ==
  ASSUME Base, [Next]_vars
  PROVE  NeedsHeld' => todo' = todo /\ (NeedsHeld \/ (Retire /\ at' # at))
<1>a0. /\ pc \in MovePcs => move.next \in {"published", "caption published", "output", "replacement"}
       /\ Publishing => task.next \in {"install", "pending", "converted", "caption fallback"}
  BY BaseHas DEF MoveInv, TaskInv
<1>a1. ASSUME MoveFile
       PROVE  /\ pc \in MovePcs /\ todo' = todo /\ task' = task /\ move'.next = move.next
              /\ pc' = move.next \/ pc' = "rename"
  <2>1. \/ Failing \/ (\E to \in Places : Reserving(to))
        \/ \E to \in Places, R \in SUBSET {Placeholder} : Renaming(to, R)
    BY <1>a1, MoveFileIs
  <2>2. QED
    BY <1>a1, <2>1, MoveFileIs DEF Failing, Reserving, Renaming
<1>a2. ASSUME NEW m, NEW c, NEW i, NEW f, NEW next, Publish(m, c, i, f, next)
       PROVE  pc' = "move" /\ move'.next = "published" /\ task'.media = m /\ task'.next = next
  BY <1>a2, PublishIs
<1> USE <1>a0 DEF NeedsHeld, MovePcs
<1>1. ASSUME NEW m \in Media, Fetch(m) \/ FinishStreams(m) \/ Merge(m) \/ Tidy(m) \/ ReportFinished(m)
     PROVE  NeedsHeld' => todo' = todo /\ (NeedsHeld \/ (Retire /\ at' # at))
  BY <1>1 DEF Fetch, FinishStreams, Merge, Tidy, ReportFinished, YtdlpStep
<1>2. ASSUME NEW x \in Foreign, Replace(x) \/ Deposit(x) \/ Squat(x)
     PROVE  NeedsHeld' => todo' = todo /\ (NeedsHeld \/ (Retire /\ at' # at))
  BY <1>2 DEF Replace, Deposit, Squat, Interfere
<1>3. CASE \/ HandOff \/ Drop \/ Verify \/ Stops
  BY <1>3 DEF Drop, Verify, Stops, HandOff, Goto
<1>4. CASE \/ SweepBegins \/ SweepEnds \/ SweepDies
  BY <1>4 DEF SweepBegins, SweepEnds, SweepDies, SweepOne, SweepKeeps
<1>5. ASSUME NEW q \in Places, SweepOne(q)
     PROVE  NeedsHeld' => todo' = todo /\ (NeedsHeld \/ (Retire /\ at' # at))
  BY <1>5 DEF SweepBegins, SweepEnds, SweepDies, SweepOne, SweepKeeps
<1>6. ASSUME NEW u \in BOOLEAN, NEW d \in BOOLEAN, YtdlpExits(u, d)
      PROVE  NeedsHeld' => todo' = todo /\ (NeedsHeld \/ (Retire /\ at' # at))
  BY <1>6 DEF YtdlpExits, Goto
<1>7. CASE CancelSession
  BY <1>7 DEF CancelSession
<1>8. CASE MoveFails /\ MoveKeeps
  BY <1>8, <1>a1 DEF MoveFile
<1>9. CASE MoveFlagged /\ MoveKeeps
  BY <1>9, <1>a1 DEF MoveFile
<1>10. CASE Reserve /\ MoveKeeps
  BY <1>10, <1>a1 DEF MoveFile
<1>11. CASE RenameReserved /\ MoveKeeps
  BY <1>11, <1>a1 DEF MoveFile
<1>12. CASE Published
  BY <1>12 DEF Published, Ends, Goto, Publishing
<1>13. CASE TakeCaption
  BY <1>13 DEF TakeCaption, CaptionFails, Goto, Publishing, CaptionPcs
<1>14. CASE QuarantineCaption
  BY <1>14 DEF QuarantineCaption, Goto
<1>15. CASE CheckCaption
  <2>2. CASE Install(HeldCaption, Caption(task.media), "caption published")
    <3>1. pc' = "move" /\ move'.next = "caption published"
      BY <2>2, InstallIs
    <3>2. QED
      BY <3>1
  <2>3. CASE CaptionFails
    <3>1. pc' = task.next /\ task' = task /\ pc = "check caption"
      BY <1>15, <2>3 DEF CheckCaption, CaptionFails, Goto
    <3>2. QED
      BY <3>1 DEF Publishing, CaptionPcs
  <2>4. QED
    BY <1>15, <2>2, <2>3 DEF CheckCaption
<1>16. CASE CaptionPublished
  BY <1>16 DEF CaptionPublished, CaptionFails, Goto, Publishing, CaptionPcs
<1>17. CASE InstallNext
  BY <1>17, <1>a2 DEF InstallNext, Goto
<1>18. CASE PublishPending
  BY <1>18, <1>a2 DEF PublishPending, Goto
<1>19. CASE ConvertNext
  BY <1>19, <1>a2 DEF ConvertNext, Goto
<1>20. CASE FfmpegEnds
  <2>1. CASE Install(In("convert", Output(Head(todo))), Output(Head(todo)), "output")
    <3>1. pc' = "move" /\ move'.next = "output"
      BY <2>1, InstallIs
    <3>2. QED
      BY <3>1
  <2>2. QED
    BY <1>20, <1>a2, <2>1 DEF FfmpegEnds, Goto
<1>21. CASE OutputInstalled
  BY <1>21, <1>a2 DEF OutputInstalled, NoTask, Goto
<1>22. CASE CaptionFallback
  BY <1>22, <1>a2 DEF CaptionFallback
<1>23. CASE Converted
  BY <1>23 DEF Converted, Goto
<1>24. CASE Decide
  BY <1>24, <1>a2 DEF Decide, Goto
<1>25. CASE Retire
  BY <1>25, RetireMoves DEF Retire, Goto
<1>26. CASE CheckRetired
  BY <1>26, InstallIs DEF CheckRetired, Goto
<1>27. CASE ReplacementInstalled
  BY <1>27 DEF ReplacementInstalled, Goto
<1>28. CASE UNCHANGED vars
  BY <1>28 DEF vars
<1>29. QED
  BY <1>1, <1>2, <1>3, <1>4, <1>5, <1>6, <1>7, <1>8, <1>9, <1>10, <1>11, <1>12, <1>13,
     <1>14, <1>15, <1>16, <1>17, <1>18, <1>19, <1>20, <1>21, <1>22, <1>23, <1>24, <1>25,
     <1>26, <1>27, <1>28 DEF Next, Ytdlp, Stranger, Worker, MoveFile, Publishes, Sweep

\* What a step that leaves the worker in an install does not do.
LEMMA NotLeft ==
  ASSUME Base, [Next]_vars, NEW to \in Places, NEW R \in SUBSET {Placeholder}, MoveFile, Renaming(to, R)
  PROVE  pc' \in {"published", "caption published", "output", "replacement"} /\ pc' = move.next
         /\ pc \in MovePcs /\ task' = task /\ todo' = todo
BY MoveFileIs DEF Renaming

\* While yt-dlp runs, the staged file of a reported entry stays ...
LEMMA HereYtdlp ==
  ASSUME Base, [Next]_vars, pc' = "ytdlp", NEW m \in Reported'
  PROVE  Here(m)'
<1>1. pc = "ytdlp" /\ \A k \in Reported : Here(k)
  BY YtdlpStays, BaseHas DEF HandInv
<1>2. CASE m \in Reported
  <2>1. ~MoveFile /\ ~Retire /\ ~Verify /\ \A p : ~SweepOne(p)
    BY <1>1 DEF MoveFile, MoveFails, MoveFlagged, Reserve, RenameReserved, Retire, Verify, SweepOne
  <2>2. QED
    BY <1>1, <1>2, <2>1, HereStep
<1>3. CASE m \notin Reported
  <2>1. PICK k \in Media : ReportFinished(k)
    BY <1>3, RecordedStep DEF Reported
  <2>2. recorded' = Append(recorded, k) /\ k \notin Reported /\ at' = at /\ at[Whole(k)] = Staged(k)
    BY <2>1 DEF ReportFinished
  <2>3. Reported' = Reported \cup {k}
    BY <2>2, BaseHas, AppendIs DEF Reported, TodoInv
  <2>4. m = k
    BY <1>3, <2>3
  <2>5. Taken(Staged(m))
    BY <2>2, <2>4, FilesAre DEF Taken
  <2>6. QED
    BY <2>2, <2>5, TakenSame DEF Here
<1>4. QED
  BY <1>2, <1>3

\* ... as does that of an entry the worker has not come to ...
LEMMA HereRest ==
  ASSUME Base, [Next]_vars, NEW m \in Rest'
  PROVE  Here(m)'
<1>0. HandInv /\ TodoInv /\ TaskInv
  BY BaseHas
<1>1. /\ pc # "ytdlp" => Rest' \subseteq Rest \/ pc \in {"ffmpeg", "output"}
      /\ m \in Rest \/ m \in Finished \/ (pc \in {"ffmpeg", "output"} /\ m = Head(todo))
      /\ pc # "ytdlp" => m \in Rest \/ (pc \in {"ffmpeg", "output"} /\ m = Head(todo))
  BY RestStep
<1>2. Here(m)
  BY <1>0, <1>1 DEF HandInv, Finished, Here
<1>3. ASSUME MoveFile, m = task.media, move.next = "published" PROVE FALSE
  <2>1. pc \in MovePcs /\ pc \notin {"ytdlp", "ffmpeg", "output"}
    BY <1>3, MoveFileIs DEF MovePcs
  <2>2. m \in Rest /\ Publishing
    BY <1>1, <1>3, <2>1 DEF Publishing
  <2>3. CASE task.next \in {"install", "pending"}
    <3>1. ~Converting
      BY <1>3, <2>1, <2>3 DEF Converting, Publishing, ConvertPcs, CaptionPcs, MovePcs
    <3>2. QED
      BY <1>0, <1>3, <2>2, <2>3, <3>1 DEF Rest, TaskInv
  <2>4. CASE task.next \in {"converted", "caption fallback"}
    <3>1. Converting
      BY <2>2, <2>4 DEF Converting
    <3>2. m = Head(todo) /\ m \in Entries(Tail(todo)) /\ todo # <<>>
      BY <1>0, <1>3, <2>2, <2>4, <3>1 DEF Rest, TaskInv, TodoInv
    <3>3. QED
      BY <1>0, <3>2, ReportedIn
  <2>5. QED
    BY <1>0, <2>2, <2>3, <2>4 DEF TaskInv
<1>4. ASSUME Retire, m = Head(todo) PROVE FALSE
  <2>1. pc = "retire" /\ Converting
    BY <1>4 DEF Retire, Converting, ConvertPcs
  <2>2. m \in Rest
    BY <1>1, <2>1
  <2>3. m \in Entries(Tail(todo)) /\ todo # <<>>
    BY <1>0, <2>1, <2>2 DEF Rest, TodoInv
  <2>4. QED
    BY <1>0, <1>4, <2>3, ReportedIn
<1>5. ASSUME Verify \/ \E p \in Places : SweepOne(p) PROVE FALSE
  <2>1. pc \in {"verify", "sweep"}
    BY <1>5 DEF Verify, SweepOne
  <2>2. m \in Rest /\ ~Converting
    BY <1>1, <2>1 DEF Converting, Publishing, ConvertPcs, CaptionPcs, MovePcs
  <2>3. QED
    BY <1>0, <2>1, <2>2, NoEntries DEF Rest, TodoInv
<1>6. QED
  BY <1>2, <1>3, <1>4, <1>5, HereStep

\* ... that of the entry being converted ...
LEMMA HereHead ==
  ASSUME Base, [Next]_vars, NeedsHead', NEW h, h = Head(todo')
  PROVE  Here(h)'
<1>0. HandInv /\ TodoInv /\ TaskInv
  BY BaseHas
<1>1. todo' = todo /\ (NeedsHead \/ (pc = "convert" /\ todo # <<>>))
  BY NeedsHeadStep
<1>2. Here(h)
  <2>1. CASE NeedsHead
    BY <1>0, <1>1, <2>1 DEF HandInv, NeedsHead
  <2>2. CASE pc = "convert" /\ todo # <<>>
    <3>1. ~Converting
      BY <2>2 DEF Converting, Publishing, ConvertPcs, CaptionPcs, MovePcs
    <3>2. QED
      BY <1>0, <1>1, <2>2, <3>1, ReportedIn DEF HandInv, Rest
  <2>3. QED
    BY <1>1, <2>1, <2>2
<1>3. ASSUME MoveFile, move.next = "published", NEW to \in Places, NEW R \in SUBSET {Placeholder},
             Renaming(to, R)
      PROVE FALSE
  <2>1. pc' = "published" /\ task' = task /\ pc \in MovePcs
    BY <1>3, NotLeft
  <2>2. task.next = "caption fallback" /\ Publishing
    BY <1>3, <2>1 DEF NeedsHead, Publishing, MovePcs
  <2>3. QED
    BY <1>0, <1>3, <2>1, <2>2 DEF TaskInv, MovePcs, CaptionPcs
<1>4. ASSUME Retire PROVE at' = at
  <2>1. pc' \in {"converted", "check retired"}
    BY <1>4 DEF Retire, Goto
  <2>2. ~NeedsHead'
    BY <2>1 DEF NeedsHead, Publishing, CaptionPcs, MovePcs
  <2>3. QED
    BY <2>2
<1>5. ASSUME Verify \/ \E p \in Places : SweepOne(p) PROVE FALSE
  <2>1. pc \in {"verify", "sweep"}
    BY <1>5 DEF Verify, SweepOne
  <2>2. ~NeedsHead /\ pc # "convert"
    BY <2>1 DEF NeedsHead, Publishing, CaptionPcs, MovePcs
  <2>3. QED
    BY <1>1, <2>2
<1>6. QED
  BY <1>2, <1>3, <1>4, <1>5, HereStep

\* ... that of the entry being published ...
LEMMA HereTask ==
  ASSUME Base, [Next]_vars, NeedsTask', NEW h, h = task'.media
  PROVE  Here(h)'
<1>1. (NeedsTask /\ task' = task) \/ (Here(h) /\ Settled)
  BY NeedsTaskStep
<1>2. Here(h)
  BY <1>1, BaseHas DEF NeedsTask, HandInv
<1>3. ASSUME MoveFile, NEW to \in Places, NEW R \in SUBSET {Placeholder}, Renaming(to, R) PROVE FALSE
  <2>1. pc' \in {"published", "caption published", "output", "replacement"}
    BY <1>3, NotLeft
  <2>2. QED
    BY <2>1 DEF NeedsTask, MovePcs
<1>4. pc \notin {"retire", "verify", "sweep"}
  BY <1>1 DEF Settled, NeedsTask, MovePcs
<1>5. ~Retire /\ ~Verify /\ \A p : ~SweepOne(p)
  BY <1>4 DEF Retire, Verify, SweepOne
<1>6. QED
  BY <1>2, <1>3, <1>5, HereStep

\* ... the original that was set aside ...
LEMMA TakenHeld ==
  ASSUME Base, [Next]_vars, NeedsHeld', NEW h, h = Head(todo')
  PROVE  Taken(Held(h))'
<1>1. todo' = todo /\ (NeedsHeld \/ (Retire /\ at' # at))
  BY NeedsHeldStep
<1>2. CASE Retire /\ at' # at
  <2>1. pc' \in {"converted", "check retired"}
    BY <1>2 DEF Retire, Goto
  <2>2. pc' = "check retired"
    BY <2>1 DEF NeedsHeld, MovePcs
  <2>3. QED
    BY <1>1, <1>2, <2>2, RetireMoves
<1>3. CASE NeedsHeld
  <2>1. PICK q : q = Held(h)
    OBVIOUS
  <2>2. Taken(q) /\ q.dir \in {"stage", "held"}
    BY <1>1, <1>3, <2>1, BaseHas, InIs DEF HandInv, NeedsHeld, Held
  <2>3. \A to \in Places, R \in SUBSET {Placeholder} : ~(MoveFile /\ Renaming(to, R))
    <3>1. pc' \notin {"published", "caption published", "output", "replacement"}
      BY DEF NeedsHeld, MovePcs
    <3>2. QED
      BY <3>1, NotLeft
  <2>4. pc \notin {"ytdlp", "take caption", "check caption", "caption published", "retire",
                     "verify", "sweep"}
    BY <1>3 DEF NeedsHeld, MovePcs
  <2>5. /\ pc # "ytdlp" /\ ~QuarantineCaption /\ ~CheckCaption /\ ~CaptionPublished /\ ~Retire /\ ~Verify
        /\ \A p : ~SweepOne(p)
    BY <2>4 DEF QuarantineCaption, CheckCaption, CaptionPublished, Retire, Verify, SweepOne
  <2>6. ASSUME CheckRetired, at' # at PROVE FALSE
    <3>1. pc' = "converted"
      BY <2>6 DEF CheckRetired, Goto
    <3>2. QED
      BY <3>1 DEF NeedsHeld, MovePcs
  <2>7. Taken(q)'
    BY <2>2, <2>3, <2>5, <2>6, NoLonger
  <2>8. QED
    BY <2>1, <2>7
<1>4. QED
  BY <1>1, <1>2, <1>3

CheckingCaption == pc = "check caption"

\* ... and the caption that was.
LEMMA TakenCaption ==
  ASSUME Base, [Next]_vars, CheckingCaption'
  PROVE  \E f \in Files : at'[f] = In("held", Caption(task'.media))
<1>0. pc' = "check caption"
  BY DEF CheckingCaption
<1>1. CASE QuarantineCaption
  <2>1. /\ at' = [at EXCEPT ![FileAt(CaptionPlace)] = HeldCaption] /\ task' = task
        /\ FileAt(CaptionPlace) \in Files
    BY <1>1, FileAtIs DEF QuarantineCaption
  <2>2. at \in [Files -> Places \cup {Nowhere}]
    BY BaseHas DEF DataInv
  <2>3. at'[FileAt(CaptionPlace)] = HeldCaption
    BY <2>1, <2>2
  <2>4. QED
    BY <2>1, <2>3 DEF HeldCaption
<1>2. CASE ~QuarantineCaption
  <2>1. pc = "check caption" /\ task' = task
    <3>1. /\ pc \in MovePcs => move.next \in {"published", "caption published", "output", "replacement"}
          /\ Publishing => task.next \in {"install", "pending", "converted", "caption fallback"}
      BY BaseHas DEF MoveInv, TaskInv
    <3>2. ~MoveFile
      <4>1. SUFFICES ASSUME MoveFile PROVE FALSE
        OBVIOUS
      <4>2. pc' \in {"published", "caption published", "output", "replacement", "rename"}
        BY <4>1, MoveFileIs DEF Failing, Reserving, Renaming
      <4>3. QED
        BY <1>0, <4>2
    <3>3. ~Worker
      <4>1. ~(HandOff \/ InstallNext \/ PublishPending)
        BY <1>0, PublishIs DEF HandOff, InstallNext, PublishPending, Goto
      <4>2. ~Publishes
        BY <1>0, <1>2, <3>1, InstallIs DEF Publishes, Published, Ends,
           TakeCaption, CheckCaption, CaptionPublished, CaptionFails, Goto, Publishing, CaptionPcs
      <4>3. ~(ConvertNext \/ FfmpegEnds \/ OutputInstalled \/ CaptionFallback \/ Converted)
        BY <1>0, PublishIs, InstallIs DEF ConvertNext, FfmpegEnds, OutputInstalled, CaptionFallback,
           Converted, Goto
      <4>4. ~(Decide \/ Retire \/ CheckRetired \/ ReplacementInstalled \/ Drop \/ Verify)
        BY <1>0, PublishIs, InstallIs DEF Decide, Retire, CheckRetired, ReplacementInstalled, Drop,
             Verify, Goto
      <4>5. QED
        BY <3>2, <4>1, <4>2, <4>3, <4>4 DEF Worker
    <3>4. ~Stops /\ \A u, d : ~YtdlpExits(u, d)
      BY <1>0 DEF Stops, YtdlpExits, Goto
    <3>5. QED
      BY <1>0, <3>3, <3>4 DEF Next, vars, Ytdlp, Stranger, Fetch, FinishStreams, Merge, Tidy, Sweep,
       SweepBegins, SweepEnds, SweepDies, SweepOne, SweepKeeps,
       YtdlpStep, ReportFinished, Replace, Deposit, Squat, Interfere, CancelSession
  <2>2. PICK q : q = HeldCaption
    OBVIOUS
  <2>3. Taken(q) /\ q.dir \in {"stage", "held"}
    BY <2>1, <2>2, BaseHas, InIs DEF HandInv, HeldCaption
  <2>4. \A to \in Places, R \in SUBSET {Placeholder} : ~(MoveFile /\ Renaming(to, R))
    BY <1>0, NotLeft
  <2>5. pc # "ytdlp" /\ ~CaptionPublished /\ ~Retire /\ ~CheckRetired /\ ~Verify /\ \A p : ~SweepOne(p)
    BY <2>1 DEF CaptionPublished, Retire, CheckRetired, Verify, SweepOne
  <2>6. ~CheckCaption
    <3>1. task.next \in {"install", "pending", "converted", "caption fallback"}
      BY <2>1, BaseHas DEF TaskInv, Publishing, CaptionPcs
    <3>2. QED
      BY <1>0, <3>1, InstallIs DEF CheckCaption, CaptionFails, Goto
  <2>7. Taken(q)'
    BY <1>2, <2>3, <2>4, <2>5, <2>6, NoLonger
  <2>8. \E f \in Files : at'[f] = q
    BY <2>7 DEF Taken, Files
  <2>9. QED
    BY <2>1, <2>2, <2>8 DEF HeldCaption
<1>3. QED
  BY <1>1, <1>2

\* Every step keeps HandInv.
LEMMA HandStep ==
  ASSUME Base, [Next]_vars
  PROVE  HandInv'
<1>1. (pc = "ytdlp" => \A m \in Reported : Here(m))'
  BY HereYtdlp
<1>2. (\A m \in Rest : Here(m))'
  BY HereRest
<1>3. PICK h : h = Head(todo')
  OBVIOUS
<1>4. NeedsHead' => Here(h)'
  BY <1>3, HereHead
<1>5. (NeedsHead => Here(Head(todo)))'
  <2>1. Here(h)' => \E f \in Files : at'[f] = Staged(h)
    BY DEF Here, Taken, Files
  <2>2. QED
    BY <1>3, <1>4, <2>1 DEF Here, Taken, Files
<1>6. (NeedsTask => Here(task.media))'
  <2>1. PICK k : k = task'.media
    OBVIOUS
  <2>2. Here(k)' => \E f \in Files : at'[f] = Staged(k)
    BY DEF Here, Taken, Files
  <2>3. NeedsTask' => Here(k)'
    BY <2>1, HereTask
  <2>4. QED
    BY <2>1, <2>2, <2>3 DEF Here, Taken, Files
<1>7. (NeedsHeld => Taken(Held(Head(todo))))'
  <2>1. Taken(Held(h))' => \E f \in Files : at'[f] = Held(h)
    BY DEF Taken, Files
  <2>2. NeedsHeld' => Taken(Held(h))'
    BY <1>3, TakenHeld
  <2>3. QED
    BY <1>3, <2>1, <2>2 DEF Taken, Files
<1>8. (pc = "check caption" => Taken(HeldCaption))'
  BY TakenCaption DEF CheckingCaption, HeldCaption, Taken, Files
<1>9. QED
  BY <1>1, <1>2, <1>5, <1>6, <1>7, <1>8 DEF HandInv, NeedsHead, NeedsTask, NeedsHeld

-----------------------------------------------------------------------------
(* What an install has done                                                *)

Installed == {"published", "caption published", "output", "replacement"}

\* Only an install comes to its end.
LEMMA InstalledStep ==
  ASSUME Base, [Next]_vars
  PROVE  pc' \in Installed => MoveFile \/ UNCHANGED <<pc, todo, task, move, faults>>
<1>a0. /\ pc \in MovePcs => move.next \in {"published", "caption published", "output", "replacement"}
       /\ Publishing => task.next \in {"install", "pending", "converted", "caption fallback"}
  BY BaseHas DEF MoveInv, TaskInv
<1>a1. ASSUME MoveFile
       PROVE  /\ pc \in MovePcs /\ todo' = todo /\ task' = task /\ move'.next = move.next
              /\ pc' = move.next \/ pc' = "rename"
  <2>1. \/ Failing \/ (\E to \in Places : Reserving(to))
        \/ \E to \in Places, R \in SUBSET {Placeholder} : Renaming(to, R)
    BY <1>a1, MoveFileIs
  <2>2. QED
    BY <1>a1, <2>1, MoveFileIs DEF Failing, Reserving, Renaming
<1>a2. ASSUME NEW m, NEW c, NEW i, NEW f, NEW next, Publish(m, c, i, f, next)
       PROVE  pc' = "move" /\ move'.next = "published" /\ task'.media = m /\ task'.next = next
  BY <1>a2, PublishIs
<1> USE <1>a0 DEF Installed, Publishing, CaptionPcs
<1>1. ASSUME NEW m \in Media, Fetch(m) \/ FinishStreams(m) \/ Merge(m) \/ Tidy(m) \/ ReportFinished(m)
     PROVE  pc' \in Installed => MoveFile \/ UNCHANGED <<pc, todo, task, move, faults>>
  BY <1>1 DEF Fetch, FinishStreams, Merge, Tidy, ReportFinished, YtdlpStep
<1>2. ASSUME NEW x \in Foreign, Replace(x) \/ Deposit(x) \/ Squat(x)
     PROVE  pc' \in Installed => MoveFile \/ UNCHANGED <<pc, todo, task, move, faults>>
  BY <1>2 DEF Replace, Deposit, Squat, Interfere
<1>3. CASE \/ HandOff \/ Drop \/ Verify \/ Stops
  BY <1>3 DEF Drop, Verify, Stops, HandOff, Goto
<1>4. CASE \/ SweepBegins \/ SweepEnds \/ SweepDies
  BY <1>4 DEF SweepBegins, SweepEnds, SweepDies, SweepOne, SweepKeeps
<1>5. ASSUME NEW q \in Places, SweepOne(q)
     PROVE  pc' \in Installed => MoveFile \/ UNCHANGED <<pc, todo, task, move, faults>>
  BY <1>5 DEF SweepBegins, SweepEnds, SweepDies, SweepOne, SweepKeeps
<1>6. ASSUME NEW u \in BOOLEAN, NEW d \in BOOLEAN, YtdlpExits(u, d)
      PROVE  pc' \in Installed => MoveFile \/ UNCHANGED <<pc, todo, task, move, faults>>
  BY <1>6 DEF YtdlpExits, Goto
<1>7. CASE CancelSession
  BY <1>7 DEF CancelSession, stage
<1>8. CASE MoveFails /\ MoveKeeps
  BY <1>8 DEF MoveFile
<1>9. CASE MoveFlagged /\ MoveKeeps
  BY <1>9 DEF MoveFile
<1>10. CASE Reserve /\ MoveKeeps
  BY <1>10 DEF MoveFile
<1>11. CASE RenameReserved /\ MoveKeeps
  BY <1>11 DEF MoveFile
<1>12. CASE Published
  BY <1>12 DEF Published, Ends, Goto
<1>13. CASE TakeCaption
  BY <1>13 DEF TakeCaption, CaptionFails, Goto
<1>14. CASE QuarantineCaption
  BY <1>14 DEF QuarantineCaption, Goto
<1>15. CASE CheckCaption
  BY <1>15, InstallIs DEF CheckCaption, CaptionFails, Goto
<1>16. CASE CaptionPublished
  BY <1>16 DEF CaptionPublished, CaptionFails, Goto
<1>17. CASE InstallNext
  BY <1>17, <1>a2 DEF InstallNext, Goto
<1>18. CASE PublishPending
  BY <1>18, <1>a2 DEF PublishPending, Goto
<1>19. CASE ConvertNext
  BY <1>19, <1>a2 DEF ConvertNext, Goto
<1>20. CASE FfmpegEnds
  BY <1>20, <1>a2, InstallIs DEF FfmpegEnds, Goto
<1>21. CASE OutputInstalled
  BY <1>21, <1>a2 DEF OutputInstalled, NoTask, Goto
<1>22. CASE CaptionFallback
  BY <1>22, <1>a2 DEF CaptionFallback
<1>23. CASE Converted
  BY <1>23 DEF Converted, Goto
<1>24. CASE Decide
  BY <1>24, <1>a2 DEF Decide, Goto
<1>25. CASE Retire
  BY <1>25 DEF Retire, Goto
<1>26. CASE CheckRetired
  BY <1>26, InstallIs DEF CheckRetired, Goto
<1>27. CASE ReplacementInstalled
  BY <1>27 DEF ReplacementInstalled, Goto
<1>28. CASE UNCHANGED vars
  BY <1>28 DEF vars, session, stage
<1>29. QED
  BY <1>1, <1>2, <1>3, <1>4, <1>5, <1>6, <1>7, <1>8, <1>9, <1>10, <1>11, <1>12, <1>13,
     <1>14, <1>15, <1>16, <1>17, <1>18, <1>19, <1>20, <1>21, <1>22, <1>23, <1>24, <1>25,
     <1>26, <1>27, <1>28 DEF Next, Ytdlp, Stranger, Worker, MoveFile, Publishes, Sweep

\* The file an install has moved.
LEMMA RenamedIs ==
  ASSUME Base, NEW to \in Places, NEW R \in SUBSET {Placeholder}, MoveFile, Renaming(to, R),
         NEW g, g = FileAt(move.from)
  PROVE  /\ g \in Files \ {Placeholder} /\ at[g] = move.from /\ at'[g] = to
         /\ move.next = "published" =>
              at[g] = Staged(task.media) /\ (g = Whole(task.media) \/ Whole(task.media) \in excused)
         /\ move.next = "output" => g = Output(Head(todo))
<1>1. pc \in MovePcs /\ MoveInv /\ PlaceInv
  BY MoveFileIs, BaseHas
<1>2. g \in Files \ {Placeholder} /\ at[g] = move.from
  BY <1>1, FromIs DEF Renaming
<1>3. at'[g] = to
  BY <1>2 DEF Renaming, Moves
<1>4. ASSUME move.next = "published"
      PROVE  at[g] = Staged(task.media) /\ (g = Whole(task.media) \/ Whole(task.media) \in excused)
  <2>1. at[g] = Staged(task.media)
    BY <1>1, <1>2, <1>4 DEF MoveInv
  <2>2. QED
    BY <1>1, <1>2, <2>1, AtWhole
<1>5. ASSUME move.next = "output" PROVE g = Output(Head(todo))
  <2>1. at[g] = In("convert", Output(Head(todo)))
    BY <1>1, <1>2, <1>5 DEF MoveInv
  <2>2. PICK m \in Media : g = Output(m) /\ at[g] = In("convert", Output(m))
    BY <1>1, <1>2, <2>1, AtOwn, InIs
  <2>3. QED
    BY <2>1, <2>2, InIs
<1>6. QED
  BY <1>2, <1>3, <1>4, <1>5

\* Every step keeps ResultInv.
LEMMA ResultStep ==
  ASSUME Base, [Next]_vars
  PROVE  ResultInv'
<1>1. SUFFICES ASSUME pc' \in Installed PROVE ResultInv'
  BY DEF ResultInv, Installed
<1>2. ResultInv /\ DataInv /\ HandInv /\ FolderKept /\ excused \subseteq excused'
  BY BaseHas, AtStep
<1>3. CASE UNCHANGED <<pc, todo, task, move, faults>>
  <2>1. pc \in Installed
    BY <1>1, <1>3
  <2>2. \A f \in Files \ {Placeholder} : InFolder(f) => InFolder(f)'
    BY <1>2 DEF FolderKept, InFolder
  <2>3. PICK m : m = task.media
    OBVIOUS
  <2>4. Here(m) => Here(m)'
    <3>1. ~MoveFile /\ ~Retire /\ ~Verify /\ \A p \in Places : ~SweepOne(p)
      <4>1. pc \notin MovePcs \cup {"retire", "verify", "sweep"}
        BY <2>1 DEF Installed, MovePcs
      <4>2. QED
        BY <4>1, MoveFileIs DEF Retire, Verify, SweepOne
    <3>2. QED
      BY <3>1, HereStep
  <2>5. Here(m)' => \E f \in Files : at'[f] = Staged(m)
    BY DEF Here, Taken, Files
  <2>6. (\E f \in Files : at'[f] = Staged(m)) => Here(task.media)'
    BY <1>3, <2>3 DEF Here, Taken, Files
  <2>7. ResultInv /\ pc' = pc /\ task' = task /\ todo' = todo /\ move' = move /\ faults' = faults
    BY <1>2, <1>3
  <2>8. QED
    BY <1>2, <2>2, <2>3, <2>4, <2>5, <2>6, <2>7 DEF ResultInv
<1>4. CASE MoveFile
  <2>1. pc \in MovePcs /\ task' = task /\ todo' = todo /\ excused' = excused
    BY <1>4, MoveFileIs
  <2>2. CASE Failing
    <3>1. pc' = move.next /\ move'.result = "failed" /\ (IF Taken(move.from) THEN Fault ELSE NoFault)
      BY <2>2 DEF Failing
    <3>2. ASSUME pc' = "published" PROVE Here(task.media)' /\ faults' > 0
      <4>1. NeedsTask
        BY <2>1, <3>1, <3>2 DEF NeedsTask
      <4>2. PICK m : m = task.media
        OBVIOUS
      <4>3. Here(m) /\ move.from = Staged(m)
        BY <1>2, <2>1, <3>1, <3>2, <4>1, <4>2, BaseHas DEF HandInv, MoveInv, NeedsTask
      <4>4. faults' > 0
        BY <1>2, <3>1, <4>3, FaultIs DEF Here
      <4>5. \A to, R : ~Renaming(to, R)
        BY <3>1 DEF Renaming
      <4>6. ~Retire /\ ~Verify /\ \A p \in Places : ~SweepOne(p)
        BY <2>1 DEF Retire, Verify, SweepOne, MovePcs
      <4>7. Here(m)'
        BY <4>3, <4>5, <4>6, HereStep
      <4>8. QED
        BY <2>1, <4>2, <4>4, <4>7 DEF Here, Taken, Files
    <3>3. QED
      BY <3>1, <3>2 DEF ResultInv
  <2>3. ASSUME NEW to \in Places, Reserving(to) PROVE FALSE
    BY <1>1, <2>3 DEF Reserving, Installed
  <2>4. ASSUME NEW to \in Places, NEW R \in SUBSET {Placeholder}, Renaming(to, R) PROVE ResultInv'
    <3>1. PICK g : g = FileAt(move.from)
      OBVIOUS
    <3>2. /\ g \in Files \ {Placeholder} /\ at[g] = move.from /\ at'[g] = to
          /\ move.next = "published" => g = Whole(task.media) \/ Whole(task.media) \in excused
          /\ move.next = "output" => g = Output(Head(todo))
      BY <1>4, <2>4, <3>1, RenamedIs
    <3>3. /\ pc' = move.next /\ move'.result \in {"ok", "unsynced"} /\ move'.file = g
          /\ to.dir = "download"
      BY <2>4, <3>1 DEF Renaming
    <3>4. InFolder(g)'
      BY <3>2, <3>3 DEF InFolder
    <3>5. move'.file \in Files \ {Placeholder} /\ at'[move'.file].dir = "download"
      BY <3>2, <3>3
    <3>6. /\ pc' = "published" => move'.file = Whole(task'.media) \/ Whole(task'.media) \in excused'
          /\ pc' = "output" => move'.file = Output(Head(todo'))
      BY <2>1, <3>2, <3>3
    <3>7. QED
      BY <3>3, <3>5, <3>6 DEF ResultInv, InFolder
  <2>5. QED
    BY <1>4, <2>2, <2>3, <2>4, MoveFileIs
<1>5. QED
  BY <1>1, <1>3, <1>4, InstalledStep

-----------------------------------------------------------------------------
(* The converted files                                                     *)

\* The files that come into being.
LEMMA Births ==
  ASSUME Base, [Next]_vars, NEW f \in Files, at[f] = Nowhere, at'[f] # Nowhere
  PROVE  \/ pc = "ytdlp" /\ \E m \in Media : f \in {Stream(m), Thumb(m), Caption(m), Whole(m)}
         \/ f \in Foreign \/ f = Placeholder
         \/ ConvertNext /\ f = Output(Head(todo)) /\ pc' = "ffmpeg"
<1>0. at' # at
  OBVIOUS
<1>1. ASSUME NEW g \in Files, NEW p, NEW R, Moves(g, p, R) PROVE f = g
  BY <1>1 DEF Moves
<1>2. ASSUME NEW R, at' = Remove(R) PROVE FALSE
  BY <1>2 DEF Remove
<1>3. ASSUME NEW m \in Media, Fetch(m) \/ FinishStreams(m) \/ Merge(m) \/ Tidy(m)
      PROVE  pc = "ytdlp" /\ f \in {Stream(m), Thumb(m), Caption(m), Whole(m)}
  <2>1. pc = "ytdlp"
    BY <1>3 DEF Fetch, FinishStreams, Merge, Tidy, YtdlpStep
  <2>2. QED
    BY <1>3, <2>1, YtdlpTouches
<1>4. ASSUME NEW x \in Foreign, Replace(x) \/ Deposit(x) \/ Squat(x)
      PROVE  f \in Foreign
  <2>1. PICK p, v : Interfere(x, p, v)
    BY <1>4 DEF Replace, Deposit, Squat
  <2>2. f = x
    BY <2>1 DEF Interfere
  <2>3. QED
    BY <2>2
<1>5. CASE MoveFile
  <2>1. at[Placeholder] = Nowhere \/ f # Placeholder
    BY <1>0
  <2>2. CASE Failing
    BY <1>0, <1>2, <2>2 DEF Failing
  <2>3. ASSUME NEW to \in Places, Reserving(to) PROVE f = Placeholder
    BY <1>1, <2>3, FilesAre DEF Reserving
  <2>4. ASSUME NEW to \in Places, NEW R \in SUBSET {Placeholder}, Renaming(to, R) PROVE FALSE
    <3>1. PICK g : g = FileAt(move.from)
      OBVIOUS
    <3>2. g \in Files /\ at[g] = move.from /\ Moves(g, to, R)
      BY <1>5, <2>4, <3>1, RenamedIs DEF Renaming
    <3>3. f = g /\ move.from # Nowhere
      BY <1>1, <1>5, <3>2, FromIs, MoveFileIs
    <3>4. QED
      BY <3>2, <3>3
  <2>5. QED
    BY <1>5, <2>2, <2>3, <2>4, MoveFileIs
<1>6. ~QuarantineCaption
  <2>1. SUFFICES ASSUME QuarantineCaption PROVE FALSE
    OBVIOUS
  <2>2. /\ Moves(FileAt(CaptionPlace), HeldCaption, {}) /\ FileAt(CaptionPlace) \in Files
        /\ at[FileAt(CaptionPlace)] = CaptionPlace
    BY <2>1, QuarantineAt, FileAtIs DEF QuarantineCaption
  <2>3. CaptionPlace.dir = "stage"
    BY InIs DEF CaptionPlace
  <2>4. QED
    BY <1>1, <2>2, <2>3, InIs
<1>7. ~CheckCaption /\ ~CaptionPublished
  <2>1. SUFFICES ASSUME CheckCaption \/ CaptionPublished PROVE FALSE
    OBVIOUS
  <2>2. at' = Restored /\ excused' = excused
    BY <1>0, <2>1 DEF CheckCaption, CaptionPublished
  <2>3. /\ Moves(FileAt(HeldCaption), CaptionPlace, {}) /\ HeldCaption # Nowhere
        /\ at[FileAt(HeldCaption)] = HeldCaption /\ FileAt(HeldCaption) \in Files
    BY <1>0, <2>2, RestoredAt, FileAtIs, InIs DEF HeldCaption
  <2>4. QED
    BY <1>1, <2>3
<1>8. CASE ConvertNext
  <2>1. PICK m : /\ m = Head(todo) /\ pc = "convert" /\ todo # <<>> /\ excused' = excused
                 /\ at' = [at EXCEPT ![Output(m)] = In("convert", Output(m))] /\ pc' = "ffmpeg"
    BY <1>0, <1>8 DEF ConvertNext, Goto
  <2>2. Moves(Output(m), In("convert", Output(m)), {}) /\ m \in Media
    BY <2>1, ConvertAt
  <2>3. f = Output(m)
    BY <1>1, <2>2, FilesAre
  <2>4. QED
    BY <1>8, <2>1, <2>3
<1>9. ASSUME NEW m, at' = RemoveTemp(m), excused' = excused PROVE FALSE
  BY <1>0, <1>2, <1>9, RemoveTempAt
<1>10. ~FfmpegEnds /\ ~OutputInstalled
  BY <1>0, <1>9 DEF FfmpegEnds, OutputInstalled
<1>11. ~Retire
  <2>1. SUFFICES ASSUME Retire PROVE FALSE
    OBVIOUS
  <2>2. PICK m : /\ m = Head(todo) /\ excused' = excused /\ Taken(Staged(m))
                 /\ at' = [at EXCEPT ![FileAt(Staged(m))] = Held(m)]
    BY <1>0, <2>1 DEF Retire
  <2>3. /\ Moves(FileAt(Staged(m)), Held(m), {}) /\ FileAt(Staged(m)) \in Files
        /\ at[FileAt(Staged(m))] = Staged(m)
    BY <2>2, RetireAt
  <2>4. Staged(m).dir = "stage"
    BY InIs DEF Staged
  <2>5. QED
    BY <1>1, <2>3, <2>4, InIs
<1>12. ~CheckRetired
  <2>1. SUFFICES ASSUME CheckRetired PROVE FALSE
    OBVIOUS
  <2>2. PICK m : m = Head(todo)
    OBVIOUS
  <2>3. Taken(Held(m)) /\ excused' = excused
    BY <2>1, <2>2, BaseHas DEF CheckRetired, HandInv
  <2>4. at' = [at EXCEPT ![FileAt(Held(m))] = Nowhere]
    BY <1>0, <2>1, <2>2 DEF CheckRetired
  <2>5. QED
    BY <1>2, <2>3, <2>4, RetiredAt
<1>13. ~Verify
  BY <1>0, <1>2, VerifyAt
<1>14. \A q \in Places : ~SweepOne(q)
  <2>1. SUFFICES ASSUME NEW q \in Places, SweepOne(q) PROVE FALSE
    OBVIOUS
  <2>2. /\ FileAt(q) \in Files /\ at[FileAt(q)] = q /\ q # Nowhere
        /\ \/ at' = Remove({FileAt(q)})
           \/ \E p \in Places : Moves(FileAt(q), p, {})
    BY <1>0, <2>1, SweepOneAt, PlacesAre
  <2>3. QED
    BY <1>1, <1>2, <2>2
<1>15. QED
  BY <1>0, <1>3, <1>4, <1>5, <1>6, <1>7, <1>8, <1>10, <1>11, <1>12, <1>13, <1>14
     DEF Next, vars, Ytdlp, ReportFinished, YtdlpExits, Stranger, CancelSession, Worker, HandOff,
         Publishes, Published, TakeCaption, InstallNext, PublishPending, CaptionFallback, Converted,
         Decide, ReplacementInstalled, Drop, Stops, Sweep, SweepBegins, SweepEnds, SweepDies

NeedsOutput ==
  \/ pc \in {"caption fallback", "decide", "retire", "check retired"}
  \/ Publishing /\ task.next = "caption fallback"

\* What is done to an original is done after its converted file was installed.
LEMMA NeedsOutputStep ==
  ASSUME Base, [Next]_vars
  PROVE  NeedsOutput' => todo' = todo /\ (NeedsOutput \/ (pc = "output" /\ move.result = "ok"))
<1>a0. /\ pc \in MovePcs => move.next \in {"published", "caption published", "output", "replacement"}
       /\ Publishing => task.next \in {"install", "pending", "converted", "caption fallback"}
  BY BaseHas DEF MoveInv, TaskInv
<1>a1. ASSUME MoveFile
       PROVE  /\ pc \in MovePcs /\ todo' = todo /\ task' = task /\ move'.next = move.next
              /\ pc' = move.next \/ pc' = "rename"
  <2>1. \/ Failing \/ (\E to \in Places : Reserving(to))
        \/ \E to \in Places, R \in SUBSET {Placeholder} : Renaming(to, R)
    BY <1>a1, MoveFileIs
  <2>2. QED
    BY <1>a1, <2>1, MoveFileIs DEF Failing, Reserving, Renaming
<1>a2. ASSUME NEW m, NEW c, NEW i, NEW f, NEW next, Publish(m, c, i, f, next)
       PROVE  pc' = "move" /\ move'.next = "published" /\ task'.media = m /\ task'.next = next
  BY <1>a2, PublishIs
<1> USE <1>a0 DEF NeedsOutput, Publishing, CaptionPcs, MovePcs
<1>1. ASSUME NEW m \in Media, Fetch(m) \/ FinishStreams(m) \/ Merge(m) \/ Tidy(m) \/ ReportFinished(m)
     PROVE  NeedsOutput' => todo' = todo /\ (NeedsOutput \/ (pc = "output" /\ move.result = "ok"))
  BY <1>1 DEF Fetch, FinishStreams, Merge, Tidy, ReportFinished, YtdlpStep
<1>2. ASSUME NEW x \in Foreign, Replace(x) \/ Deposit(x) \/ Squat(x)
     PROVE  NeedsOutput' => todo' = todo /\ (NeedsOutput \/ (pc = "output" /\ move.result = "ok"))
  BY <1>2 DEF Replace, Deposit, Squat, Interfere
<1>3. CASE \/ HandOff \/ Drop \/ Verify \/ Stops
  BY <1>3 DEF Drop, Verify, Stops, HandOff, Goto
<1>4. CASE \/ SweepBegins \/ SweepEnds \/ SweepDies
  BY <1>4 DEF SweepBegins, SweepEnds, SweepDies, SweepOne, SweepKeeps
<1>5. ASSUME NEW q \in Places, SweepOne(q)
     PROVE  NeedsOutput' => todo' = todo /\ (NeedsOutput \/ (pc = "output" /\ move.result = "ok"))
  BY <1>5 DEF SweepBegins, SweepEnds, SweepDies, SweepOne, SweepKeeps
<1>6. ASSUME NEW u \in BOOLEAN, NEW d \in BOOLEAN, YtdlpExits(u, d)
      PROVE  NeedsOutput' => todo' = todo /\ (NeedsOutput \/ (pc = "output" /\ move.result = "ok"))
  BY <1>6 DEF YtdlpExits, Goto
<1>7. CASE CancelSession
  BY <1>7 DEF CancelSession, stage
<1>8. CASE MoveFails /\ MoveKeeps
  BY <1>8, <1>a1 DEF MoveFile
<1>9. CASE MoveFlagged /\ MoveKeeps
  BY <1>9, <1>a1 DEF MoveFile
<1>10. CASE Reserve /\ MoveKeeps
  BY <1>10, <1>a1 DEF MoveFile
<1>11. CASE RenameReserved /\ MoveKeeps
  BY <1>11, <1>a1 DEF MoveFile
<1>12. CASE Published
  BY <1>12 DEF Published, Ends, Goto
<1>13. CASE TakeCaption
  BY <1>13 DEF TakeCaption, CaptionFails, Goto
<1>14. CASE QuarantineCaption
  BY <1>14 DEF QuarantineCaption, Goto
<1>15. CASE CheckCaption
  <2>1. task' = task /\ todo' = todo /\ pc \in CaptionPcs
    BY <1>15 DEF CheckCaption
  <2>2. CASE Install(HeldCaption, Caption(task.media), "caption published")
    <3>1. pc' = "move" /\ move'.next = "caption published"
      BY <2>2, InstallIs
    <3>2. QED
      BY <2>1, <3>1
  <2>3. CASE CaptionFails
    BY <2>1, <2>3 DEF CaptionFails, Goto
  <2>4. QED
    BY <1>15, <2>2, <2>3 DEF CheckCaption
<1>16. CASE CaptionPublished
  BY <1>16 DEF CaptionPublished, CaptionFails, Goto
<1>17. CASE InstallNext
  <2>1. CASE Goto("drop")
    BY <2>1 DEF Goto
  <2>2. CASE Publish(Head(todo), TRUE, TRUE, FALSE, "install")
    <3>1. pc' = "move" /\ move'.next = "published" /\ task'.next = "install"
      BY <1>a2, <2>2
    <3>2. QED
      BY <3>1
  <2>3. QED
    BY <1>17, <2>1, <2>2 DEF InstallNext
<1>18. CASE PublishPending
  <2>1. CASE Goto("drop") \/ Goto("pending")
    BY <2>1 DEF Goto
  <2>2. CASE Publish(Head(todo), TRUE, FALSE, FALSE, "pending")
    <3>1. pc' = "move" /\ move'.next = "published" /\ task'.next = "pending"
      BY <1>a2, <2>2
    <3>2. QED
      BY <3>1
  <2>3. QED
    BY <1>18, <2>1, <2>2 DEF PublishPending
<1>19. CASE ConvertNext
  <2>1. ASSUME NEW c, NEW i, NEW f, Publish(Head(todo), c, i, f, "converted")
        PROVE  NeedsOutput' => todo' = todo /\ (NeedsOutput \/ (pc = "output" /\ move.result = "ok"))
    <3>1. pc' = "move" /\ move'.next = "published" /\ task'.next = "converted"
      BY <1>a2, <2>1
    <3>2. QED
      BY <3>1
  <2>2. CASE pc' \in {"drop", "pending", "ffmpeg"}
    BY <2>2
  <2>3. QED
    BY <1>19, <2>1, <2>2 DEF ConvertNext, Goto
<1>20. CASE FfmpegEnds
  <2>1. ASSUME NEW c, NEW i, NEW f, Publish(Head(todo), c, i, f, "converted")
        PROVE  NeedsOutput' => todo' = todo /\ (NeedsOutput \/ (pc = "output" /\ move.result = "ok"))
    <3>1. pc' = "move" /\ move'.next = "published" /\ task'.next = "converted"
      BY <1>a2, <2>1
    <3>2. QED
      BY <3>1
  <2>2. CASE pc' \in {"pending"}
    BY <2>2
  <2>3. CASE Install(In("convert", Output(Head(todo))), Output(Head(todo)), "output")
    <3>1. pc' = "move" /\ move'.next = "output"
      BY <2>3, InstallIs
    <3>2. QED
      BY <3>1
  <2>4. QED
    BY <1>20, <2>1, <2>2, <2>3 DEF FfmpegEnds, Goto
<1>21. CASE OutputInstalled
  <2>1. ASSUME NEW c, NEW i, NEW f, Publish(Head(todo), c, i, f, "converted")
        PROVE  NeedsOutput' => todo' = todo /\ (NeedsOutput \/ (pc = "output" /\ move.result = "ok"))
    <3>1. pc' = "move" /\ move'.next = "published" /\ task'.next = "converted"
      BY <1>a2, <2>1
    <3>2. QED
      BY <3>1
  <2>2. CASE pc' \in {"pending"}
    BY <2>2
  <2>3. CASE pc = "output" /\ move.result = "ok" /\ todo' = todo
    BY <2>3
  <2>4. QED
    BY <1>21, <2>1, <2>2, <2>3 DEF OutputInstalled, Goto
<1>22. CASE CaptionFallback
  BY <1>22, <1>a2 DEF CaptionFallback
<1>23. CASE Converted
  BY <1>23 DEF Converted, Goto
<1>24. CASE Decide
  BY <1>24, <1>a2 DEF Decide, Goto
<1>25. CASE Retire
  BY <1>25 DEF Retire, Goto
<1>26. CASE CheckRetired
  <2>1. CASE Install(Held(Head(todo)), Whole(Head(todo)), "replacement")
    <3>1. pc' = "move" /\ move'.next = "replacement"
      BY <2>1, InstallIs
    <3>2. QED
      BY <3>1
  <2>2. CASE Goto("converted")
    BY <2>2 DEF Goto
  <2>3. QED
    BY <1>26, <2>1, <2>2 DEF CheckRetired
<1>27. CASE ReplacementInstalled
  BY <1>27 DEF ReplacementInstalled, Goto
<1>28. CASE UNCHANGED vars
  BY <1>28 DEF vars, session, stage
<1>29. QED
  BY <1>1, <1>2, <1>3, <1>4, <1>5, <1>6, <1>7, <1>8, <1>9, <1>10, <1>11, <1>12, <1>13,
     <1>14, <1>15, <1>16, <1>17, <1>18, <1>19, <1>20, <1>21, <1>22, <1>23, <1>24, <1>25,
     <1>26, <1>27, <1>28 DEF Next, Ytdlp, Stranger, Worker, MoveFile, Publishes, Sweep

\* The entries to be converted, and how the worker comes to convert.
Conversion == pc \in {"handoff", "convert"} \/ Converting

\* The worker converts from the exit of yt-dlp on or not at all.
LEMMA ConversionStep ==
  ASSUME Base, [Next]_vars
  PROVE  Conversion' => Conversion \/ (pc = "ytdlp" /\ at' = at)
<1>a0. /\ pc \in MovePcs => move.next \in {"published", "caption published", "output", "replacement"}
       /\ Publishing => task.next \in {"install", "pending", "converted", "caption fallback"}
  BY BaseHas DEF MoveInv, TaskInv
<1>a1. ASSUME MoveFile
       PROVE  /\ pc \in MovePcs /\ todo' = todo /\ task' = task /\ move'.next = move.next
              /\ pc' = move.next \/ pc' = "rename"
  <2>1. \/ Failing \/ (\E to \in Places : Reserving(to))
        \/ \E to \in Places, R \in SUBSET {Placeholder} : Renaming(to, R)
    BY <1>a1, MoveFileIs
  <2>2. QED
    BY <1>a1, <2>1, MoveFileIs DEF Failing, Reserving, Renaming
<1>a2. ASSUME NEW m, NEW c, NEW i, NEW f, NEW next, Publish(m, c, i, f, next)
       PROVE  pc' = "move" /\ move'.next = "published" /\ task'.media = m /\ task'.next = next
  BY <1>a2, PublishIs
<1> USE <1>a0 DEF Conversion, Converting, ConvertPcs, Publishing, CaptionPcs, MovePcs
<1>1. ASSUME NEW m \in Media, Fetch(m) \/ FinishStreams(m) \/ Merge(m) \/ Tidy(m) \/ ReportFinished(m)
     PROVE  Conversion' => Conversion \/ (pc = "ytdlp" /\ at' = at)
  BY <1>1 DEF Fetch, FinishStreams, Merge, Tidy, ReportFinished, YtdlpStep
<1>2. ASSUME NEW x \in Foreign, Replace(x) \/ Deposit(x) \/ Squat(x)
     PROVE  Conversion' => Conversion \/ (pc = "ytdlp" /\ at' = at)
  BY <1>2 DEF Replace, Deposit, Squat, Interfere
<1>3. CASE \/ HandOff \/ Drop \/ Verify \/ Stops
  BY <1>3 DEF Drop, Verify, Stops, HandOff, Goto
<1>4. CASE \/ SweepBegins \/ SweepEnds \/ SweepDies
  BY <1>4 DEF SweepBegins, SweepEnds, SweepDies, SweepOne, SweepKeeps
<1>5. ASSUME NEW q \in Places, SweepOne(q)
     PROVE  Conversion' => Conversion \/ (pc = "ytdlp" /\ at' = at)
  BY <1>5 DEF SweepBegins, SweepEnds, SweepDies, SweepOne, SweepKeeps
<1>6. ASSUME NEW u \in BOOLEAN, NEW d \in BOOLEAN, YtdlpExits(u, d)
      PROVE  Conversion' => Conversion \/ (pc = "ytdlp" /\ at' = at)
  BY <1>6 DEF YtdlpExits, Goto
<1>7. CASE CancelSession
  BY <1>7 DEF CancelSession, stage
<1>8. CASE MoveFails /\ MoveKeeps
  BY <1>8, <1>a1 DEF MoveFile
<1>9. CASE MoveFlagged /\ MoveKeeps
  BY <1>9, <1>a1 DEF MoveFile
<1>10. CASE Reserve /\ MoveKeeps
  BY <1>10, <1>a1 DEF MoveFile
<1>11. CASE RenameReserved /\ MoveKeeps
  BY <1>11, <1>a1 DEF MoveFile
<1>12. CASE Published
  BY <1>12 DEF Published, Ends, Goto
<1>13. CASE TakeCaption
  BY <1>13 DEF TakeCaption, CaptionFails, Goto
<1>14. CASE QuarantineCaption
  BY <1>14 DEF QuarantineCaption, Goto
<1>15. CASE CheckCaption
  <2>1. task' = task /\ todo' = todo /\ pc \in CaptionPcs
    BY <1>15 DEF CheckCaption
  <2>2. CASE Install(HeldCaption, Caption(task.media), "caption published")
    <3>1. pc' = "move" /\ move'.next = "caption published"
      BY <2>2, InstallIs
    <3>2. QED
      BY <2>1, <3>1
  <2>3. CASE CaptionFails
    BY <2>1, <2>3 DEF CaptionFails, Goto
  <2>4. QED
    BY <1>15, <2>2, <2>3 DEF CheckCaption
<1>16. CASE CaptionPublished
  BY <1>16 DEF CaptionPublished, CaptionFails, Goto
<1>17. CASE InstallNext
  <2>1. \/ pc' = "drop"
        \/ pc' = "move" /\ move'.next = "published" /\ task'.next = "install"
    BY <1>17, <1>a2 DEF InstallNext, Goto
  <2>2. ~Conversion'
    BY <2>1
  <2>3. QED
    BY <2>2
<1>18. CASE PublishPending
  <2>1. \/ pc' \in {"drop", "pending"}
        \/ pc' = "move" /\ move'.next = "published" /\ task'.next = "pending"
    BY <1>18, <1>a2 DEF PublishPending, Goto
  <2>2. ~Conversion'
    BY <2>1
  <2>3. QED
    BY <2>2
<1>19. CASE ConvertNext
  BY <1>19, <1>a2 DEF ConvertNext, Goto
<1>20. CASE FfmpegEnds
  BY <1>20, <1>a2, InstallIs DEF FfmpegEnds, Goto
<1>21. CASE OutputInstalled
  BY <1>21, <1>a2 DEF OutputInstalled, NoTask, Goto
<1>22. CASE CaptionFallback
  BY <1>22, <1>a2 DEF CaptionFallback
<1>23. CASE Converted
  BY <1>23 DEF Converted, Goto
<1>24. CASE Decide
  BY <1>24, <1>a2 DEF Decide, Goto
<1>25. CASE Retire
  BY <1>25 DEF Retire, Goto
<1>26. CASE CheckRetired
  BY <1>26, InstallIs DEF CheckRetired, Goto
<1>27. CASE ReplacementInstalled
  BY <1>27 DEF ReplacementInstalled, Goto
<1>28. CASE UNCHANGED vars
  BY <1>28 DEF vars, session, stage
<1>29. QED
  BY <1>1, <1>2, <1>3, <1>4, <1>5, <1>6, <1>7, <1>8, <1>9, <1>10, <1>11, <1>12, <1>13,
     <1>14, <1>15, <1>16, <1>17, <1>18, <1>19, <1>20, <1>21, <1>22, <1>23, <1>24, <1>25,
     <1>26, <1>27, <1>28 DEF Next, Ytdlp, Stranger, Worker, MoveFile, Publishes, Sweep

\* Every step keeps OutputInv.
LEMMA OutputStep ==
  ASSUME Base, [Next]_vars
  PROVE  OutputInv'
<1>0. OutputInv /\ FolderKept /\ PlaceInv' /\ ResultInv /\ TodoInv
  BY AtStep, BaseHas DEF AtInv
<1>1. ASSUME pc' = "ytdlp", NEW m \in Media PROVE at'[Output(m)] = Nowhere
  <2>1. Output(m) \in Files /\ Output(m) \notin Foreign
    BY FilesAre, Kinds
  <2>2. at'[Output(m)].dir \notin {"held", "convert", "download"}
    BY <1>1, <2>1, OutsideStep DEF InFolder
  <2>3. at'[Output(m)] \in {Nowhere, In("convert", Output(m))} \/ at'[Output(m)].dir = "download"
    BY <1>0 DEF PlaceInv, OutputAt, InFolder, Nowhere
  <2>4. QED
    BY <2>2, <2>3, InIs
<1>2. ASSUME Conversion', NEW m \in Rest' PROVE at'[Output(m)] = Nowhere
  <2>1. Conversion \/ (pc = "ytdlp" /\ at' = at)
    BY <1>2, ConversionStep
  <2>2. m \in Media
    <3>1. m \in Entries(todo') /\ todo' \in Seq(Media)
      BY RestStep
    <3>2. QED
      BY <3>1 DEF Entries
  <2>3. CASE pc = "ytdlp" /\ at' = at
    BY <1>0, <2>2, <2>3 DEF OutputInv
  <2>4. CASE Conversion
    <3>1. pc # "ytdlp" /\ pc' # "pending"
      BY <1>2, <2>4 DEF Conversion, Converting, ConvertPcs, Publishing, CaptionPcs, MovePcs
    <3>2. m \in Rest
      BY <3>1, RestStep
    <3>3. at[Output(m)] = Nowhere
      BY <1>0, <2>4, <3>2 DEF OutputInv, Conversion
    <3>4. ASSUME ConvertNext, pc' = "ffmpeg", m = Head(todo) PROVE FALSE
      <4>1. todo' = todo /\ Converting'
        BY <3>4 DEF ConvertNext, Converting, ConvertPcs
      <4>2. Head(todo') \notin Rest'
        BY <4>1, RestStep
      <4>3. QED
        BY <1>2, <3>4, <4>1, <4>2
    <3>5. /\ Output(m) \in Files \ Foreign /\ Output(m) # Placeholder
          /\ \A k : Output(m) = Output(k) => m = k
      BY <2>2, FilesAre, Kinds
    <3>6. QED
      BY <3>1, <3>3, <3>4, <3>5, Births
  <2>5. QED
    BY <2>1, <2>3, <2>4
<1>3. ASSUME NeedsOutput' PROVE at'[Output(Head(todo'))].dir = "download"
  <2>1. todo' = todo /\ (NeedsOutput \/ (pc = "output" /\ move.result = "ok"))
    BY <1>3, NeedsOutputStep
  <2>2. InFolder(Output(Head(todo)))
    <3>1. CASE NeedsOutput
      BY <1>0, <3>1 DEF OutputInv, NeedsOutput
    <3>2. CASE pc = "output" /\ move.result = "ok"
      BY <1>0, <3>2 DEF ResultInv
    <3>3. QED
      BY <2>1, <3>1, <3>2
  <2>3. Converting
    BY <2>1 DEF NeedsOutput, Converting, ConvertPcs
  <2>4. Output(Head(todo)) \in Files \ {Placeholder}
    BY <2>3, TaskIs, FilesAre, Kinds
  <2>5. QED
    BY <1>0, <2>1, <2>2, <2>4 DEF FolderKept, InFolder
<1>4. Nowhere' = Nowhere
  BY DEF Nowhere
<1>5. QED
  BY <1>1, <1>2, <1>3, <1>4 DEF OutputInv, Conversion, NeedsOutput, InFolder

-----------------------------------------------------------------------------
(* What the session answers for                                            *)

\* The files that are reported have been installed.
Reports(f) == pc \in Installed /\ move.result \in {"ok", "unsynced"} /\ f = move.file

\* Only the result of an install is reported.
LEMMA ReportsStep ==
  ASSUME Base, [Next]_vars
  PROVE  completed' = {} \/ \A f \in completed' : f \in completed \/ Reports(f)
<1>1. ASSUME NEW m \in Media, Fetch(m) \/ FinishStreams(m) \/ Merge(m) \/ Tidy(m) \/ ReportFinished(m)
     PROVE  completed' = {} \/ \A f \in completed' : f \in completed \/ Reports(f)
  BY <1>1 DEF Fetch, FinishStreams, Merge, Tidy, ReportFinished, YtdlpStep, session
<1>2. ASSUME NEW x \in Foreign, Replace(x) \/ Deposit(x) \/ Squat(x)
     PROVE  completed' = {} \/ \A f \in completed' : f \in completed \/ Reports(f)
  BY <1>2 DEF Replace, Deposit, Squat, Interfere, session
<1>3. CASE \/ HandOff \/ Drop \/ Verify \/ Stops
  BY <1>3 DEF Drop, Verify, Stops, HandOff, Goto, session
<1>4. CASE \/ SweepBegins \/ SweepEnds \/ SweepDies
  BY <1>4 DEF SweepBegins, SweepEnds, SweepDies, SweepOne, SweepKeeps, session
<1>5. ASSUME NEW q \in Places, SweepOne(q)
     PROVE  completed' = {} \/ \A f \in completed' : f \in completed \/ Reports(f)
  BY <1>5 DEF SweepBegins, SweepEnds, SweepDies, SweepOne, SweepKeeps, session
<1>6. CASE \/ CheckCaption \/ InstallNext \/ PublishPending \/ ConvertNext \/ FfmpegEnds
           \/ CaptionFallback \/ Decide \/ Retire \/ CheckRetired
  BY <1>6 DEF InstallNext, PublishPending, ConvertNext, FfmpegEnds, CaptionFallback,
     Decide, CheckRetired, CheckCaption, Retire
<1>7. ASSUME NEW u \in BOOLEAN, NEW d \in BOOLEAN, YtdlpExits(u, d)
      PROVE  completed' = {} \/ \A f \in completed' : f \in completed \/ Reports(f)
  BY <1>7 DEF YtdlpExits, Goto
<1>8. CASE CancelSession
  BY <1>8 DEF CancelSession, stage
<1>9. CASE MoveFails /\ MoveKeeps
  BY <1>9, MoveFileIs DEF MoveFile
<1>10. CASE MoveFlagged /\ MoveKeeps
  BY <1>10, MoveFileIs DEF MoveFile
<1>11. CASE Reserve /\ MoveKeeps
  BY <1>11, MoveFileIs DEF MoveFile
<1>12. CASE RenameReserved /\ MoveKeeps
  BY <1>12, MoveFileIs DEF MoveFile
<1>13. CASE Published
  <2>1. pc = "published" /\ (move.result = "ok" => completed' = completed \cup {move.file})
    BY <1>13 DEF Published
  <2>2. ASSUME move.result # "ok"
        PROVE  \A f \in completed' : f \in completed \/ (f = move.file /\ move.result = "unsynced")
    BY <1>13, <2>2 DEF Published, Ends
  <2>3. QED
    BY <2>1, <2>2 DEF Reports, Installed
<1>14. CASE TakeCaption
  BY <1>14 DEF TakeCaption, CaptionFails, Goto
<1>15. CASE QuarantineCaption
  BY <1>15 DEF QuarantineCaption, Goto
<1>16. CASE CaptionPublished
  BY <1>16 DEF CaptionPublished, CaptionFails, Goto
<1>17. CASE OutputInstalled
  <2>1. pc = "output" /\ (completed' = completed
                         \/ (move.result = "ok" /\ completed' = completed \cup {Output(Head(todo))}))
    BY <1>17 DEF OutputInstalled
  <2>2. move.result = "ok" => move.file = Output(Head(todo))
    BY <2>1, BaseHas DEF ResultInv
  <2>3. QED
    BY <2>1, <2>2 DEF Reports, Installed
<1>18. CASE Converted
  BY <1>18 DEF Converted, Goto
<1>19. CASE ReplacementInstalled
  BY <1>19 DEF ReplacementInstalled, Reports, Installed
<1>20. CASE UNCHANGED vars
  BY <1>20 DEF vars, session, stage
<1>21. QED
  BY <1>1, <1>2, <1>3, <1>4, <1>5, <1>6, <1>7, <1>8, <1>9, <1>10, <1>11, <1>12, <1>13,
     <1>14, <1>15, <1>16, <1>17, <1>18, <1>19, <1>20 DEF Next, Ytdlp, Stranger, Worker,
     MoveFile, Publishes, Sweep

\* What is reported stays reported.
LEMMA ReportsStay ==
  ASSUME Base, [Next]_vars
  PROVE  (failed \subseteq failed' /\ completed \subseteq completed') \/ pc' = "down"
<1>1. ASSUME NEW m \in Media, Fetch(m) \/ FinishStreams(m) \/ Merge(m) \/ Tidy(m) \/ ReportFinished(m)
     PROVE  (failed \subseteq failed' /\ completed \subseteq completed') \/ pc' = "down"
  BY <1>1 DEF Fetch, FinishStreams, Merge, Tidy, ReportFinished, YtdlpStep, session
<1>2. ASSUME NEW x \in Foreign, Replace(x) \/ Deposit(x) \/ Squat(x)
     PROVE  (failed \subseteq failed' /\ completed \subseteq completed') \/ pc' = "down"
  BY <1>2 DEF Replace, Deposit, Squat, Interfere, session
<1>3. CASE \/ HandOff \/ Drop \/ Verify \/ Stops
  BY <1>3 DEF Drop, Verify, Stops, HandOff, Goto, session
<1>4. CASE \/ SweepBegins \/ SweepEnds \/ SweepDies
  BY <1>4 DEF SweepBegins, SweepEnds, SweepDies, SweepOne, SweepKeeps, session
<1>5. ASSUME NEW q \in Places, SweepOne(q)
     PROVE  (failed \subseteq failed' /\ completed \subseteq completed') \/ pc' = "down"
  BY <1>5 DEF SweepBegins, SweepEnds, SweepDies, SweepOne, SweepKeeps, session
<1>6. CASE \/ InstallNext \/ PublishPending \/ ConvertNext \/ FfmpegEnds
           \/ OutputInstalled \/ CaptionFallback \/ Decide
  BY <1>6 DEF InstallNext, PublishPending, ConvertNext, FfmpegEnds, OutputInstalled,
     CaptionFallback, Decide
<1>7. CASE \/ CheckCaption \/ Converted \/ Retire \/ CheckRetired
  BY <1>7 DEF CheckRetired, CheckCaption, CaptionFails, Retire, Converted
<1>8. ASSUME NEW u \in BOOLEAN, NEW d \in BOOLEAN, YtdlpExits(u, d)
      PROVE  (failed \subseteq failed' /\ completed \subseteq completed') \/ pc' = "down"
  BY <1>8 DEF YtdlpExits, Goto
<1>9. CASE CancelSession
  BY <1>9 DEF CancelSession, stage
<1>10. CASE MoveFails /\ MoveKeeps
  BY <1>10, MoveFileIs DEF MoveFile
<1>11. CASE MoveFlagged /\ MoveKeeps
  BY <1>11, MoveFileIs DEF MoveFile
<1>12. CASE Reserve /\ MoveKeeps
  BY <1>12, MoveFileIs DEF MoveFile
<1>13. CASE RenameReserved /\ MoveKeeps
  BY <1>13, MoveFileIs DEF MoveFile
<1>14. CASE Published
  BY <1>14 DEF Published, Ends
<1>15. CASE TakeCaption
  BY <1>15 DEF TakeCaption, CaptionFails
<1>16. CASE QuarantineCaption
  BY <1>16 DEF QuarantineCaption, Goto
<1>17. CASE CaptionPublished
  BY <1>17 DEF CaptionPublished, CaptionFails
<1>18. CASE ReplacementInstalled
  BY <1>18 DEF ReplacementInstalled
<1>19. CASE UNCHANGED vars
  BY <1>19 DEF vars, session, stage
<1>20. QED
  BY <1>1, <1>2, <1>3, <1>4, <1>5, <1>6, <1>7, <1>8, <1>9, <1>10, <1>11, <1>12, <1>13,
     <1>14, <1>15, <1>16, <1>17, <1>18, <1>19 DEF Next, Ytdlp, Stranger, Worker,
     MoveFile, Publishes, Sweep

Busy == pc \in WorkerPcs \cup {"drop"}

\* The worker begins when yt-dlp exits.
LEMMA BusyStep ==
  ASSUME Base, [Next]_vars
  PROVE  Busy' => Busy \/ (pc = "ytdlp" /\ at' = at /\ pc' \in {"handoff", "install"})
<1>a0. /\ pc \in MovePcs => move.next \in {"published", "caption published", "output", "replacement"}
       /\ Publishing => task.next \in {"install", "pending", "converted", "caption fallback"}
  BY BaseHas DEF MoveInv, TaskInv
<1>a1. ASSUME MoveFile
       PROVE  /\ pc \in MovePcs /\ todo' = todo /\ task' = task /\ move'.next = move.next
              /\ pc' = move.next \/ pc' = "rename"
  <2>1. \/ Failing \/ (\E to \in Places : Reserving(to))
        \/ \E to \in Places, R \in SUBSET {Placeholder} : Renaming(to, R)
    BY <1>a1, MoveFileIs
  <2>2. QED
    BY <1>a1, <2>1, MoveFileIs DEF Failing, Reserving, Renaming
<1>a2. ASSUME NEW m, NEW c, NEW i, NEW f, NEW next, Publish(m, c, i, f, next)
       PROVE  pc' = "move" /\ move'.next = "published" /\ task'.media = m /\ task'.next = next
  BY <1>a2, PublishIs
<1> USE <1>a0 DEF Busy, WorkerPcs, ConvertPcs, CaptionPcs, MovePcs
<1>1. ASSUME NEW m \in Media, Fetch(m) \/ FinishStreams(m) \/ Merge(m) \/ Tidy(m) \/ ReportFinished(m)
     PROVE  Busy' => Busy \/ (pc = "ytdlp" /\ at' = at /\ pc' \in {"handoff", "install"})
  BY <1>1 DEF Fetch, FinishStreams, Merge, Tidy, ReportFinished, YtdlpStep
<1>2. ASSUME NEW x \in Foreign, Replace(x) \/ Deposit(x) \/ Squat(x)
     PROVE  Busy' => Busy \/ (pc = "ytdlp" /\ at' = at /\ pc' \in {"handoff", "install"})
  BY <1>2 DEF Replace, Deposit, Squat, Interfere
<1>3. CASE \/ HandOff \/ Drop \/ Verify \/ Stops
  BY <1>3 DEF Drop, Verify, Stops, HandOff, Goto
<1>4. CASE \/ SweepBegins \/ SweepEnds \/ SweepDies
  BY <1>4 DEF SweepBegins, SweepEnds, SweepDies, SweepOne, SweepKeeps
<1>5. ASSUME NEW q \in Places, SweepOne(q)
     PROVE  Busy' => Busy \/ (pc = "ytdlp" /\ at' = at /\ pc' \in {"handoff", "install"})
  BY <1>5 DEF SweepBegins, SweepEnds, SweepDies, SweepOne, SweepKeeps
<1>6. ASSUME NEW u \in BOOLEAN, NEW d \in BOOLEAN, YtdlpExits(u, d)
      PROVE  Busy' => Busy \/ (pc = "ytdlp" /\ at' = at /\ pc' \in {"handoff", "install"})
  BY <1>6 DEF YtdlpExits, Goto
<1>7. CASE CancelSession
  BY <1>7 DEF CancelSession, stage
<1>8. CASE MoveFails /\ MoveKeeps
  BY <1>8, <1>a1 DEF MoveFile
<1>9. CASE MoveFlagged /\ MoveKeeps
  BY <1>9, <1>a1 DEF MoveFile
<1>10. CASE Reserve /\ MoveKeeps
  BY <1>10, <1>a1 DEF MoveFile
<1>11. CASE RenameReserved /\ MoveKeeps
  BY <1>11, <1>a1 DEF MoveFile
<1>12. CASE Published
  BY <1>12 DEF Published, Ends, Goto
<1>13. CASE TakeCaption
  BY <1>13 DEF TakeCaption, CaptionFails, Goto
<1>14. CASE QuarantineCaption
  BY <1>14 DEF QuarantineCaption, Goto
<1>15. CASE CheckCaption
  BY <1>15, InstallIs DEF CheckCaption, CaptionFails, Goto
<1>16. CASE CaptionPublished
  BY <1>16 DEF CaptionPublished, CaptionFails, Goto
<1>17. CASE InstallNext
  BY <1>17, <1>a2 DEF InstallNext, Goto
<1>18. CASE PublishPending
  BY <1>18, <1>a2 DEF PublishPending, Goto
<1>19. CASE ConvertNext
  BY <1>19, <1>a2 DEF ConvertNext, Goto
<1>20. CASE FfmpegEnds
  BY <1>20, <1>a2, InstallIs DEF FfmpegEnds, Goto
<1>21. CASE OutputInstalled
  BY <1>21, <1>a2 DEF OutputInstalled, NoTask, Goto
<1>22. CASE CaptionFallback
  BY <1>22, <1>a2 DEF CaptionFallback
<1>23. CASE Converted
  BY <1>23 DEF Converted, Goto
<1>24. CASE Decide
  BY <1>24, <1>a2 DEF Decide, Goto
<1>25. CASE Retire
  BY <1>25 DEF Retire, Goto
<1>26. CASE CheckRetired
  BY <1>26, InstallIs DEF CheckRetired, Goto
<1>27. CASE ReplacementInstalled
  BY <1>27 DEF ReplacementInstalled, Goto
<1>28. CASE UNCHANGED vars
  BY <1>28 DEF vars, session, stage
<1>29. QED
  BY <1>1, <1>2, <1>3, <1>4, <1>5, <1>6, <1>7, <1>8, <1>9, <1>10, <1>11, <1>12, <1>13,
     <1>14, <1>15, <1>16, <1>17, <1>18, <1>19, <1>20, <1>21, <1>22, <1>23, <1>24, <1>25,
     <1>26, <1>27, <1>28 DEF Next, Ytdlp, Stranger, Worker, MoveFile, Publishes, Sweep

\* The next entry that is taken is published or converted.
LEMMA TakesOne ==
  ASSUME Base, [Next]_vars, pc # "ytdlp", pc' # "down", NEW m \in Rest, m \notin Rest'
  PROVE  Open(m)'
<1>1. m = Head(todo) /\ todo # <<>> /\ ~Converting
  <2>1. todo # <<>> /\ Rest' = Rest \ {Head(todo)}
    BY RestStep
  <2>2. m = Head(todo)
    BY <2>1
  <2>3. QED
    BY <2>1, <2>2, BaseHas, ReportedIn DEF Rest
<1>2. Here(m) /\ DataInv /\ TodoInv
  BY BaseHas DEF HandInv
<1>3. ASSUME NEW c, NEW i, NEW f, NEW next, Publish(m, c, i, f, next) PROVE Open(m)'
  <2>1. pc' = "move" /\ move'.next = "published" /\ task'.media = m
    BY <1>3, PublishIs
  <2>2. QED
    BY <2>1 DEF Open, MovePcs
<1>4. Rest = Entries(todo) /\ Entries(Tail(todo)) = Entries(todo) \ {m}
  BY <1>1, <1>2, ReportedIn DEF Rest
<1>5. CASE pc = "install"
  <2>1. InstallNext \/ (todo' = todo /\ pc' = pc)
    BY <1>5 DEF Next, vars, Ytdlp, Fetch, FinishStreams, Merge, Tidy, YtdlpStep, ReportFinished,
       YtdlpExits, Stranger, Replace, Deposit, Squat, Interfere, CancelSession, Worker, HandOff,
       MoveFile, MoveFails, MoveFlagged, Reserve, RenameReserved, Publishes, Published, TakeCaption,
       QuarantineCaption, CheckCaption, CaptionPublished, PublishPending,
       ConvertNext, FfmpegEnds, OutputInstalled, CaptionFallback, Converted, Decide, Retire,
       CheckRetired, ReplacementInstalled, Drop, Verify, Stops, Sweep, SweepBegins, SweepEnds,
       SweepDies, SweepOne
  <2>2. CASE InstallNext
    BY <1>1, <1>3, <2>2 DEF InstallNext
  <2>3. CASE todo' = todo /\ pc' = pc
    <3>1. ~Converting'
      BY <1>5, <2>3 DEF Converting, Publishing, ConvertPcs, CaptionPcs, MovePcs
    <3>2. QED
      BY <1>4, <2>3, <3>1 DEF Rest
  <2>4. QED
    BY <2>1, <2>2, <2>3
<1>6. CASE pc = "pending"
  <2>1. PublishPending \/ (todo' = todo /\ pc' = pc)
    BY <1>6 DEF Next, vars, Ytdlp, Fetch, FinishStreams, Merge, Tidy, YtdlpStep, ReportFinished,
       YtdlpExits, Stranger, Replace, Deposit, Squat, Interfere, CancelSession, Worker, HandOff,
       MoveFile, MoveFails, MoveFlagged, Reserve, RenameReserved, Publishes, Published, TakeCaption,
       QuarantineCaption, CheckCaption, CaptionPublished, InstallNext,
       ConvertNext, FfmpegEnds, OutputInstalled, CaptionFallback, Converted, Decide, Retire,
       CheckRetired, ReplacementInstalled, Drop, Verify, Stops, Sweep, SweepBegins, SweepEnds,
       SweepDies, SweepOne
  <2>2. CASE PublishPending
    BY <1>1, <1>2, <1>3, <2>2 DEF PublishPending, Here
  <2>3. CASE todo' = todo /\ pc' = pc
    <3>1. ~Converting'
      BY <1>6, <2>3 DEF Converting, Publishing, ConvertPcs, CaptionPcs, MovePcs
    <3>2. QED
      BY <1>4, <2>3, <3>1 DEF Rest
  <2>4. QED
    BY <2>1, <2>2, <2>3
<1>7. CASE pc = "convert"
  <2>1. ConvertNext \/ (todo' = todo /\ pc' = pc)
    BY <1>7 DEF Next, vars, Ytdlp, Fetch, FinishStreams, Merge, Tidy, YtdlpStep, ReportFinished,
       YtdlpExits, Stranger, Replace, Deposit, Squat, Interfere, CancelSession, Worker, HandOff,
       MoveFile, MoveFails, MoveFlagged, Reserve, RenameReserved, Publishes, Published, TakeCaption,
       QuarantineCaption, CheckCaption, CaptionPublished, InstallNext, PublishPending,
       FfmpegEnds, OutputInstalled, CaptionFallback, Converted, Decide, Retire,
       CheckRetired, ReplacementInstalled, Drop, Verify, Stops, Sweep, SweepBegins, SweepEnds,
       SweepDies, SweepOne
  <2>2. CASE ConvertNext
    <3>1. todo' = todo
      BY <2>2 DEF ConvertNext
    <3>2. CASE pc' = "pending"
      <4>1. ~Converting'
        BY <3>2 DEF Converting, Publishing, ConvertPcs, CaptionPcs, MovePcs
      <4>2. QED
        BY <1>4, <3>1, <4>1 DEF Rest
    <3>3. CASE pc' = "ffmpeg"
      BY <1>1, <3>1, <3>3 DEF Open
    <3>4. CASE \E c, f \in BOOLEAN : Publish(m, c, FALSE, f, "converted")
      BY <1>3, <3>4
    <3>5. QED
      BY <1>1, <2>2, <3>2, <3>3, <3>4 DEF ConvertNext, Goto
  <2>3. CASE todo' = todo /\ pc' = pc
    <3>1. ~Converting'
      BY <1>7, <2>3 DEF Converting, Publishing, ConvertPcs, CaptionPcs, MovePcs
    <3>2. QED
      BY <1>4, <2>3, <3>1 DEF Rest
  <2>4. QED
    BY <2>1, <2>2, <2>3
<1>8. CASE pc \notin {"install", "pending", "convert"}
  <2>1. (todo' = todo /\ ~Converting') \/ (todo' = <<>> /\ pc' = "down")
    BY <1>1, <1>8, ControlStep DEF Control
  <2>2. Rest' = Rest
    BY <1>4, <2>1 DEF Rest
  <2>3. QED
    BY <2>2
<1>9. QED
  BY <1>5, <1>6, <1>7, <1>8

\* The snapshot is taken once.
LEMMA KnownStep ==
  ASSUME [Next]_vars
  PROVE  (owned' = owned /\ known' = known) \/ (owned' = {} /\ pc' = "down")
         \/ \E a, b \in BOOLEAN : YtdlpExits(a, b)
<1>1. ASSUME NEW m \in Media, Fetch(m) \/ FinishStreams(m) \/ Merge(m) \/ Tidy(m) \/ ReportFinished(m)
     PROVE  (owned' = owned /\ known' = known) \/ (owned' = {} /\ pc' = "down")
            \/ \E a, b \in BOOLEAN : YtdlpExits(a, b)
  BY <1>1 DEF Fetch, FinishStreams, Merge, Tidy, ReportFinished, YtdlpStep, stage
<1>2. ASSUME NEW x \in Foreign, Replace(x) \/ Deposit(x) \/ Squat(x)
     PROVE  (owned' = owned /\ known' = known) \/ (owned' = {} /\ pc' = "down")
            \/ \E a, b \in BOOLEAN : YtdlpExits(a, b)
  BY <1>2 DEF Replace, Deposit, Squat, Interfere, stage
<1>3. CASE \/ CancelSession \/ HandOff \/ Published \/ QuarantineCaption \/ CheckCaption
           \/ CaptionPublished \/ InstallNext \/ Drop \/ Verify \/ Stops
  BY <1>3 DEF HandOff, Drop, Verify, Stops, CancelSession, Published, QuarantineCaption,
     CheckCaption, CaptionPublished, InstallNext, stage
<1>4. CASE \/ TakeCaption \/ PublishPending \/ ConvertNext \/ FfmpegEnds
           \/ OutputInstalled \/ CaptionFallback \/ Converted \/ Decide \/ Retire
           \/ CheckRetired \/ ReplacementInstalled
  BY <1>4 DEF PublishPending, ConvertNext, FfmpegEnds, OutputInstalled, CaptionFallback,
     Converted, Decide, Retire, CheckRetired, ReplacementInstalled, TakeCaption
<1>5. CASE \/ (MoveFails /\ MoveKeeps) \/ (MoveFlagged /\ MoveKeeps)
           \/ (Reserve /\ MoveKeeps) \/ (RenameReserved /\ MoveKeeps)
  BY <1>5 DEF MoveKeeps
<1>6. CASE \/ SweepBegins \/ SweepEnds \/ SweepDies
  BY <1>6 DEF SweepBegins, SweepEnds, SweepDies, SweepOne, SweepKeeps
<1>7. ASSUME NEW q \in Places, SweepOne(q)
     PROVE  (owned' = owned /\ known' = known) \/ (owned' = {} /\ pc' = "down")
            \/ \E a, b \in BOOLEAN : YtdlpExits(a, b)
  BY <1>7 DEF SweepBegins, SweepEnds, SweepDies, SweepOne, SweepKeeps
<1>8. ASSUME NEW u \in BOOLEAN, NEW d \in BOOLEAN, YtdlpExits(u, d)
      PROVE  (owned' = owned /\ known' = known) \/ (owned' = {} /\ pc' = "down")
             \/ \E a, b \in BOOLEAN : YtdlpExits(a, b)
  BY <1>8
<1>9. CASE UNCHANGED vars
  BY <1>9 DEF vars, stage, session
<1>10. QED
  BY <1>1, <1>2, <1>3, <1>4, <1>5, <1>6, <1>7, <1>8, <1>9 DEF Next, Ytdlp, Stranger,
     Worker, MoveFile, Publishes, Sweep

\* What happens while the worker is at one of its steps: the step, or what others do.
LEMMA FfmpegEndsOnly ==
  ASSUME [Next]_vars, pc' # "down", pc = "ffmpeg"
  PROVE  FfmpegEnds \/ UNCHANGED <<pc, todo, task, move>>
BY DEF Next, vars, Ytdlp, Fetch, FinishStreams, Merge, Tidy, YtdlpStep,
   ReportFinished, YtdlpExits, Stranger, Replace, Deposit, Squat, Interfere,
   CancelSession, Worker, HandOff, MoveFile, MoveFails, MoveFlagged, Reserve,
   RenameReserved, Publishes, Published, TakeCaption, QuarantineCaption, CheckCaption,
   CaptionPublished, InstallNext, PublishPending, ConvertNext, OutputInstalled,
   CaptionFallback, Converted, Decide, Retire, CheckRetired, ReplacementInstalled,
   Drop, Verify, Stops, Sweep, SweepBegins, SweepEnds, SweepDies, SweepOne

\* Only one action leaves each of the places where the session answers for an entry.
LEMMA OutputInstalledOnly ==
  ASSUME [Next]_vars, pc' # "down", pc = "output"
  PROVE  OutputInstalled \/ UNCHANGED <<pc, todo, task, move>>
BY DEF Next, vars, Ytdlp, Fetch, FinishStreams, Merge, Tidy, YtdlpStep,
   ReportFinished, YtdlpExits, Stranger, Replace, Deposit, Squat, Interfere,
   CancelSession, Worker, HandOff, MoveFile, MoveFails, MoveFlagged, Reserve,
   RenameReserved, Publishes, Published, TakeCaption, QuarantineCaption, CheckCaption,
   CaptionPublished, InstallNext, PublishPending, ConvertNext, FfmpegEnds,
   CaptionFallback, Converted, Decide, Retire, CheckRetired, ReplacementInstalled,
   Drop, Verify, Stops, Sweep, SweepBegins, SweepEnds, SweepDies, SweepOne

\* The same of an install under way ...
LEMMA MoveFileOnly ==
  ASSUME [Next]_vars, pc' # "down", pc \in MovePcs
  PROVE  MoveFile \/ UNCHANGED <<pc, todo, task, move>>
BY DEF Next, vars, Ytdlp, Fetch, FinishStreams, Merge, Tidy, YtdlpStep,
   ReportFinished, YtdlpExits, Stranger, Replace, Deposit, Squat, Interfere,
   CancelSession, Worker, HandOff, Publishes, Published, TakeCaption,
   QuarantineCaption, CheckCaption, CaptionPublished, InstallNext, PublishPending,
   ConvertNext, FfmpegEnds, OutputInstalled, CaptionFallback, Converted, Decide,
   Retire, CheckRetired, ReplacementInstalled, Drop, Verify, Stops, Sweep,
   SweepBegins, SweepEnds, SweepDies, SweepOne, MovePcs

\* ... and of one that is over.
LEMMA PublishedOnly ==
  ASSUME [Next]_vars, pc' # "down", pc = "published"
  PROVE  Published \/ UNCHANGED <<pc, todo, task, move>>
BY DEF Next, vars, Ytdlp, Fetch, FinishStreams, Merge, Tidy, YtdlpStep,
   ReportFinished, YtdlpExits, Stranger, Replace, Deposit, Squat, Interfere,
   CancelSession, Worker, HandOff, MoveFile, MoveFails, MoveFlagged, Reserve,
   RenameReserved, Publishes, TakeCaption, QuarantineCaption, CheckCaption,
   CaptionPublished, InstallNext, PublishPending, ConvertNext, FfmpegEnds,
   OutputInstalled, CaptionFallback, Converted, Decide, Retire, CheckRetired,
   ReplacementInstalled, Drop, Verify, Stops, Sweep, SweepBegins, SweepEnds,
   SweepDies, SweepOne


\* A conversion or an install that is in progress does not settle the entry.
LEMMA OpenGoesOn ==
  ASSUME Base, [Next]_vars, FfmpegEnds \/ MoveFile, NEW m, Open(m)
  PROVE  Open(m)' \/ m \in Rest'
<1>0. TodoInv
  BY BaseHas
<1>1. ASSUME NEW c, NEW i, NEW f, NEW next, Publish(m, c, i, f, next) PROVE Open(m)'
  <2>1. pc' = "move" /\ move'.next = "published" /\ task'.media = m
    BY <1>1, PublishIs
  <2>2. QED
    BY <2>1 DEF Open, MovePcs
<1>2. ASSUME Converting, m = Head(todo), todo' = todo, pc' = "pending" PROVE m \in Rest'
  <2>1. ~Converting'
    BY <1>2 DEF Converting, Publishing, ConvertPcs, CaptionPcs, MovePcs
  <2>2. todo # <<>>
    BY <1>0, <1>2 DEF TodoInv
  <2>3. m \in Entries(todo)
    BY <1>0, <1>2, <2>2, ReportedIn
  <2>4. QED
    BY <1>2, <2>1, <2>3 DEF Rest
<1>3. CASE FfmpegEnds
  <2>1. pc = "ffmpeg" /\ todo' = todo /\ Converting
    BY <1>3 DEF FfmpegEnds, Converting, ConvertPcs
  <2>2. m = Head(todo)
    BY <2>1 DEF Open, MovePcs
  <2>3. CASE Install(In("convert", Output(m)), Output(m), "output")
    <3>1. pc' = "move" /\ move'.next = "output"
      BY <2>3, InstallIs
    <3>2. QED
      BY <2>1, <2>2, <3>1 DEF Open, MovePcs
  <2>4. CASE Publish(m, TRUE, FALSE, TRUE, "converted")
    BY <1>1, <2>4
  <2>5. CASE pc' = "pending"
    BY <1>2, <2>1, <2>2, <2>5
  <2>6. QED
    BY <1>3, <2>2, <2>3, <2>4, <2>5 DEF FfmpegEnds, Goto
<1>4. CASE MoveFile
  <2>1. /\ pc \in MovePcs /\ task' = task /\ todo' = todo
        /\ move.next \in {"published", "caption published", "output", "replacement"}
        /\ \/ Failing
           \/ \E to \in Places : Reserving(to)
           \/ \E to \in Places, R \in SUBSET {Placeholder} : Renaming(to, R)
    BY <1>4, MoveFileIs
  <2>2. pc' = move.next \/ (pc' = "rename" /\ move'.next = move.next)
    BY <2>1 DEF Failing, Reserving, Renaming
  <2>3. \/ move.next = "output" /\ m = Head(todo)
        \/ move.next = "published" /\ m = task.media
    BY <2>1 DEF Open, MovePcs
  <2>4. QED
    BY <2>1, <2>2, <2>3 DEF Open, MovePcs
<1>5. QED
  BY <1>3, <1>4

\* A publication that was open still is, waits for its turn again or is answered for.
LEMMA OpenStep ==
  ASSUME Base, [Next]_vars, pc' # "down", NEW m, Open(m)
  PROVE  Open(m)' \/ m \in Rest' \/ Answered(m)'
<1>0. TodoInv /\ TaskInv /\ ResultInv /\ excused \subseteq excused'
  BY BaseHas, AtStep
<1>1. CASE UNCHANGED <<pc, todo, task, move>>
  BY <1>1 DEF Open
<1>2. ASSUME NEW c, NEW i, NEW f, NEW next, Publish(m, c, i, f, next) PROVE Open(m)'
  <2>1. pc' = "move" /\ move'.next = "published" /\ task'.media = m
    BY <1>2, PublishIs
  <2>2. QED
    BY <2>1 DEF Open, MovePcs
<1>3. CASE OutputInstalled
  <2>1. pc = "output" /\ todo' = todo /\ Converting
    BY <1>3 DEF OutputInstalled, Converting, ConvertPcs
  <2>2. m = Head(todo)
    BY <2>1 DEF Open, MovePcs
  <2>3. CASE Publish(m, TRUE, FALSE, TRUE, "converted")
    BY <1>2, <2>3
  <2>4. CASE completed' = completed \cup {Output(m)}
    BY <2>4 DEF Answered
  <2>5. QED
    BY <1>3, <2>2, <2>3, <2>4 DEF OutputInstalled
<1>4. CASE Published
  <2>1. pc = "published" /\ m = task.media
    BY <1>4 DEF Published, Open, MovePcs
  <2>2. CASE move.result = "ok"
    <3>1. completed' = completed \cup {move.file}
      BY <1>4, <2>2 DEF Published
    <3>2. move.file = Whole(m) \/ Whole(m) \in excused
      BY <1>0, <2>1, <2>2 DEF ResultInv
    <3>3. QED
      BY <1>0, <3>1, <3>2 DEF Answered
  <2>3. CASE move.result # "ok"
    <3>1. failed' = failed \cup {m}
      BY <1>4, <2>1, <2>3 DEF Published, Ends
    <3>2. QED
      BY <3>1 DEF Answered
  <2>4. QED
    BY <2>2, <2>3
<1>5. pc \in {"ffmpeg", "output", "published"} \cup MovePcs
  BY DEF Open
<1>6. QED
  BY <1>1, <1>3, <1>4, <1>5, OpenGoesOn, FfmpegEndsOnly, OutputInstalledOnly, MoveFileOnly,
     PublishedOnly

\* When yt-dlp exits the worker has every reported entry still to come to.
LEMMA ExitTakesAll ==
  ASSUME Base, [Next]_vars, Busy', pc = "ytdlp", NEW m \in Reported'
  PROVE  m \in Rest'
<1>1. HandInv /\ TodoInv /\ at' = at /\ pc' \in {"handoff", "install"}
  BY BaseHas, BusyStep DEF Busy, WorkerPcs, ConvertPcs, CaptionPcs, MovePcs
<1>2. PICK u \in BOOLEAN, d \in BOOLEAN : YtdlpExits(u, d)
  BY <1>1 DEF Next, vars,
       Ytdlp, Fetch, FinishStreams, Merge, Tidy, YtdlpStep, ReportFinished, Stranger,
       Replace, Deposit, Squat, Interfere, CancelSession, Worker, HandOff, MoveFile,
       MoveFails, MoveFlagged, Reserve, RenameReserved, Publishes, Published,
       TakeCaption, QuarantineCaption, CheckCaption, CaptionPublished, InstallNext,
       PublishPending, ConvertNext, FfmpegEnds, OutputInstalled, CaptionFallback,
       Converted, Decide, Retire, CheckRetired, ReplacementInstalled, Drop, Verify,
       Stops, Sweep, SweepBegins, SweepEnds, SweepDies, SweepOne
<1>3. recorded' = recorded /\ todo' \in Present
  BY <1>2 DEF YtdlpExits, Goto
<1>4. m \in Finished
  BY <1>1, <1>3 DEF HandInv, Here, Finished, Reported
<1>5. Entries(todo') = Finished
  BY <1>1, <1>3, PresentIs DEF TodoInv
<1>6. ~Converting'
  BY <1>1 DEF Converting, Publishing, ConvertPcs, CaptionPcs, MovePcs
<1>7. QED
  BY <1>4, <1>5, <1>6 DEF Rest

\* Every step keeps AnswerInv.
LEMMA AnswerStep ==
  ASSUME Base, [Next]_vars
  PROVE  AnswerInv'
<1>0. AnswerInv /\ HandInv /\ ResultInv /\ FolderKept /\ excused \subseteq excused' /\ DataInv
  BY BaseHas, AtStep
<1>1. ASSUME NEW f \in completed' PROVE f \in Files \ {Placeholder} /\ InFolder(f)'
  <2>1. f \in completed \/ Reports(f)
    BY ReportsStep
  <2>2. f \in Files \ {Placeholder} /\ InFolder(f)
    BY <1>0, <2>1 DEF AnswerInv, ResultInv, Reports, Installed
  <2>3. QED
    BY <1>0, <2>2 DEF FolderKept, InFolder
<1>2. ASSUME Busy', NEW m \in Reported' PROVE m \in Rest' \/ Open(m)' \/ Answered(m)'
  <2>1. pc' # "down"
    BY <1>2 DEF Busy, WorkerPcs, ConvertPcs, CaptionPcs, MovePcs
  <2>2. CASE pc = "ytdlp"
    BY <1>2, <2>2, ExitTakesAll
  <2>3. CASE Busy
    <3>1. pc # "ytdlp"
      BY <2>3 DEF Busy, WorkerPcs, ConvertPcs, CaptionPcs, MovePcs
    <3>2. m \in Reported
      BY <1>2, <3>1, ReportedGrows
    <3>3. m \in Rest \/ Open(m) \/ Answered(m)
      BY <1>0, <2>3, <3>2 DEF AnswerInv, Busy
    <3>4. Answered(m) => Answered(m)'
      BY <1>0, <2>1, ReportsStay DEF Answered
    <3>5. QED
      BY <2>1, <3>1, <3>3, <3>4, TakesOne, OpenStep
  <2>4. QED
    BY <1>2, <2>2, <2>3, BusyStep
<1>3. QED
  BY <1>1, <1>2 DEF AnswerInv, Busy

-----------------------------------------------------------------------------
(* The snapshot and the sweep                                              *)

\* Every step keeps OwnedInv.
LEMMA OwnedStep ==
  ASSUME Base, [Next]_vars
  PROVE  OwnedInv'
<1>0. OwnedInv /\ DataInv /\ excused \subseteq excused'
  BY BaseHas, AtStep
<1>1. ASSUME NEW u \in BOOLEAN, NEW d \in BOOLEAN, YtdlpExits(u, d) PROVE OwnedInv'
  <2>1. PICK valid \in BOOLEAN : Snapshot(valid)
    BY <1>1 DEF YtdlpExits
  <2>2. CASE valid
    <3>1. owned' = {<<at[f], f>> : f \in StageFiles} /\ excused' = excused \cup (StageFiles \cap Foreign)
      BY <2>1, <2>2 DEF Snapshot
    <3>2. \A f \in StageFiles : f \in Files /\ at[f] \in Places
      BY <1>0, StageFilesAre, InIs DEF DataInv
    <3>3. QED
      BY <3>1, <3>2 DEF OwnedInv
  <2>3. CASE ~valid
    BY <2>1, <2>3 DEF Snapshot, OwnedInv
  <2>4. QED
    BY <2>2, <2>3
<1>2. QED
  BY <1>0, <1>1, KnownStep DEF OwnedInv

\* A sweep begins at the start of the program.
LEMMA Sweeping ==
  ASSUME Base, [Next]_vars
  PROVE  pc' = "sweep" => pc = "sweep" \/ SweepBegins
<1>a0. /\ pc \in MovePcs => move.next \in {"published", "caption published", "output", "replacement"}
       /\ Publishing => task.next \in {"install", "pending", "converted", "caption fallback"}
  BY BaseHas DEF MoveInv, TaskInv
<1>a1. ASSUME MoveFile
       PROVE  /\ pc \in MovePcs /\ todo' = todo /\ task' = task /\ move'.next = move.next
              /\ pc' = move.next \/ pc' = "rename"
  <2>1. \/ Failing \/ (\E to \in Places : Reserving(to))
        \/ \E to \in Places, R \in SUBSET {Placeholder} : Renaming(to, R)
    BY <1>a1, MoveFileIs
  <2>2. QED
    BY <1>a1, <2>1, MoveFileIs DEF Failing, Reserving, Renaming
<1>a2. ASSUME NEW m, NEW c, NEW i, NEW f, NEW next, Publish(m, c, i, f, next)
       PROVE  pc' = "move" /\ move'.next = "published" /\ task'.media = m /\ task'.next = next
  BY <1>a2, PublishIs
<1> USE <1>a0 DEF Publishing, CaptionPcs
<1>1. ASSUME NEW m \in Media, Fetch(m) \/ FinishStreams(m) \/ Merge(m) \/ Tidy(m) \/ ReportFinished(m)
     PROVE  pc' = "sweep" => pc = "sweep" \/ SweepBegins
  BY <1>1 DEF Fetch, FinishStreams, Merge, Tidy, ReportFinished, YtdlpStep
<1>2. ASSUME NEW x \in Foreign, Replace(x) \/ Deposit(x) \/ Squat(x)
     PROVE  pc' = "sweep" => pc = "sweep" \/ SweepBegins
  BY <1>2 DEF Replace, Deposit, Squat, Interfere
<1>3. CASE \/ HandOff \/ Drop \/ Verify \/ Stops
  BY <1>3 DEF Drop, Verify, Stops, HandOff, Goto
<1>4. CASE \/ SweepEnds \/ SweepDies
  BY <1>4 DEF SweepEnds, SweepDies, SweepOne, SweepKeeps
<1>5. ASSUME NEW q \in Places, SweepOne(q)
     PROVE  pc' = "sweep" => pc = "sweep" \/ SweepBegins
  BY <1>5 DEF SweepEnds, SweepDies, SweepOne, SweepKeeps
<1>6. CASE SweepBegins
  BY <1>6 DEF MovePcs
<1>7. ASSUME NEW u \in BOOLEAN, NEW d \in BOOLEAN, YtdlpExits(u, d)
      PROVE  pc' = "sweep" => pc = "sweep" \/ SweepBegins
  BY <1>7 DEF YtdlpExits, Goto
<1>8. CASE CancelSession
  BY <1>8 DEF CancelSession, stage
<1>9. CASE MoveFails /\ MoveKeeps
  BY <1>9, <1>a1 DEF MoveFile
<1>10. CASE MoveFlagged /\ MoveKeeps
  BY <1>10, <1>a1 DEF MoveFile
<1>11. CASE Reserve /\ MoveKeeps
  BY <1>11, <1>a1 DEF MoveFile
<1>12. CASE RenameReserved /\ MoveKeeps
  BY <1>12, <1>a1 DEF MoveFile
<1>13. CASE Published
  BY <1>13 DEF Published, Ends, Goto
<1>14. CASE TakeCaption
  BY <1>14 DEF TakeCaption, CaptionFails, Goto
<1>15. CASE QuarantineCaption
  BY <1>15 DEF QuarantineCaption, Goto
<1>16. CASE CheckCaption
  BY <1>16, InstallIs DEF CheckCaption, CaptionFails, Goto
<1>17. CASE CaptionPublished
  BY <1>17 DEF CaptionPublished, CaptionFails, Goto
<1>18. CASE InstallNext
  BY <1>18, <1>a2 DEF InstallNext, Goto
<1>19. CASE PublishPending
  BY <1>19, <1>a2 DEF PublishPending, Goto
<1>20. CASE ConvertNext
  BY <1>20, <1>a2 DEF ConvertNext, Goto
<1>21. CASE FfmpegEnds
  BY <1>21, <1>a2, InstallIs DEF FfmpegEnds, Goto
<1>22. CASE OutputInstalled
  BY <1>22, <1>a2 DEF OutputInstalled, NoTask, Goto
<1>23. CASE CaptionFallback
  BY <1>23, <1>a2 DEF CaptionFallback
<1>24. CASE Converted
  BY <1>24 DEF Converted, Goto
<1>25. CASE Decide
  BY <1>25, <1>a2 DEF Decide, Goto
<1>26. CASE Retire
  BY <1>26 DEF Retire, Goto
<1>27. CASE CheckRetired
  BY <1>27, InstallIs DEF CheckRetired, Goto
<1>28. CASE ReplacementInstalled
  BY <1>28 DEF ReplacementInstalled, Goto
<1>29. CASE UNCHANGED vars
  BY <1>29 DEF vars, session, stage
<1>30. QED
  BY <1>1, <1>2, <1>3, <1>4, <1>5, <1>6, <1>7, <1>8, <1>9, <1>10, <1>11, <1>12, <1>13,
     <1>14, <1>15, <1>16, <1>17, <1>18, <1>19, <1>20, <1>21, <1>22, <1>23, <1>24, <1>25,
     <1>26, <1>27, <1>28, <1>29 DEF Next, Ytdlp, Stranger, Worker, MoveFile, Publishes,
     Sweep

\* Every step keeps SweepInv, and a sweep does not change its mind about the merged files.
LEMMA SweepStep ==
  ASSUME Base, [Next]_vars
  PROVE  /\ SweepInv'
         /\ pc = "sweep" /\ pc' = "sweep" => sweep'.merged = sweep.merged
<1>0. SweepInv /\ DataInv
  BY BaseHas
<1>1. CASE SweepBegins
  <2>1. pc = "down" /\ sweep' = [left |-> {at[f] : f \in StageFiles}, merged |-> MergedStems,
                                    retained |-> FALSE]
    BY <1>1 DEF SweepBegins
  <2>2. sweep'.left = {at[f] : f \in StageFiles}
    BY <2>1
  <2>3. \A p \in sweep'.left : p.dir \in {"stage", "held", "convert"}
    BY <2>2, StageFilesAre
  <2>4. sweep' = [left |-> sweep'.left, merged |-> sweep'.merged, retained |-> sweep'.retained]
    BY <2>1
  <2>5. QED
    BY <2>1, <2>3, <2>4 DEF SweepInv
<1>2. ASSUME NEW q \in Places, SweepOne(q)
      PROVE  /\ SweepInv'
             /\ pc = "sweep" /\ pc' = "sweep" => sweep'.merged = sweep.merged
  <2>1. pc = "sweep" /\ sweep = [left |-> sweep.left, merged |-> sweep.merged, retained |-> sweep.retained]
    BY <1>0, <1>2 DEF SweepOne, SweepInv
  <2>2. \/ sweep' = [sweep EXCEPT !.left = @ \ {q}, !.retained = TRUE]
        \/ sweep' = [sweep EXCEPT !.left = @ \ {q}]
    BY <1>2 DEF SweepOne
  <2>3. /\ sweep' = [left |-> sweep'.left, merged |-> sweep'.merged, retained |-> sweep'.retained]
        /\ sweep'.left = sweep.left \ {q} /\ sweep'.merged = sweep.merged
    BY ONLY <2>1, <2>2
  <2>4. QED
    BY <1>0, <2>1, <2>3 DEF SweepInv
<1>3. pc' = "sweep" => \/ SweepBegins
                       \/ \E q \in Places : SweepOne(q)
                       \/ pc = "sweep" /\ sweep' = sweep
  <2>1. pc = "sweep" =>
          SweepBegins \/ (\E q \in Places : SweepOne(q)) \/ SweepEnds \/ SweepDies \/ sweep' = sweep
    BY DEF Next, vars, Ytdlp, Fetch, FinishStreams, Merge, Tidy, YtdlpStep, ReportFinished,
       YtdlpExits, Stranger, Replace, Deposit, Squat, Interfere, CancelSession,
       Worker, HandOff, MoveFile, MoveFails, MoveFlagged, Reserve, RenameReserved,
       Publishes, Published, TakeCaption, QuarantineCaption, CheckCaption,
       CaptionPublished, InstallNext, PublishPending, ConvertNext, FfmpegEnds,
       OutputInstalled, CaptionFallback, Converted, Decide, Retire, CheckRetired,
       ReplacementInstalled, Drop, Verify, Stops, Sweep
  <2>2. pc' = "sweep" /\ pc # "sweep" => SweepBegins
    BY Sweeping
  <2>3. ~(pc' = "sweep" /\ (SweepEnds \/ SweepDies))
    BY DEF SweepEnds, SweepDies
  <2>4. QED
    BY <2>1, <2>2, <2>3
<1>4. QED
  BY <1>0, <1>1, <1>2, <1>3 DEF SweepInv, SweepBegins

-----------------------------------------------------------------------------
(* The invariant                                                           *)

\* The invariant holds initially ...
LEMMA InitBase == Init => Base
<1> SUFFICES ASSUME Init PROVE Base
  OBVIOUS
<1> USE DEF Init
<1>1. \A f \in Files : at[f] = Nowhere
  OBVIOUS
<1>2. recorded = <<>> /\ todo = <<>> /\ Entries(recorded) = {} /\ Entries(todo) = {}
  BY NoEntries DEF Entries
<1>3. DataInv
  <2>1. at \in [Files -> Places \cup {Nowhere}]
    OBVIOUS
  <2>2. faults \in 0 .. MaxFaults
    BY PublicationAssumption
  <2>3. QED
    BY <2>1, <2>2 DEF DataInv, Flags
<1>4. OneEach
  BY <1>1 DEF OneEach, Kept
<1>5. PlaceInv
  BY <1>1, FilesAre DEF PlaceInv, WholeAt, StreamAt, ThumbAt, CaptionAt, OutputAt, StrangerAt
<1>6. RootInv
  BY DEF RootInv, Pcs
<1>7. TodoInv
  <2>1. ~Converting
    BY DEF Converting, Publishing, ConvertPcs, CaptionPcs, MovePcs
  <2>2. <<>> \in Seq(Media) /\ NoTwice(<<>>)
    BY DEF NoTwice
  <2>3. QED
    BY <1>2, <2>1, <2>2 DEF TodoInv
<1>8. TaskInv
  BY DEF TaskInv, Publishing, CaptionPcs, MovePcs
<1>9. MoveInv
  BY DEF MoveInv, NoMove, MovePcs
<1>10. \A q : q # Nowhere => ~Taken(q)
  BY <1>1 DEF Taken
<1>11. HeldInv
  BY <1>10, InIs DEF HeldInv, Staged, Nowhere, In
<1>12. HandInv
  <2>1. Reported = {} /\ Rest = {}
    <3>1. ~Converting
      BY DEF Converting, Publishing, ConvertPcs, CaptionPcs, MovePcs
    <3>2. QED
      BY <1>2, <3>1 DEF Reported, Rest
  <2>2. QED
    BY <2>1 DEF HandInv, Publishing, CaptionPcs, MovePcs
<1>13. ResultInv
  BY DEF ResultInv
<1>14. OutputInv
  <2>1. \A m \in Media : at[Output(m)] = Nowhere
    BY <1>1, FilesAre
  <2>2. ~Converting /\ ~Publishing
    BY DEF Converting, Publishing, ConvertPcs, CaptionPcs, MovePcs
  <2>3. QED
    BY <2>1, <2>2 DEF OutputInv
<1>15. YtdlpInv
  <2>1. \A f \in Files : at[f].dir = "nowhere"
    BY <1>1, InIs
  <2>2. QED
    BY <1>1, <2>1, FilesAre DEF YtdlpInv, InFolder
<1>16. AnswerInv
  BY DEF AnswerInv, WorkerPcs, ConvertPcs, CaptionPcs, MovePcs
<1>17. OwnedInv
  BY DEF OwnedInv
<1>18. SweepInv
  BY DEF SweepInv
<1>19. QED
  BY <1>3, <1>4, <1>5, <1>6, <1>7, <1>8, <1>9, <1>11, <1>12, <1>13, <1>14, <1>15, <1>16, <1>17, <1>18
  DEF Base

\* ... and every step keeps it.
LEMMA BaseStep == Base /\ [Next]_vars => Base'
<1> SUFFICES ASSUME Base, [Next]_vars PROVE Base'
  OBVIOUS
<1>1. DataInv' /\ RootInv' /\ TodoInv' /\ TaskInv' /\ MoveInv'
  BY DataStep, RootStep, TodoStep, TaskStep, MoveStep
<1>2. OneEach' /\ PlaceInv'
  BY AtStep DEF AtInv
<1>3. HeldInv' /\ HandInv' /\ ResultInv' /\ OutputInv' /\ YtdlpInv'
  BY HeldStep, HandStep, ResultStep, OutputStep, YtdlpInvStep
<1>4. AnswerInv' /\ OwnedInv' /\ SweepInv'
  BY AnswerStep, OwnedStep, SweepStep
<1>5. QED
  BY <1>1, <1>2, <1>3, <1>4 DEF Base

\* Base holds always: of the files, the lists, the worker and the snapshot of
\* downloader.rs and staging.rs, for any number of entries, strangers and faults.
THEOREM Invariant == Spec => []Base
BY InitBase, BaseStep, PTL DEF Spec

-----------------------------------------------------------------------------
(* What becomes of a finished file                                         *)

\* A finished file leaves the place where it is for the download folder, because
\* another program replaced it, or as the original that is given up.
LEMMA WholeLeaves ==
  ASSUME Base, [Next]_vars, NEW m \in Media, NEW f, f = Whole(m), at[f] # Nowhere, at'[f] # at[f]
  PROVE  \/ InFolder(f)' \/ f \in excused' \/ Verify
         \/ (Retire \/ CheckRetired) /\ m = Head(todo)
<1>0. at' # at /\ f \in Files /\ PlaceInv /\ FolderKept /\ excused \subseteq excused'
  BY BaseHas, FilesAre, AtStep DEF AtInv
<1>a0. f[1] = "media" /\ f \notin Foreign /\ f # Placeholder
  BY Kinds DEF Foreign
<1>a1. at[f] \in {Staged(m), Held(m)}
  BY <1>0, <1>a0 DEF PlaceInv, WholeAt, FolderKept
<1>a2. at[f].dir \in {"stage", "held"} /\ at[f].name = f
  BY <1>a1, InIs DEF Staged, Held
<1>1. ASSUME NEW g \in Files, NEW p, NEW R, Moves(g, p, R), f \notin R PROVE f = g /\ at'[f] = p
  BY <1>0, <1>1 DEF Moves
<1>2. ASSUME NEW R, at' = Remove(R) PROVE f \in R
  BY <1>0, <1>2 DEF Remove
<1>3. ASSUME NEW k \in Media, Fetch(k) \/ FinishStreams(k) \/ Merge(k) \/ Tidy(k) PROVE FALSE
  <2>1. /\ Stream(k) \in Files /\ Whole(k) \in Files /\ f # Stream(k) /\ f # Thumb(k)
        /\ f # Caption(k)
    BY <1>a0, FilesAre, Kinds
  <2>2. ~Tidy(k)
    BY <1>2, <2>1, TidyAt
  <2>3. ~FinishStreams(k)
    BY <1>1, <2>1, FinishAt
  <2>4. ~Merge(k)
    <3>1. SUFFICES ASSUME Merge(k) PROVE FALSE
      OBVIOUS
    <3>2. f = Whole(k)
      BY <1>1, <2>1, <3>1, MergeAt
    <3>3. QED
      BY <3>1, <3>2 DEF Merge
  <2>5. ~Fetch(k)
    <3>1. ASSUME NEW moved, YtdlpStep(moved), f \notin DOMAIN moved PROVE FALSE
      BY <1>0, <3>1, YtdlpMoves
    <3>2. QED
      BY <2>1, <3>1 DEF Fetch
  <2>6. QED
    BY <1>3, <2>2, <2>3, <2>4, <2>5
<1>4. ASSUME NEW x \in Foreign, Replace(x) \/ Deposit(x) \/ Squat(x)
      PROVE  f \in excused'
  <2>1. PICK p, v : Interfere(x, p, v)
    BY <1>4 DEF Replace, Deposit, Squat
  <2>2. Moves(x, p, {v}) /\ (v # x => excused' = excused \cup {v}) /\ x \in Files /\ x # f
    BY <1>a0, <2>1, InterfereMoves, FilesAre
  <2>3. f = v
    BY <1>1, <2>2
  <2>4. QED
    BY <2>2, <2>3
<1>5. CASE MoveFile
  <2>1. ~Failing
    BY <1>0, <1>a0, <1>2 DEF Failing
  <2>2. \A to \in Places : ~Reserving(to)
    BY <1>a0, <1>1, FilesAre DEF Reserving
  <2>3. PICK to \in Places, R \in SUBSET {Placeholder} : Renaming(to, R)
    BY <1>5, <2>1, <2>2, MoveFileIs
  <2>4. FileAt(move.from) \in Files /\ Moves(FileAt(move.from), to, R) /\ to.dir = "download"
    BY <2>3, FileAtIs DEF Renaming
  <2>5. at'[f] = to
    BY <1>a0, <1>1, <2>4
  <2>6. QED
    BY <2>4, <2>5 DEF InFolder
<1>6. ~QuarantineCaption
  <2>1. SUFFICES ASSUME QuarantineCaption PROVE FALSE
    OBVIOUS
  <2>2. /\ Moves(FileAt(CaptionPlace), HeldCaption, {}) /\ FileAt(CaptionPlace) \in Files
        /\ at[FileAt(CaptionPlace)] = CaptionPlace
    BY <2>1, QuarantineAt, FileAtIs DEF QuarantineCaption
  <2>3. CaptionPlace.name[1] = "caption"
    BY InIs, Kinds DEF CaptionPlace
  <2>4. QED
    BY <1>a0, <1>a2, <1>1, <2>2, <2>3
<1>7. ~CheckCaption /\ ~CaptionPublished
  <2>1. SUFFICES ASSUME CheckCaption \/ CaptionPublished PROVE FALSE
    OBVIOUS
  <2>2. at' = Restored /\ excused' = excused
    BY <1>0, <2>1 DEF CheckCaption, CaptionPublished
  <2>3. /\ Moves(FileAt(HeldCaption), CaptionPlace, {})
        /\ at[FileAt(HeldCaption)] = HeldCaption /\ FileAt(HeldCaption) \in Files
    BY <1>0, <2>2, RestoredAt, FileAtIs
  <2>4. HeldCaption.name[1] = "caption"
    BY InIs, Kinds DEF HeldCaption
  <2>5. QED
    BY <1>a0, <1>a2, <1>1, <2>3, <2>4
<1>8. ~ConvertNext
  <2>1. SUFFICES ASSUME ConvertNext PROVE FALSE
    OBVIOUS
  <2>2. PICK k : /\ k = Head(todo) /\ pc = "convert" /\ todo # <<>> /\ excused' = excused
                 /\ at' = [at EXCEPT ![Output(k)] = In("convert", Output(k))]
    BY <1>0, <2>1 DEF ConvertNext
  <2>3. Moves(Output(k), In("convert", Output(k)), {}) /\ Output(k) \in Files /\ Output(k) # f
    BY <1>a0, <2>2, ConvertAt, FilesAre, Kinds
  <2>4. QED
    BY <1>1, <2>3
<1>9. ASSUME NEW k, at' = RemoveTemp(k), excused' = excused PROVE FALSE
  <2>1. at' = Remove({Output(k)}) /\ Output(k) # f
    BY <1>0, <1>a0, <1>9, RemoveTempAt, Kinds
  <2>2. QED
    BY <1>2, <2>1
<1>10. ~FfmpegEnds /\ ~OutputInstalled
  BY <1>0, <1>9 DEF FfmpegEnds, OutputInstalled
<1>11. CASE Retire
  <2>1. PICK k : /\ k = Head(todo) /\ excused' = excused /\ Taken(Staged(k))
                 /\ at' = [at EXCEPT ![FileAt(Staged(k))] = Held(k)]
    BY <1>0, <1>11 DEF Retire
  <2>2. /\ Moves(FileAt(Staged(k)), Held(k), {}) /\ FileAt(Staged(k)) \in Files
        /\ at[FileAt(Staged(k))] = Staged(k)
    BY <2>1, RetireAt
  <2>3. at[f] = Staged(k)
    BY <1>1, <2>2
  <2>4. at[f].name = Whole(k) /\ Whole(k)[2] = k /\ Whole(m)[2] = m
    BY <2>3, InIs, Kinds DEF Staged
  <2>5. QED
    BY <1>a2, <1>11, <2>1, <2>4
<1>12. CASE CheckRetired
  <2>1. PICK k : k = Head(todo)
    OBVIOUS
  <2>2. Taken(Held(k)) /\ excused' = excused
    BY <1>12, <2>1, BaseHas DEF CheckRetired, HandInv
  <2>3. at' = [at EXCEPT ![FileAt(Held(k))] = Nowhere]
    BY <1>0, <1>12, <2>1 DEF CheckRetired
  <2>4. at[FileAt(Held(k))] = Held(k) /\ at' = Remove({FileAt(Held(k))})
    BY <2>2, <2>3, RetiredAt
  <2>5. at[f] = Held(k)
    BY <1>2, <2>4
  <2>6. at[f].name = Whole(k) /\ Whole(k)[2] = k /\ Whole(m)[2] = m
    BY <2>5, InIs, Kinds DEF Held
  <2>7. QED
    BY <1>a2, <1>12, <2>1, <2>6
<1>13. ASSUME NEW q \in Places, SweepOne(q) PROVE InFolder(f)'
  <2>1. /\ FileAt(q) \in Files /\ at[FileAt(q)] = q
        /\ \/ Unwanted(q) /\ at' = Remove({FileAt(q)})
           \/ \E p \in Places : p.dir = "download" /\ Moves(FileAt(q), p, {})
    BY <1>0, <1>13, SweepOneAt
  <2>2. at[f] = q
    BY <1>1, <1>2, <2>1
  <2>3. ~Unwanted(q)
    BY <1>a0, <1>a2, <2>2 DEF Unwanted, IsIntermediate, IsStream
  <2>4. PICK p \in Places : p.dir = "download" /\ Moves(FileAt(q), p, {})
    BY <2>1, <2>3
  <2>5. at'[f] = p
    BY <1>1, <2>1, <2>4
  <2>6. QED
    BY <2>4, <2>5 DEF InFolder
<1>14. QED
  BY <1>0, <1>3, <1>4, <1>5, <1>6, <1>7, <1>8, <1>10, <1>11, <1>12, <1>13
     DEF Next, vars, Ytdlp, ReportFinished, YtdlpExits, Stranger, CancelSession, Worker, HandOff,
         Publishes, Published, TakeCaption, InstallNext, PublishPending, CaptionFallback, Converted,
         Decide, ReplacementInstalled, Drop, Stops, Sweep, SweepBegins, SweepEnds, SweepDies

\* An entry whose file is in the folder, or was replaced, stays so.
LEMMA SafeStays ==
  ASSUME Base, [Next]_vars, NEW m \in Media, Safe(m)
  PROVE  Safe(m)'
<1>1. FolderKept /\ excused \subseteq excused' /\ Output(m) \in Files /\ Whole(m) \in Files
  BY AtStep, FilesAre
<1>2. Output(m) # Placeholder /\ Whole(m) # Placeholder
  BY Kinds
<1>3. QED
  BY <1>1, <1>2 DEF Safe, FolderKept, InFolder

\* As long as the files of the staging directory are not removed together.
LEMMA WholeStays ==
  ASSUME Base, [Next]_vars, NEW m \in Media, at[Whole(m)] # Nowhere, ~Verify
  PROVE  at'[Whole(m)] = at[Whole(m)] \/ Safe(m)'
<1>1. CASE InFolder(Whole(m))' \/ Whole(m) \in excused'
  BY <1>1 DEF Safe
<1>2. CASE (Retire \/ CheckRetired) /\ m = Head(todo)
  <2>1. pc \in {"retire", "check retired"}
    BY <1>2 DEF Retire, CheckRetired
  <2>2. InFolder(Output(m))
    BY <1>2, <2>1, BaseHas DEF OutputInv
  <2>3. QED
    BY <2>2, SafeStays DEF Safe
<1>3. QED
  BY <1>1, <1>2, WholeLeaves

-----------------------------------------------------------------------------
(* What survives one fault                                                 *)


\* The staging directory stays preserved, but for a fault.
LEMMA PreserveStep ==
  ASSUME Base, [Next]_vars
  PROVE  (known' = known /\ (preserve => preserve')) \/ Fault \/ pc = "ytdlp" \/ pc' = "down"
         \/ (pc = "replacement" /\ move.result # "ok")
<1>1. ASSUME NEW m \in Media, Fetch(m) \/ FinishStreams(m) \/ Merge(m) \/ Tidy(m) \/ ReportFinished(m)
     PROVE  (known' = known /\ (preserve => preserve')) \/ Fault \/ pc = "ytdlp" \/ pc' = "down"
            \/ (pc = "replacement" /\ move.result # "ok")
  BY <1>1 DEF Fetch, FinishStreams, Merge, Tidy, ReportFinished, YtdlpStep, stage
<1>2. ASSUME NEW x \in Foreign, Replace(x) \/ Deposit(x) \/ Squat(x)
     PROVE  (known' = known /\ (preserve => preserve')) \/ Fault \/ pc = "ytdlp" \/ pc' = "down"
            \/ (pc = "replacement" /\ move.result # "ok")
  BY <1>2 DEF Replace, Deposit, Squat, Interfere, stage
<1>3. CASE \/ HandOff \/ Drop \/ Verify \/ Stops
  BY <1>3 DEF HandOff, Drop, Verify, Stops
<1>4. CASE \/ SweepBegins \/ SweepEnds \/ SweepDies
  BY <1>4 DEF SweepBegins, SweepEnds, SweepDies, SweepOne, SweepKeeps
<1>5. ASSUME NEW q \in Places, SweepOne(q)
     PROVE  (known' = known /\ (preserve => preserve')) \/ Fault \/ pc = "ytdlp" \/ pc' = "down"
            \/ (pc = "replacement" /\ move.result # "ok")
  BY <1>5 DEF SweepBegins, SweepEnds, SweepDies, SweepOne, SweepKeeps
<1>6. ASSUME NEW u \in BOOLEAN, NEW d \in BOOLEAN, YtdlpExits(u, d)
      PROVE  (known' = known /\ (preserve => preserve')) \/ Fault \/ pc = "ytdlp"
             \/ pc' = "down" \/ (pc = "replacement" /\ move.result # "ok")
  BY <1>6 DEF YtdlpExits
<1>7. CASE CancelSession
  BY <1>7 DEF CancelSession, stage
<1>8. CASE MoveFails /\ MoveKeeps
  BY <1>8 DEF MoveKeeps
<1>9. CASE MoveFlagged /\ MoveKeeps
  BY <1>9 DEF MoveKeeps
<1>10. CASE Reserve /\ MoveKeeps
  BY <1>10 DEF MoveKeeps
<1>11. CASE RenameReserved /\ MoveKeeps
  BY <1>11 DEF MoveKeeps
<1>12. CASE Published
  BY <1>12 DEF Published, CaptionFails
<1>13. CASE TakeCaption
  BY <1>13 DEF TakeCaption, CaptionFails
<1>14. CASE QuarantineCaption
  BY <1>14 DEF QuarantineCaption, stage
<1>15. CASE CheckCaption
  BY <1>15 DEF CheckCaption, CaptionFails
<1>16. CASE CaptionPublished
  BY <1>16 DEF CaptionPublished, CaptionFails
<1>17. CASE InstallNext
  BY <1>17 DEF InstallNext, stage
<1>18. CASE PublishPending
  BY <1>18 DEF PublishPending, stage
<1>19. CASE ConvertNext
  BY <1>19 DEF ConvertNext, stage
<1>20. CASE FfmpegEnds
  BY <1>20 DEF FfmpegEnds, stage
<1>21. CASE OutputInstalled
  BY <1>21 DEF OutputInstalled, stage
<1>22. CASE CaptionFallback
  BY <1>22 DEF CaptionFallback, stage
<1>23. CASE Converted
  BY <1>23 DEF Converted, stage
<1>24. CASE Decide
  BY <1>24 DEF Decide, stage
<1>25. CASE Retire
  <2>1. pc = "retire" /\ Here(Head(todo))
    BY <1>25, BaseHas DEF Retire, HandInv
  <2>2. QED
    BY <1>25, <2>1 DEF Retire, Here
<1>26. CASE CheckRetired
  BY <1>26 DEF CheckRetired, stage
<1>27. CASE ReplacementInstalled
  BY <1>27 DEF ReplacementInstalled, stage
<1>28. CASE UNCHANGED vars
  BY <1>28 DEF vars, stage
<1>29. QED
  BY <1>1, <1>2, <1>3, <1>4, <1>5, <1>6, <1>7, <1>8, <1>9, <1>10, <1>11, <1>12, <1>13,
     <1>14, <1>15, <1>16, <1>17, <1>18, <1>19, <1>20, <1>21, <1>22, <1>23, <1>24, <1>25,
     <1>26, <1>27, <1>28 DEF Next, Ytdlp, Stranger, Worker, MoveFile, Publishes, Sweep

\* A step has one fault or none.
LEMMA FaultStep ==
  ASSUME [Next]_vars
  PROVE  Fault \/ NoFault
<1>1. ASSUME NEW m \in Media, Fetch(m) \/ FinishStreams(m) \/ Merge(m) \/ Tidy(m) \/ ReportFinished(m)
     PROVE  Fault \/ NoFault
  BY <1>1 DEF Fetch, FinishStreams, Merge, Tidy, ReportFinished, YtdlpStep, NoFault
<1>2. ASSUME NEW x \in Foreign, Replace(x) \/ Deposit(x) \/ Squat(x)
     PROVE  Fault \/ NoFault
  BY <1>2 DEF Replace, Deposit, Squat, Interfere, NoFault
<1>3. CASE \/ (MoveFails /\ MoveKeeps) \/ (MoveFlagged /\ MoveKeeps)
           \/ (Reserve /\ MoveKeeps) \/ (RenameReserved /\ MoveKeeps) \/ TakeCaption
           \/ ConvertNext \/ Retire \/ CheckRetired \/ Drop \/ Verify
  BY <1>3 DEF Verify, Drop, TakeCaption, MoveFails, MoveFlagged, Reserve,
     RenameReserved, Rename, ConvertNext, Retire, CheckRetired
<1>4. CASE \/ SweepBegins \/ SweepEnds \/ SweepDies
  BY <1>4 DEF SweepBegins, SweepEnds, SweepDies, SweepKeeps, NoFault
<1>5. ASSUME NEW q \in Places, SweepOne(q)
     PROVE  Fault \/ NoFault
  BY <1>5 DEF SweepOne
<1>6. ASSUME NEW u \in BOOLEAN, NEW d \in BOOLEAN, YtdlpExits(u, d)
     PROVE  Fault \/ NoFault
  BY <1>6 DEF YtdlpExits
<1>7. CASE CancelSession
  BY <1>7 DEF CancelSession, NoFault
<1>8. CASE HandOff
  BY <1>8 DEF HandOff, NoFault
<1>9. CASE Published
  BY <1>9 DEF Published, NoFault
<1>10. CASE QuarantineCaption
  BY <1>10 DEF QuarantineCaption, NoFault
<1>11. CASE CheckCaption
  BY <1>11 DEF CheckCaption, NoFault
<1>12. CASE CaptionPublished
  BY <1>12 DEF CaptionPublished, NoFault
<1>13. CASE InstallNext
  BY <1>13 DEF InstallNext, NoFault
<1>14. CASE PublishPending
  BY <1>14 DEF PublishPending, NoFault
<1>15. CASE FfmpegEnds
  BY <1>15 DEF FfmpegEnds, NoFault
<1>16. CASE OutputInstalled
  BY <1>16 DEF OutputInstalled, NoFault
<1>17. CASE CaptionFallback
  BY <1>17 DEF CaptionFallback, NoFault
<1>18. CASE Converted
  BY <1>18 DEF Converted, NoFault
<1>19. CASE Decide
  BY <1>19 DEF Decide, NoFault
<1>20. CASE ReplacementInstalled
  BY <1>20 DEF ReplacementInstalled, NoFault
<1>21. CASE Stops
  BY <1>21 DEF Stops, NoFault
<1>22. CASE UNCHANGED vars
  BY <1>22 DEF vars, NoFault
<1>23. QED
  BY <1>1, <1>2, <1>3, <1>4, <1>5, <1>6, <1>7, <1>8, <1>9, <1>10, <1>11, <1>12, <1>13,
     <1>14, <1>15, <1>16, <1>17, <1>18, <1>19, <1>20, <1>21, <1>22 DEF Next, Ytdlp,
     Stranger, Worker, MoveFile, Publishes, Sweep

\* With a fault behind, a further one is out of the question here.
LEMMA FaultsStep ==
  ASSUME Base, [Next]_vars
  PROVE  faults \in Nat /\ faults' \in Nat /\ faults <= faults' /\ (Fault => faults' = faults + 1)
BY FaultStep, FaultIs, BaseHas

\* An install without effect has had a fault, as its file was there.
LEMMA ReplacementStep ==
  ASSUME Base, [Next]_vars, pc' = "replacement", move'.result # "ok"
  PROVE  Fault \/ (pc = "replacement" /\ move' = move)
<1>1. MoveFile \/ UNCHANGED <<pc, todo, task, move, faults>>
  BY InstalledStep DEF Installed
<1>2. CASE MoveFile
  <2>1. /\ pc \in MovePcs /\ move.next \in {"published", "caption published", "output", "replacement"}
        /\ \/ Failing
           \/ \E to \in Places : Reserving(to)
           \/ \E to \in Places, R \in SUBSET {Placeholder} : Renaming(to, R)
    BY <1>2, MoveFileIs
  <2>2. CASE Failing
    <3>1. move.next = "replacement"
      BY <2>2 DEF Failing
    <3>2. Taken(move.from)
      BY <2>1, <3>1, BaseHas DEF HandInv, MoveInv
    <3>3. QED
      BY <2>2, <3>2 DEF Failing
  <2>3. \A to \in Places : ~Reserving(to)
    BY DEF Reserving
  <2>4. ASSUME NEW to \in Places, NEW R \in SUBSET {Placeholder}, Renaming(to, R) PROVE Fault
    BY <2>4 DEF Renaming
  <2>5. QED
    BY <2>1, <2>2, <2>3, <2>4
<1>3. QED
  BY <1>1, <1>2

\* An entry left behind in a directory that is kept becomes safe or stays so,
\* unless there is a second fault.
LEMMA RetainedStays ==
  ASSUME Base, [Next]_vars, pc \in WorkerPcs \cup {"drop"}, pc' # "down", faults' <= 1,
         NEW m \in Media, Retained(m)
  PROVE  Safe(m)' \/ Retained(m)'
<1>0. pc # "ytdlp" /\ ~Verify
  BY DEF WorkerPcs, ConvertPcs, CaptionPcs, MovePcs, Verify
<1>1. at[Whole(m)] = Staged(m) /\ Staged(m) # Nowhere
  <2>1. Staged(m).dir = "stage"
    BY InIs DEF Staged
  <2>2. QED
    BY <2>1, InIs DEF Retained
<1>2. at'[Whole(m)] = Staged(m) \/ Safe(m)'
  BY <1>0, <1>1, WholeStays
<1>3. CASE ~known
  <2>1. known' = known
    BY <1>0, KnownStep DEF YtdlpExits
  <2>2. QED
    BY <1>2, <1>3, <2>1 DEF Retained
<1>4. CASE preserve /\ faults > 0 /\ ~(pc = "replacement" /\ move.result # "ok")
  <2>1. ~Fault /\ faults' > 0
    BY <1>4, FaultsStep
  <2>2. preserve'
    BY <1>0, <1>4, <2>1, PreserveStep
  <2>3. ~(pc' = "replacement" /\ move'.result # "ok")
    BY <1>4, <2>1, ReplacementStep
  <2>4. QED
    BY <1>2, <2>1, <2>2, <2>3 DEF Retained
<1>5. QED
  BY <1>3, <1>4 DEF Retained

\* The staging directory is verified when it is dropped.
LEMMA VerifyOnly ==
  ASSUME Base, [Next]_vars
  PROVE  pc' = "verify" => Drop \/ pc = "verify"
<1>a0. /\ pc \in MovePcs => move.next \in {"published", "caption published", "output", "replacement"}
       /\ Publishing => task.next \in {"install", "pending", "converted", "caption fallback"}
  BY BaseHas DEF MoveInv, TaskInv
<1>a1. ASSUME MoveFile
       PROVE  /\ pc \in MovePcs /\ todo' = todo /\ task' = task /\ move'.next = move.next
              /\ pc' = move.next \/ pc' = "rename"
  <2>1. \/ Failing \/ (\E to \in Places : Reserving(to))
        \/ \E to \in Places, R \in SUBSET {Placeholder} : Renaming(to, R)
    BY <1>a1, MoveFileIs
  <2>2. QED
    BY <1>a1, <2>1, MoveFileIs DEF Failing, Reserving, Renaming
<1>a2. ASSUME NEW m, NEW c, NEW i, NEW f, NEW next, Publish(m, c, i, f, next)
       PROVE  pc' = "move" /\ move'.next = "published" /\ task'.media = m /\ task'.next = next
  BY <1>a2, PublishIs
<1> USE <1>a0 DEF Publishing, CaptionPcs
<1>1. ASSUME NEW m \in Media, Fetch(m) \/ FinishStreams(m) \/ Merge(m) \/ Tidy(m) \/ ReportFinished(m)
     PROVE  pc' = "verify" => Drop \/ pc = "verify"
  BY <1>1 DEF Fetch, FinishStreams, Merge, Tidy, ReportFinished, YtdlpStep
<1>2. ASSUME NEW x \in Foreign, Replace(x) \/ Deposit(x) \/ Squat(x)
     PROVE  pc' = "verify" => Drop \/ pc = "verify"
  BY <1>2 DEF Replace, Deposit, Squat, Interfere
<1>3. CASE \/ SweepBegins \/ SweepEnds \/ SweepDies
  BY <1>3 DEF SweepBegins, SweepEnds, SweepDies, SweepOne, SweepKeeps
<1>4. ASSUME NEW q \in Places, SweepOne(q)
     PROVE  pc' = "verify" => Drop \/ pc = "verify"
  BY <1>4 DEF SweepBegins, SweepEnds, SweepDies, SweepOne, SweepKeeps
<1>5. CASE \/ HandOff \/ Drop \/ Verify \/ Stops
  BY <1>5 DEF Verify, Stops, HandOff, Goto, MovePcs
<1>6. ASSUME NEW u \in BOOLEAN, NEW d \in BOOLEAN, YtdlpExits(u, d)
      PROVE  pc' = "verify" => Drop \/ pc = "verify"
  BY <1>6 DEF YtdlpExits, Goto
<1>7. CASE CancelSession
  BY <1>7 DEF CancelSession, stage
<1>8. CASE MoveFails /\ MoveKeeps
  BY <1>8, <1>a1 DEF MoveFile
<1>9. CASE MoveFlagged /\ MoveKeeps
  BY <1>9, <1>a1 DEF MoveFile
<1>10. CASE Reserve /\ MoveKeeps
  BY <1>10, <1>a1 DEF MoveFile
<1>11. CASE RenameReserved /\ MoveKeeps
  BY <1>11, <1>a1 DEF MoveFile
<1>12. CASE Published
  BY <1>12 DEF Published, Ends, Goto
<1>13. CASE TakeCaption
  BY <1>13 DEF TakeCaption, CaptionFails, Goto
<1>14. CASE QuarantineCaption
  BY <1>14 DEF QuarantineCaption, Goto
<1>15. CASE CheckCaption
  BY <1>15, InstallIs DEF CheckCaption, CaptionFails, Goto
<1>16. CASE CaptionPublished
  BY <1>16 DEF CaptionPublished, CaptionFails, Goto
<1>17. CASE InstallNext
  BY <1>17, <1>a2 DEF InstallNext, Goto
<1>18. CASE PublishPending
  BY <1>18, <1>a2 DEF PublishPending, Goto
<1>19. CASE ConvertNext
  BY <1>19, <1>a2 DEF ConvertNext, Goto
<1>20. CASE FfmpegEnds
  BY <1>20, <1>a2, InstallIs DEF FfmpegEnds, Goto
<1>21. CASE OutputInstalled
  BY <1>21, <1>a2 DEF OutputInstalled, NoTask, Goto
<1>22. CASE CaptionFallback
  BY <1>22, <1>a2 DEF CaptionFallback
<1>23. CASE Converted
  BY <1>23 DEF Converted, Goto
<1>24. CASE Decide
  BY <1>24, <1>a2 DEF Decide, Goto
<1>25. CASE Retire
  BY <1>25 DEF Retire, Goto
<1>26. CASE CheckRetired
  BY <1>26, InstallIs DEF CheckRetired, Goto
<1>27. CASE ReplacementInstalled
  BY <1>27 DEF ReplacementInstalled, Goto
<1>28. CASE UNCHANGED vars
  BY <1>28 DEF vars, session, stage
<1>29. QED
  BY <1>1, <1>2, <1>3, <1>4, <1>5, <1>6, <1>7, <1>8, <1>9, <1>10, <1>11, <1>12, <1>13,
     <1>14, <1>15, <1>16, <1>17, <1>18, <1>19, <1>20, <1>21, <1>22, <1>23, <1>24, <1>25,
     <1>26, <1>27, <1>28 DEF Next, Ytdlp, Stranger, Worker, MoveFile, Publishes, Sweep

\* Only ReportFinished reports an entry.
LEMMA NewlyReported ==
  ASSUME Base, [Next]_vars, NEW m \in Reported', m \notin Reported
  PROVE  ReportFinished(m)
<1>1. recorded' # recorded
  BY DEF Reported
<1>2. PICK k \in Media : ReportFinished(k)
  BY <1>1, RecordedStep
<1>3. k \in Media /\ k \notin Reported /\ recorded' = Append(recorded, k)
  BY <1>2 DEF ReportFinished
<1>4. Entries(recorded') = Reported \cup {k}
  BY <1>3, AppendIs, BaseHas DEF TodoInv, Reported
<1>5. m = k
  BY <1>4 DEF Reported
<1>6. QED
  BY <1>2, <1>5

\* The publication in progress ends with the entry safe, or kept with the directory.
LEMMA OpenEnds ==
  ASSUME Base, [Next]_vars, pc' # "down", faults' <= 1, NEW m \in Media, Open(m)
  PROVE  Open(m)' \/ m \in Rest' \/ Safe(m)' \/ Retained(m)'
<1>0. ResultInv /\ PlaceInv /\ TaskInv /\ FolderKept /\ excused \subseteq excused'
  BY BaseHas, AtStep
<1>1. CASE UNCHANGED <<pc, todo, task, move>>
  BY <1>1 DEF Open
<1>2. ASSUME NEW c, NEW i, NEW f, NEW next, Publish(m, c, i, f, next) PROVE Open(m)'
  <2>1. pc' = "move" /\ move'.next = "published" /\ task'.media = m
    BY <1>2, PublishIs
  <2>2. QED
    BY <2>1 DEF Open, MovePcs
<1>3. CASE pc = "ffmpeg" \/ pc \in MovePcs
  BY <1>1, <1>3, FfmpegEndsOnly, MoveFileOnly, OpenGoesOn
<1>4. CASE pc = "output"
  <2>1. OutputInstalled \/ UNCHANGED <<pc, todo, task, move>>
    BY <1>4, OutputInstalledOnly
  <2>2. m = Head(todo)
    BY <1>4 DEF Open, MovePcs
  <2>3. CASE OutputInstalled /\ move.result = "ok"
    <3>1. InFolder(Output(m))
      BY <1>0, <1>4, <2>2, <2>3 DEF ResultInv
    <3>2. QED
      BY <3>1, SafeStays DEF Safe
  <2>4. CASE OutputInstalled /\ move.result # "ok"
    BY <1>2, <2>2, <2>4 DEF OutputInstalled
  <2>5. QED
    BY <1>1, <2>1, <2>3, <2>4
<1>5. CASE pc = "published"
  <2>1. Published \/ UNCHANGED <<pc, todo, task, move>>
    BY <1>5, PublishedOnly
  <2>2. m = task.media
    BY <1>5 DEF Open, MovePcs
  <2>3. CASE Published /\ move.result \in {"ok", "unsynced"}
    <3>1. InFolder(Whole(m)) \/ Whole(m) \in excused
      BY <1>0, <1>5, <2>2, <2>3 DEF ResultInv
    <3>2. QED
      BY <3>1, SafeStays DEF Safe
  <2>4. CASE Published /\ move.result = "failed"
    <3>1. Here(m) /\ faults > 0
      BY <1>0, <1>5, <2>2, <2>4 DEF ResultInv
    <3>2. PICK f \in Files : at[f] = Staged(m)
      BY <3>1 DEF Here, Taken
    <3>3. f = Whole(m) \/ Whole(m) \in excused
      BY <1>0, <3>2, AtWhole
    <3>4. CASE Whole(m) \in excused
      BY <3>4, SafeStays DEF Safe
    <3>5. CASE f = Whole(m)
      <4>1. preserve' /\ at' = at /\ faults' = faults
        BY <2>2, <2>4, <3>1 DEF Published, Here
      <4>2. pc' # "replacement"
        BY <1>0, <1>5, <2>4 DEF Published, Ends, Goto, TaskInv, Publishing
      <4>3. QED
        BY <3>1, <3>2, <3>5, <4>1, <4>2 DEF Retained
    <3>6. QED
      BY <3>3, <3>4, <3>5
  <2>5. move.result \in {"ok", "unsynced", "failed"}
    BY <1>0, <1>5 DEF ResultInv
  <2>6. QED
    BY <1>1, <2>1, <2>3, <2>4, <2>5
<1>6. QED
  BY <1>3, <1>4, <1>5 DEF Open

\* Every step keeps SurviveInv while there was at most one fault.
LEMMA SurviveStep ==
  ASSUME Base, SurviveInv1, [Next]_vars
  PROVE  SurviveInv1'
<1> SUFFICES ASSUME faults' <= 1 PROVE SurviveInv'
  BY DEF SurviveInv1
<1>0. SurviveInv /\ RootInv /\ TodoInv /\ HandInv /\ Reported \subseteq Media
  <2>1. faults <= 1
    BY FaultsStep
  <2>2. QED
    BY <2>1, BaseHas, ReportedIn DEF SurviveInv1
<1>1. Reported' \subseteq Media /\ (pc # "ytdlp" => Reported' = Reported)
  <2>1. Base'
    BY BaseStep
  <2>2. TodoInv'
    BY <2>1 DEF Base
  <2>3. Reported' \subseteq Media
    BY <2>2, ReportedGrows DEF TodoInv, Reported, Entries
  <2>4. QED
    BY <2>3, ReportedGrows
<1>2. ASSUME pc' = "verify", NEW m \in Reported' PROVE Safe(m)'
  <2>1. Drop \/ pc = "verify"
    BY <1>2, VerifyOnly
  <2>2. pc # "ytdlp" /\ m \in Reported
    BY <1>1, <1>2, <2>1 DEF Drop
  <2>3. CASE pc = "verify"
    BY <1>0, <2>2, <2>3, SafeStays DEF SurviveInv
  <2>4. CASE Drop
    <3>1. pc = "drop" /\ ~preserve /\ known
      BY <1>2, <2>4 DEF Drop
    <3>2. ~Open(m) /\ ~Retained(m)
      BY <3>1 DEF Open, Retained, MovePcs
    <3>3. Rest = {}
      <4>1. ~Converting /\ todo = <<>>
        BY <1>0, <3>1 DEF Converting, Publishing, ConvertPcs, CaptionPcs, MovePcs, TodoInv
      <4>2. QED
        BY <4>1, NoEntries DEF Rest
    <3>4. QED
      BY <1>0, <2>2, <3>1, <3>2, <3>3, SafeStays DEF SurviveInv
  <2>5. QED
    BY <2>1, <2>3, <2>4
<1>3. ASSUME pc' \in WorkerPcs \cup {"drop"}, NEW m \in Reported'
      PROVE  m \in Rest' \/ Open(m)' \/ Safe(m)' \/ Retained(m)'
  <2>1. pc' # "down" /\ m \in Media
    BY <1>1, <1>3 DEF WorkerPcs, ConvertPcs, CaptionPcs, MovePcs
  <2>2. CASE pc = "ytdlp"
    <3>1. m \in Rest'
      BY <1>3, <2>2, ExitTakesAll DEF Busy
    <3>2. QED
      BY <3>1
  <2>3. CASE pc \in WorkerPcs \cup {"drop"} /\ pc # "ytdlp"
    <3>1. m \in Rest \/ Open(m) \/ Safe(m) \/ Retained(m)
      BY <1>0, <1>1, <1>3, <2>3 DEF SurviveInv
    <3>2. QED
      BY <2>1, <2>3, <3>1, TakesOne, OpenEnds, SafeStays, RetainedStays
  <2>4. QED
    BY <1>3, <2>2, <2>3, BusyStep DEF Busy
<1>4. FinishedSurvives'
  <2>1. SUFFICES ASSUME NEW m \in Reported'
                 PROVE  Safe(m)' \/ at'[Whole(m)] # Nowhere
    BY InIs DEF FinishedSurvives, Safe, InFolder, Kept
  <2>2. m \in Media
    BY <1>1
  <2>3. CASE m \notin Reported
    <3>1. ReportFinished(m)
      BY <2>3, NewlyReported
    <3>2. at'[Whole(m)] = Staged(m) /\ Staged(m).dir = "stage"
      BY <3>1, InIs DEF ReportFinished, Staged
    <3>3. QED
      BY <3>2, InIs
  <2>4. CASE m \in Reported /\ Verify
    <3>1. Safe(m)
      BY <1>0, <2>4 DEF SurviveInv, Verify
    <3>2. QED
      BY <2>2, <3>1, SafeStays
  <2>5. CASE m \in Reported /\ ~Verify
    <3>1. CASE at[Whole(m)] # Nowhere
      BY <2>2, <2>5, <3>1, WholeStays
    <3>2. CASE at[Whole(m)] = Nowhere
      <4>1. Safe(m)
        BY <1>0, <2>5, <3>2 DEF SurviveInv, FinishedSurvives, Kept, Safe, InFolder
      <4>2. QED
        BY <2>2, <4>1, SafeStays
    <3>3. QED
      BY <3>1, <3>2
  <2>6. QED
    BY <2>3, <2>4, <2>5
<1>5. QED
  BY <1>2, <1>3, <1>4 DEF SurviveInv

-----------------------------------------------------------------------------
(* The sweep                                                               *)

\* While yt-dlp runs, only it makes files of the session.
LEMMA YtdlpBirths ==
  ASSUME Base, [Next]_vars, pc = "ytdlp", NEW f \in Files \ Foreign, at[f] = Nowhere, at'[f] # Nowhere
  PROVE  \E k \in Media : Fetch(k) \/ FinishStreams(k) \/ Merge(k) \/ Tidy(k)
<1>1. at' # at
  OBVIOUS
<1>2. ASSUME NEW x \in Foreign, Replace(x) \/ Deposit(x) \/ Squat(x) PROVE FALSE
  <2>1. PICK p, v : Interfere(x, p, v)
    BY <1>2 DEF Replace, Deposit, Squat
  <2>2. QED
    BY <2>1 DEF Interfere
<1>3. (\E k \in Media : Fetch(k) \/ FinishStreams(k) \/ Merge(k) \/ Tidy(k)) \/ Stranger
  BY <1>1 DEF Next, vars, Ytdlp, ReportFinished, YtdlpExits, CancelSession, Worker,
     HandOff, MoveFile, MoveFails, MoveFlagged, Reserve, RenameReserved, Publishes,
     Published, TakeCaption, QuarantineCaption, CheckCaption, CaptionPublished,
     InstallNext, PublishPending, ConvertNext, FfmpegEnds, OutputInstalled,
     CaptionFallback, Converted, Decide, Retire, CheckRetired, ReplacementInstalled,
     Drop, Verify, Stops, Sweep, SweepBegins, SweepEnds, SweepDies, SweepOne
<1>4. QED
  BY <1>2, <1>3 DEF Stranger

\* No thumbnail comes into being where none are asked for.
LEMMA NoThumbStep ==
  ASSUME Base, [Next]_vars, Thumbnails = FALSE, NEW m \in Media, at[Thumb(m)] = Nowhere
  PROVE  at'[Thumb(m)] = Nowhere
<1> DEFINE f == Thumb(m)
<1>0. f \in Files /\ f[1] = "thumb" /\ f[2] = m /\ f \notin Foreign /\ f # Placeholder
  BY FilesAre, Kinds DEF Foreign
<1> HIDE DEF f
<1> SUFFICES ASSUME at[f] = Nowhere, at'[f] # Nowhere PROVE FALSE
  BY DEF f
<1>1. pc = "ytdlp" /\ ~ConvertNext
  <2>1. \A k : Output(k) # f
    BY <1>0, Kinds
  <2>2. ~ConvertNext
    BY <1>0, <2>1, Births DEF ConvertNext
  <2>3. QED
    BY <1>0, <2>1, <2>2, Births
<1>2. \E k \in Media : Fetch(k) \/ FinishStreams(k) \/ Merge(k) \/ Tidy(k)
  BY <1>0, <1>1, YtdlpBirths
<1>3. PICK k \in Media : Fetch(k) \/ FinishStreams(k) \/ Merge(k) \/ Tidy(k)
  BY <1>2
<1>4. Stream(k) # f /\ Whole(k) # f /\ Caption(k) # f
  BY <1>0, Kinds
<1>5. ASSUME NEW moved, YtdlpStep(moved), f \notin DOMAIN moved PROVE FALSE
  BY <1>0, <1>5, YtdlpMoves
<1>6. ~FinishStreams(k) /\ ~Merge(k)
  BY <1>4, <1>5 DEF FinishStreams, Merge
<1>7. ~Fetch(k)
  BY <1>4, <1>5 DEF Fetch
<1>8. ~Tidy(k)
  BY <1>0, TidyAt DEF Remove
<1>9. QED
  BY <1>3, <1>6, <1>7, <1>8

\* What has the stem of an entry, where there are no thumbnails, is its finished file.
LEMMA StemsAre ==
  ASSUME Base, \A k \in Media : at[Thumb(k)] = Nowhere,
         NEW m \in Media, <<"entry", m>> \in MergedStems
  PROVE  Kept(Whole(m)) \/ Whole(m) \in excused
<1>0. PlaceInv
  BY BaseHas
<1>1. PICK f \in Files : /\ at[f].dir = "stage" /\ StemOf(at[f].name) = <<"entry", m>>
                         /\ at[f].name[1] \notin {"part", "stream"}
  BY DEF MergedStems, FilesIn, IsIntermediate, IsStream
<1>2. at[f].name[1] # "caption" /\ at[f].name[1] # "stranger" /\ at[f].name[2] = m
  <2>1. PICK name : name = at[f].name
    OBVIOUS
  <2>2. CASE name[1] \in {"caption", "stranger"}
    <3>1. name = <<"entry", m>>
      BY <1>1, <2>1, <2>2 DEF StemOf
    <3>2. name[1] = "entry"
      BY <3>1
    <3>3. QED
      BY <2>2, <3>2
  <2>3. CASE name[1] \notin {"caption", "stranger"}
    <3>1. <<"entry", name[2]>> = <<"entry", m>>
      BY <1>1, <2>1, <2>3 DEF StemOf
    <3>2. name[2] = m
      BY <3>1
    <3>3. QED
      BY <2>1, <2>3, <3>2
  <2>4. QED
    BY <2>2, <2>3
<1>3. \A k : at[f] # Nowhere /\ ~InFolder(f) /\ at[f] # In("held", k) /\ at[f] # In("convert", k)
  BY <1>1, InIs DEF InFolder
<1>4. \A k : at[f] = In("stage", k) => k[1] \notin {"part", "stream", "caption", "stranger"} /\ k[2] = m
  BY <1>1, <1>2, InIs
<1>5. at[f] = Staged(m)
  <2>1. ASSUME NEW k \in Media, f = Whole(k) \/ f = Stream(k) \/ f = Thumb(k) \/ f = Output(k)
        PROVE  at[f] = Staged(m)
    <3>1. WholeAt(k) /\ StreamAt(k) /\ OutputAt(k) /\ at[Thumb(k)] = Nowhere
      BY <1>0 DEF PlaceInv
    <3>2. f # Thumb(k) /\ f # Output(k)
      BY <1>3, <3>1 DEF OutputAt
    <3>3. f # Stream(k)
      BY <1>3, <1>4, <3>1, Kinds DEF StreamAt
    <3>4. at[f] = Staged(k)
      BY <1>3, <2>1, <3>1, <3>2, <3>3 DEF WholeAt, Held
    <3>5. k = m
      BY <1>4, <3>4, Kinds DEF Staged
    <3>6. QED
      BY <3>4, <3>5
  <2>2. ASSUME NEW k \in Captioned, f = Caption(k) PROVE FALSE
    <3>1. CaptionAt(k)
      BY <1>0 DEF PlaceInv
    <3>2. QED
      BY <1>3, <1>4, <2>2, <3>1, Kinds DEF CaptionAt
  <2>3. ASSUME f \in Foreign PROVE at[f] = Staged(m)
    <3>1. StrangerAt(f)
      BY <1>0, <2>3 DEF PlaceInv
    <3>2. at[f] # In("stage", f)
      BY <1>4, <2>3, Kinds
    <3>3. \A k : at[f] # In("stage", Caption(k))
      BY <1>4, Kinds
    <3>4. PICK k \in Media : at[f] = Staged(k)
      BY <1>3, <3>1, <3>2, <3>3 DEF StrangerAt, Held
    <3>5. k = m
      BY <1>4, <3>4, Kinds DEF Staged
    <3>6. QED
      BY <3>4, <3>5
  <2>4. f # Placeholder
    BY <1>0, <1>3 DEF PlaceInv
  <2>5. QED
    BY <2>1, <2>2, <2>3, <2>4, KindOf
<1>6. f = Whole(m) \/ Whole(m) \in excused
  BY <1>0, <1>5, AtWhole
<1>7. QED
  BY <1>3, <1>6 DEF Kept

\* The sweep keeps the finished files.
LEMMA SweepKeepsWhole ==
  ASSUME Base, [Next]_vars, pc = "sweep", NEW m \in Media, Kept(Whole(m))
  PROVE  Kept(Whole(m))' \/ Whole(m) \in excused'
<1>1. ~Verify /\ ~Retire /\ ~CheckRetired
  BY DEF Verify, Retire, CheckRetired
<1>2. CASE at'[Whole(m)] = at[Whole(m)]
  BY <1>2 DEF Kept
<1>3. CASE at'[Whole(m)] # at[Whole(m)]
  <2>1. InFolder(Whole(m))' \/ Whole(m) \in excused'
    BY <1>1, <1>3, WholeLeaves DEF Kept
  <2>2. QED
    BY <2>1, InIs DEF InFolder, Kept
<1>4. QED
  BY <1>2, <1>3

\* Without thumbnails every step keeps StemInv.
LEMMA StemStep ==
  ASSUME Base, StemInv1, [Next]_vars
  PROVE  StemInv1'
<1> SUFFICES ASSUME Thumbnails = FALSE PROVE StemInv'
  BY DEF StemInv1
<1>0. StemInv
  BY DEF StemInv1
<1>1. \A m \in Media : at'[Thumb(m)] = Nowhere
  BY <1>0, NoThumbStep DEF StemInv
<1>2. ASSUME pc' = "sweep", NEW m \in Media, <<"entry", m>> \in sweep'.merged
      PROVE  Kept(Whole(m))' \/ Whole(m) \in excused'
  <2>1. CASE pc = "sweep"
    <3>1. sweep'.merged = sweep.merged
      BY <1>2, <2>1, SweepStep
    <3>2. Kept(Whole(m)) \/ Whole(m) \in excused
      BY <1>0, <1>2, <2>1, <3>1 DEF StemInv
    <3>3. QED
      BY <2>1, <3>2, SweepKeepsWhole, AtStep
  <2>2. CASE SweepBegins
    <3>1. sweep'.merged = MergedStems /\ at' = at /\ excused' = excused
      BY <2>2 DEF SweepBegins, SweepKeeps
    <3>2. Kept(Whole(m)) \/ Whole(m) \in excused
      BY <1>0, <1>2, <3>1, StemsAre DEF StemInv
    <3>3. QED
      BY <3>1, <3>2 DEF Kept
  <2>3. QED
    BY <1>2, <2>1, <2>2, Sweeping
<1>3. QED
  BY <1>1, <1>2 DEF StemInv

-----------------------------------------------------------------------------
(* The theorems                                                            *)

\* What Base says of the property of the runs.
LEMMA BaseGives == Base => PublicationInv
<1> SUFFICES ASSUME Base PROVE PublicationInv
  OBVIOUS
<1>0. DataInv /\ OneEach /\ RootInv /\ TodoInv /\ AnswerInv /\ OwnedInv
  BY BaseHas
<1>1. TypeOK
  <2>1. Reported \subseteq Media /\ Entries(todo) \subseteq Media
    BY <1>0, ReportedIn
  <2>2. QED
    BY <1>0, <2>1 DEF TypeOK, DataInv, Flags, OneEach, RootInv, OwnedInv
<1>2. EveryEntryAnswered
  <2>1. SUFFICES ASSUME pc = "drop"
                 PROVE  /\ \A f \in completed : at[f].dir = "download" \/ f \in excused
                        /\ \A m \in Reported : \/ m \in failed
                                               \/ Whole(m) \in completed \cup excused
                                               \/ Output(m) \in completed
    BY DEF EveryEntryAnswered
  <2>2. Rest = {} /\ \A m : ~Open(m)
    <3>1. ~Converting /\ todo = <<>>
      BY <1>0, <2>1 DEF Converting, Publishing, ConvertPcs, CaptionPcs, MovePcs, TodoInv
    <3>2. QED
      BY <2>1, <3>1, NoEntries DEF Rest, Open, MovePcs
  <2>3. QED
    BY <1>0, <2>1, <2>2 DEF AnswerInv, Answered, InFolder
<1>3. QED
  BY <1>1, <1>2 DEF PublicationInv

\* The types of every variable and EveryEntryAnswered: when the session drops its staging
\* directory it has answered for every entry yt-dlp reported (on_ytdlp_exit,
\* install_downloaded_file_paths and run_conversion), a file it calls completed is in the
\* folder and one it neither completed nor failed was not there when yt-dlp ended.
THEOREM PublicationHolds == Spec => []PublicationInv
BY Invariant, BaseGives, PTL

\* No entry is reported initially.
LEMMA InitSurvive == Init => SurviveInv1
<1> SUFFICES ASSUME Init PROVE SurviveInv
  BY DEF SurviveInv1
<1>1. pc = "ytdlp" /\ Reported = {}
  BY NoEntries DEF Init, Reported
<1>2. QED
  BY <1>1 DEF SurviveInv, FinishedSurvives, WorkerPcs, ConvertPcs, CaptionPcs, MovePcs

\* As long as at most one operation has failed, no finished file is lost: not by the
\* installs, the conversion, preserve_on_drop, DownloadStage::drop, the death of the program
\* at any step or the sweep of the next start.
THEOREM OneFaultSurvives == Spec => [](faults <= 1 => FinishedSurvives)
<1>1. Base /\ SurviveInv1 /\ [Next]_vars => SurviveInv1'
  BY SurviveStep
<1>2. SurviveInv1 => (faults <= 1 => FinishedSurvives)
  BY DEF SurviveInv1, SurviveInv
<1>3. QED
  BY <1>1, <1>2, Invariant, InitSurvive, PTL DEF Spec

\* Of the files of other programs only those go that count as the session's own.
LEMMA StrangerStays ==
  ASSUME Base, [Next]_vars, NEW f \in Foreign, at[f] # Nowhere, f \notin excused
  PROVE  at'[f] # Nowhere
<1> SUFFICES ASSUME at'[f] = Nowhere PROVE FALSE
  OBVIOUS
<1>0. at' # at /\ f \in Files /\ PlaceInv /\ OwnedInv /\ DataInv
  BY BaseHas, FilesAre
<1>a0. f[1] = "stranger" /\ f # Placeholder
       /\ \A k : f # Output(k) /\ f # Stream(k) /\ f # Thumb(k) /\ f # Caption(k) /\ f # Whole(k)
  BY Kinds
<1>1. ASSUME NEW g \in Files, NEW p, NEW R, Moves(g, p, R), f \notin R PROVE f = g /\ p = Nowhere
  BY <1>0, <1>1 DEF Moves
<1>2. ASSUME NEW R, at' = Remove(R) PROVE f \in R
  BY <1>0, <1>2 DEF Remove
<1>a2. \A p \in Places : p # Nowhere
  BY PlacesAre
<1>3. ASSUME NEW k \in Media, Fetch(k) \/ FinishStreams(k) \/ Merge(k) \/ Tidy(k) PROVE FALSE
  BY <1>0, <1>a0, <1>3, YtdlpTouches
<1>4. ASSUME NEW x \in Foreign, Replace(x) \/ Deposit(x) \/ Squat(x) PROVE FALSE
  <2>1. CASE Replace(x)
    <3>1. PICK v \in Files : Interfere(x, at[v], v) /\ v \notin Foreign /\ v # x
      BY <2>1, ReplaceIs
    <3>2. at'[f] = at[f] \/ f = x
      BY <1>0, <3>1 DEF Interfere
    <3>3. QED
      BY <3>1, <3>2 DEF Interfere
  <2>2. CASE Deposit(x) \/ Squat(x)
    <3>1. PICK p : Interfere(x, p, x)
      BY <2>2 DEF Deposit, Squat
    <3>2. at'[f] = at[f] \/ f = x
      BY <1>0, <3>1 DEF Interfere
    <3>3. at[x] = Nowhere
      BY <3>1 DEF Interfere
    <3>4. QED
      BY <3>2, <3>3
  <2>3. QED
    BY <1>4, <2>1, <2>2
<1>5. ~MoveFile
  <2>1. SUFFICES ASSUME MoveFile PROVE FALSE
    OBVIOUS
  <2>2. ~Failing
    BY <1>0, <1>a0, <1>2 DEF Failing
  <2>3. \A to \in Places : ~Reserving(to)
    BY <1>a0, <1>1, FilesAre DEF Reserving
  <2>4. PICK to \in Places, R \in SUBSET {Placeholder} : Renaming(to, R)
    BY <2>1, <2>2, <2>3, MoveFileIs
  <2>5. FileAt(move.from) \in Files /\ Moves(FileAt(move.from), to, R)
    BY <2>4, FileAtIs DEF Renaming
  <2>6. QED
    BY <1>a0, <1>a2, <1>1, <2>4, <2>5
<1>6. ~QuarantineCaption
  <2>1. SUFFICES ASSUME QuarantineCaption PROVE FALSE
    OBVIOUS
  <2>2. Moves(FileAt(CaptionPlace), HeldCaption, {}) /\ FileAt(CaptionPlace) \in Files
    BY <2>1, QuarantineAt, FileAtIs DEF QuarantineCaption
  <2>3. HeldCaption.dir = "held"
    BY InIs DEF HeldCaption
  <2>4. QED
    BY <1>1, <2>2, <2>3, InIs
<1>7. ~CheckCaption /\ ~CaptionPublished
  <2>1. SUFFICES ASSUME CheckCaption \/ CaptionPublished PROVE FALSE
    OBVIOUS
  <2>2. at' = Restored /\ excused' = excused
    BY <1>0, <2>1 DEF CheckCaption, CaptionPublished
  <2>3. Moves(FileAt(HeldCaption), CaptionPlace, {}) /\ FileAt(HeldCaption) \in Files
    BY <1>0, <2>2, RestoredAt, FileAtIs
  <2>4. CaptionPlace.dir = "stage"
    BY InIs DEF CaptionPlace
  <2>5. QED
    BY <1>1, <2>3, <2>4, InIs
<1>8. ~ConvertNext
  <2>1. SUFFICES ASSUME ConvertNext PROVE FALSE
    OBVIOUS
  <2>2. PICK k : /\ k = Head(todo) /\ pc = "convert" /\ todo # <<>> /\ excused' = excused
                 /\ at' = [at EXCEPT ![Output(k)] = In("convert", Output(k))]
    BY <1>0, <2>1 DEF ConvertNext
  <2>3. Moves(Output(k), In("convert", Output(k)), {}) /\ Output(k) \in Files
    BY <2>2, ConvertAt, FilesAre
  <2>4. QED
    BY <1>a0, <1>1, <2>3
<1>9. ASSUME NEW k, at' = RemoveTemp(k), excused' = excused PROVE FALSE
  <2>1. at' = Remove({Output(k)})
    BY <1>0, <1>9, RemoveTempAt
  <2>2. QED
    BY <1>a0, <1>2, <2>1
<1>10. ~FfmpegEnds /\ ~OutputInstalled
  BY <1>0, <1>9 DEF FfmpegEnds, OutputInstalled
<1>11. ~Retire
  <2>1. SUFFICES ASSUME Retire PROVE FALSE
    OBVIOUS
  <2>2. PICK k : /\ k = Head(todo) /\ excused' = excused /\ Taken(Staged(k))
                 /\ at' = [at EXCEPT ![FileAt(Staged(k))] = Held(k)]
    BY <1>0, <2>1 DEF Retire
  <2>3. Moves(FileAt(Staged(k)), Held(k), {}) /\ FileAt(Staged(k)) \in Files
    BY <2>2, RetireAt
  <2>4. Held(k).dir = "held"
    BY InIs DEF Held
  <2>5. QED
    BY <1>1, <2>3, <2>4, InIs
<1>12. ~CheckRetired
  <2>1. SUFFICES ASSUME CheckRetired PROVE FALSE
    OBVIOUS
  <2>2. PICK k : k = Head(todo)
    OBVIOUS
  <2>3. Taken(Held(k)) /\ excused' = excused
    BY <2>1, <2>2, BaseHas DEF CheckRetired, HandInv
  <2>4. at' = [at EXCEPT ![FileAt(Held(k))] = Nowhere] /\ IsOwned(k, FileAt(Held(k)))
    BY <1>0, <2>1, <2>2 DEF CheckRetired
  <2>5. at' = Remove({FileAt(Held(k))}) /\ k \in Media
    BY <2>3, <2>4, RetiredAt
  <2>6. <<Staged(k), f>> \in owned
    BY <1>2, <2>4, <2>5 DEF IsOwned
  <2>7. Staged(k) \in Places
    BY <2>5, FilesAre, NamesAre, InIs DEF Staged, Dirs
  <2>8. QED
    BY <1>0, <2>6, <2>7 DEF OwnedInv
<1>13. ~Verify
  <2>1. SUFFICES ASSUME Verify PROVE FALSE
    OBVIOUS
  <2>2. PICK R \in SUBSET StageFiles : Verified /\ at' = Remove(R)
    BY <1>0, <2>1, VerifyAt
  <2>3. f \in StageFiles /\ <<at[f], f>> \in owned
    BY <1>2, <2>2 DEF Verified
  <2>4. at[f] \in Places
    BY <1>0 DEF DataInv
  <2>5. QED
    BY <1>0, <2>3, <2>4 DEF OwnedInv
<1>14. \A q \in Places : ~SweepOne(q)
  <2>1. SUFFICES ASSUME NEW q \in Places, SweepOne(q) PROVE FALSE
    OBVIOUS
  <2>2. /\ FileAt(q) \in Files /\ at[FileAt(q)] = q /\ q.dir \in {"stage", "held", "convert"}
        /\ \/ Unwanted(q) /\ at' = Remove({FileAt(q)})
           \/ \E p \in Places : Moves(FileAt(q), p, {})
    BY <1>0, <2>1, SweepOneAt
  <2>3. Unwanted(q) /\ at' = Remove({FileAt(q)})
    BY <1>a2, <1>1, <2>2
  <2>4. at[f] = q
    BY <1>2, <2>2, <2>3
  <2>5. at[f].dir # "convert" /\ at[f].name[1] \notin {"part", "stream"}
    BY <1>0, <1>a0, <2>2, <2>4, AtOwn
  <2>6. QED
    BY <2>3, <2>4, <2>5 DEF Unwanted, IsIntermediate, IsStream
<1>15. QED
  BY <1>0, <1>3, <1>4, <1>5, <1>6, <1>7, <1>8, <1>10, <1>11, <1>12, <1>13, <1>14
     DEF Next, vars, Ytdlp, ReportFinished, YtdlpExits, Stranger, CancelSession, Worker, HandOff,
         Publishes, Published, TakeCaption, InstallNext, PublishPending, CaptionFallback, Converted,
         Decide, ReplacementInstalled, Drop, Stops, Sweep, SweepBegins, SweepEnds, SweepDies

\* No step overwrites or removes a file of another program that was not there when yt-dlp
\* ended, neither in the folder (install_no_replace) nor with the staging directory
\* (DownloadStage::drop, sweep_staging_dir), for any number of such files and any faults.
THEOREM StrangersAreKept == Spec => StrangersSurvive
<1>1. Base /\ [Next]_vars =>
        [\A x \in Foreign : Kept(x) /\ x \notin excused => Kept(x)']_vars
  BY StrangerStays DEF Kept
<1>2. QED
  BY <1>1, Invariant, PTL DEF Spec, StrangersSurvive

\* A stream the sweep removes has its merged file.
LEMMA SweepTidies ==
  ASSUME Base, StemInv, [Next]_vars, pc = "sweep", NEW m \in Media,
         at[Stream(m)] = In("stage", Stream(m))
  PROVE  Kept(Stream(m))' \/ Kept(Whole(m)) \/ Whole(m) \in excused
<1>1. PICK f : f = Stream(m)
  OBVIOUS
<1>2. f \in Files /\ f[1] = "stream" /\ f[2] = m /\ at[f] = In("stage", f) /\ f \notin Foreign
  BY <1>1, FilesAre, Kinds
<1>3. In("stage", f).dir = "stage" /\ In("stage", f).name = f /\ In("stage", f) # Nowhere
  BY InIs
<1>4. SUFFICES ASSUME at'[f] = Nowhere PROVE Kept(Whole(m)) \/ Whole(m) \in excused
  BY <1>1 DEF Kept
<1>5. at' # at
  BY <1>2, <1>3, <1>4
<1>6. CASE \E q \in Places : SweepOne(q)
  <2>1. PICK q \in Places : SweepOne(q)
    BY <1>6
  <2>2. /\ FileAt(q) \in Files /\ at[FileAt(q)] = q
        /\ \/ Unwanted(q) /\ at' = Remove({FileAt(q)})
           \/ \E p \in Places : Moves(FileAt(q), p, {})
    BY <1>5, <2>1, SweepOneAt
  <2>3. f = FileAt(q)
    BY <1>2, <1>3, <1>4, <2>2 DEF Remove, Moves
  <2>4. Unwanted(q)
    BY <1>2, <1>4, <2>2, <2>3, PlacesAre DEF Moves
  <2>5. q.dir = "stage" /\ q.name = f
    BY <1>2, <1>3, <2>2, <2>3
  <2>6. StemOf(f) \in sweep.merged
    BY <1>2, <2>4, <2>5 DEF Unwanted, IsIntermediate, IsStream
  <2>7. StemOf(f) = <<"entry", m>>
    BY <1>2 DEF StemOf
  <2>8. QED
    BY <2>6, <2>7 DEF StemInv
<1>7. CASE Stranger
  <2>1. PICK x \in Foreign : Replace(x) \/ Deposit(x) \/ Squat(x)
    BY <1>7 DEF Stranger
  <2>2. PICK p, v : Interfere(x, p, v)
    BY <2>1 DEF Replace, Deposit, Squat
  <2>3. f = v /\ v # x
    BY <1>2, <1>3, <1>4, <2>2 DEF Interfere
  <2>4. Replace(x) => FALSE
    <3>1. SUFFICES ASSUME Replace(x) PROVE FALSE
      OBVIOUS
    <3>2. PICK w \in Files : Interfere(x, at[w], w) /\ w # f
      BY <1>2, <3>1, ReplaceIs, Kinds
    <3>3. QED
      BY <1>2, <1>3, <1>4, <2>3, <3>2 DEF Interfere
  <2>5. Deposit(x) \/ Squat(x)
    BY <2>1, <2>4
  <2>6. PICK r : Interfere(x, r, x)
    BY <2>5 DEF Deposit, Squat
  <2>7. QED
    BY <1>2, <1>3, <1>4, <2>3, <2>6 DEF Interfere
<1>8. (\E q \in Places : SweepOne(q)) \/ Stranger
  BY <1>5 DEF Next, vars, Ytdlp, Fetch, FinishStreams, Merge, Tidy, YtdlpStep,
     ReportFinished, YtdlpExits, CancelSession, Worker, HandOff, MoveFile,
     MoveFails, MoveFlagged, Reserve, RenameReserved, Publishes, Published,
     TakeCaption, QuarantineCaption, CheckCaption, CaptionPublished, InstallNext,
     PublishPending, ConvertNext, FfmpegEnds, OutputInstalled, CaptionFallback,
     Converted, Decide, Retire, CheckRetired, ReplacementInstalled, Drop, Verify,
     Stops, Sweep, SweepBegins, SweepEnds, SweepDies
<1>9. QED
  BY <1>6, <1>7, <1>8

\* There is no thumbnail initially.
LEMMA InitStem == Init => StemInv1
<1> SUFFICES ASSUME Init PROVE StemInv
  BY DEF StemInv1
<1>1. \A m \in Media : at[Thumb(m)] = Nowhere
  BY FilesAre DEF Init
<1>2. QED
  BY <1>1 DEF Init, StemInv

\* Without thumbnails the sweep of the next start (sweep_staging_dir) removes no finished
\* file, and no stream but one whose merged file is there or in the folder.
THEOREM SweepOnlyTidies ==
  ASSUME Thumbnails = FALSE
  PROVE  Spec => SweepRemovesOnlyRedundant
<1>1. Base /\ StemInv1 /\ [Next]_vars => StemInv1'
  BY StemStep
<1>2. Base /\ StemInv1 /\ [Next]_vars =>
        [pc = "sweep" =>
           \A m \in Media :
             /\ Kept(Whole(m)) => Kept(Whole(m))' \/ Whole(m) \in excused'
             /\ at[Stream(m)] = In("stage", Stream(m)) =>
                  Kept(Stream(m))' \/ Kept(Whole(m)) \/ Whole(m) \in excused]_vars
  BY SweepKeepsWhole, SweepTidies DEF StemInv1
<1>3. QED
  BY <1>1, <1>2, Invariant, InitStem, PTL DEF Spec, SweepRemovesOnlyRedundant
=============================================================================
