---------------------------- MODULE TitleLibrary ----------------------------
(***************************************************************************)
(* The folder and the rows of one title (a film, a series or a reading),   *)
(* changed by the requests of administrators: episodes added to a series   *)
(* and series created (series-upload-service.js), readings created         *)
(* (reading-upload-service.js), metadata edited and episodes renumbered    *)
(* (routes/metadata-editor.js over content-, series- and reading-metadata- *)
(* service.js), the title deleted (content-delete-service.js).  No lock    *)
(* orders them.                                                            *)
(*                                                                         *)
(* Every action is the code between two awaits that matter.  A poster      *)
(* follows the document it belongs to, and the document of an episode its  *)
(* video: they are left out, the faults of their moves are not.  The       *)
(* upload of a film is in MovieLibrary.                                    *)
(***************************************************************************)
EXTENDS Naturals, FiniteSets

CONSTANTS
  Requests,    \* requests of administrators, each made once
  Numbers,     \* numbers of episodes; a film or a reading has one file
  First,       \* who wrote what the library holds at first
  None,        \* no file, no row, no document
  MaxTroubles  \* bound on faults and stops, together

ASSUME ConstantsAssumption ==
  /\ IsFiniteSet(Requests) /\ IsFiniteSet(Numbers) /\ Numbers # {}
  /\ First \notin Requests /\ None \notin Requests \cup {First} \cup Numbers
  /\ MaxTroubles \in Nat

VARIABLES
  kind,       \* what the title is
  folder,     \* the title's folder in the library
  trash,      \* trash[o]: the folder as deletion o moved it to .baia-delete-staging
  title,      \* the row of the title: the version of its metadata
  episodes,   \* episodes[n]: the row of episode n
  req,        \* req[o]: what request o asks for and how far it is
  troubles,   \* how many faults and stops
  overlapped, \* history: requests that were at work with another one
  contested   \* history: episodes of two such requests with one in common, and
              \* the numbers such an episode is given afterwards

disk == <<folder, trash>>
catalogue == <<title, episodes>>
history == <<overlapped, contested>>
vars == <<kind, disk, catalogue, req, troubles, history>>

Kinds == {"film", "series", "reading"}
Versions == Requests \cup {First}
Videos == [by : Versions, number : Numbers]
EpisodeRow == [video : Videos, on : BOOLEAN]

ASSUME NoneAssumption == None \notin Videos /\ None \notin EpisodeRow

\* doc is metadata.json, prev metadata.previous.json; temps the requests with a
\* staged document here, docAside and prevAside what they moved to a backup name.
Folder == [here : BOOLEAN, doc : Versions \cup {None}, prev : Versions \cup {None},
           temps : SUBSET Requests,
           docAside : [Requests -> Versions \cup {None}],
           prevAside : [Requests -> Versions \cup {None}],
           videos : [Numbers -> Videos \cup {None}]]

NoneAside == [o \in Requests |-> None]
NoFolder == [here |-> FALSE, doc |-> None, prev |-> None, temps |-> {},
             docAside |-> NoneAside, prevAside |-> NoneAside,
             videos |-> [n \in Numbers |-> None]]

\* fs.mkdir(..., { recursive: true })
Made(f) == [f EXCEPT !.here = TRUE]
Fresh == [NoFolder EXCEPT !.here = TRUE]
Empty(f) == f = Fresh

\* The episodes an upload may bring: at least one, each number once.
Plans == (SUBSET Numbers) \ {{}}

Ops == {"none", "upload", "create", "edit", "renumber", "delete"}
\* preserved: an upload whose files stay without rows; torn: an edit whose document
\* stays without its row; broken: what was moved could not be put back; caught: the
\* process stopped while it was moved.
Unsettled == {"broken", "caught"}
Answers == {"ok", "refused", "preserved", "torn", "stopped"} \cup Unsettled
ApplyPhases == {"prevOut", "prevIn", "docOut", "docIn"}
Phases == {"idle", "stage", "row", "move", "settle", "undoDoc", "undoAside", "undoMoves",
           "install", "register", "rename", "renamed", "renameBack",
           "away", "rows", "back", "purge"} \cup ApplyPhases \cup Answers

\* What a reader of the library is shown of the document: only that of a series,
\* when it is missing, is looked for under its previous name.
ReadContent(f) == f.doc
ReadReading(f) == f.doc
ReadSeries(f) == IF f.doc = None THEN f.prev ELSE f.doc
Read(f) ==
  CASE kind = "film" -> ReadContent(f)
    [] kind = "series" -> ReadSeries(f)
    [] kind = "reading" -> ReadReading(f)

\* writeSeriesDocument, when the previous document had to be read.
Recovered(f) == [f EXCEPT !.doc = Read(f)]

Shown == [doc |-> Read(folder), videos |-> folder.videos,
          title |-> title, episodes |-> episodes]

\* plan: the episodes a request is about, a renumbered one first at from; seen:
\* the document it read; reuse: rows it found offline; moved: videos in place; before
\* and since: what was shown, and the troubles there had been, when it was made.
Idle == [op |-> "none", phase |-> "idle", want |-> None, plan |-> {}, from |-> None,
         video |-> None, seen |-> None, reuse |-> {}, moved |-> {}, before |-> None,
         since |-> 0]

Active(o) == req[o].phase \notin {"idle"} \cup Answers

\* At work, or over with something still where it was moved.
Open(o) == Active(o) \/ req[o].phase \in Unsettled

TypeOK ==
  /\ kind \in Kinds
  /\ folder \in Folder /\ (~folder.here => folder = NoFolder)
  /\ trash \in [Requests -> Folder]
  /\ title \in Versions \cup {None}
  /\ episodes \in [Numbers -> EpisodeRow \cup {None}]
  /\ title = None => \A n \in Numbers : episodes[n] = None
  /\ \A o \in Requests :
       /\ req[o].op \in Ops /\ req[o].phase \in Phases
       /\ req[o].want \in Versions \cup {None} /\ req[o].seen \in Versions \cup {None}
       /\ req[o].plan \subseteq Numbers /\ req[o].moved \subseteq req[o].plan
       /\ req[o].since \in 0..MaxTroubles
       /\ trash[o].here => req[o].op = "delete"
  /\ troubles \in 0..MaxTroubles
  /\ overlapped \subseteq Requests /\ contested \subseteq Numbers

FirstNumber == CHOOSE n \in Numbers : TRUE

\* No title, or one with its document and row; episodes may be offline.
Init ==
  /\ kind \in Kinds
  /\ \E there \in BOOLEAN, prev \in {None, First}, shown \in SUBSET Numbers,
        offline \in SUBSET Numbers :
       /\ shown \cap offline = {}
       /\ IF there
            THEN /\ kind # "series" => shown = {FirstNumber} /\ offline = {}
                 /\ title = First
            ELSE /\ shown = {} /\ offline = {} /\ prev = None
                 /\ title = None
       /\ folder = IF there
            THEN [Fresh EXCEPT !.doc = First, !.prev = prev,
                    !.videos = [n \in Numbers |-> IF n \in shown
                                  THEN [by |-> First, number |-> n] ELSE None]]
            ELSE NoFolder
       /\ episodes = [n \in Numbers |-> IF n \in shown \cup offline
            THEN [video |-> [by |-> First, number |-> n], on |-> n \in shown] ELSE None]
  /\ trash = [o \in Requests |-> NoFolder]
  /\ req = [o \in Requests |-> Idle]
  /\ troubles = 0
  /\ overlapped = {} /\ contested = {}

-----------------------------------------------------------------------------
(* Requests. *)

At(o, phase) == req[o].phase = phase
Go(o, phase) == req' = [req EXCEPT ![o].phase = phase]
Troubles(k) == troubles + k <= MaxTroubles /\ troubles' = troubles + k
Trouble == Troubles(1)

Targets(r) == IF r.op = "delete" THEN Numbers ELSE r.plan

\* Request o is made and passes, or not, the checks made before it changes anything.
Begin(o, asked, passes, first) ==
  LET r == [asked EXCEPT !.before = Shown, !.since = troubles]
      others == {p \in Requests : Active(p)}
      open == {p \in Requests : Open(p)}
  IN  /\ At(o, "idle")
      /\ req' = [req EXCEPT ![o] = [r EXCEPT !.phase = IF passes THEN first ELSE "refused"]]
      /\ overlapped' = IF others = {} THEN overlapped ELSE overlapped \cup others \cup {o}
      /\ contested' = contested
           \cup (UNION {Targets(r) \cup Targets(req[p]) :
                          p \in {p \in open : Targets(r) \cap Targets(req[p]) # {}}})
           \cup IF r.op = "renumber" /\ r.plan \cap contested # {} THEN r.plan ELSE {}
      /\ UNCHANGED <<kind, disk, catalogue, troubles>>

\* Mutant: the numbers asked are not looked up.
Unchecked(plan) == TRUE
\* ensureNoConflicts
NoConflict(plan) ==
  \A n \in plan : /\ ~(episodes[n] # None /\ episodes[n].on)
                  /\ folder.videos[n] = None

\* createSeriesFromUpload for a series of the catalogue; the title asked may
\* be the one the row has.
BeginUpload(o, plan, want) ==
  /\ kind = "series" /\ title # None /\ want \in {title, o}
  /\ Begin(o, [Idle EXCEPT !.op = "upload", !.plan = plan, !.want = want],
           NoConflict(plan), "stage")

\* createSeriesFromUpload for a new series
BeginCreateSeries(o, plan) ==
  /\ kind = "series"
  /\ Begin(o, [Idle EXCEPT !.op = "create", !.plan = plan, !.want = o],
           ~folder.here, "install")

\* createReadingItemFromUpload
BeginCreateReading(o) ==
  /\ kind = "reading"
  /\ Begin(o, [Idle EXCEPT !.op = "create", !.plan = {FirstNumber}, !.want = o],
           ~folder.here /\ title = None, "install")

BeginEdit(o) ==
  /\ title # None
  /\ Begin(o, [Idle EXCEPT !.op = "edit", !.want = o], TRUE, "stage")

\* updateEpisode, to another number
BeginRenumber(o, n, m) ==
  /\ kind = "series" /\ n # m /\ episodes[n] # None
  /\ Begin(o, [Idle EXCEPT !.op = "renumber", !.plan = {n, m}, !.from = n,
                           !.video = episodes[n].video],
           NoConflict({m}), "rename")

BeginDelete(o) ==
  /\ title # None
  /\ Begin(o, [Idle EXCEPT !.op = "delete"], TRUE, "away")

-----------------------------------------------------------------------------
(* A document is changed: staged, applied, then settled or undone. *)

\* Mutant: the old document is not kept under its previous name.
NoPrevious(f) == "docOut"
AfterStage(f) == IF kind # "reading" /\ f.doc # None THEN "prevOut" ELSE "docOut"

Staged(o, f) ==
  /\ At(o, "stage")
  /\ folder' = [Made(f) EXCEPT !.temps = @ \cup {o}]
  /\ req' = [req EXCEPT ![o].seen = f.doc, ![o].phase = AfterStage(f),
       ![o].reuse = {n \in req[o].plan : episodes[n] # None /\ ~episodes[n].on}]
  /\ UNCHANGED <<kind, trash, catalogue, troubles, history>>

StageContent(o) == kind = "film" /\ Staged(o, folder)
StageSeries(o) == kind = "series" /\ Staged(o, Recovered(folder))
StageReading(o) == kind = "reading" /\ Staged(o, folder)

StageFails(o) ==
  /\ At(o, "stage") /\ Trouble
  /\ Go(o, "refused")
  /\ UNCHANGED <<kind, disk, catalogue, history>>

PrevOut(o) ==
  /\ At(o, "prevOut")
  /\ folder' = [folder EXCEPT !.prevAside[o] = folder.prev, !.prev = None]
  /\ Go(o, "prevIn")
  /\ UNCHANGED <<kind, trash, catalogue, troubles, history>>

\* Only a film keeps what was there until the end (stageFileReplacement).
PrevIn(o) ==
  /\ At(o, "prevIn") /\ o \in folder.temps
  /\ folder' = [folder EXCEPT !.prev = req[o].seen,
                  !.prevAside[o] = IF kind = "film" THEN @ ELSE None]
  /\ Go(o, "docOut")
  /\ UNCHANGED <<kind, trash, catalogue, troubles, history>>

DocOut(o) ==
  /\ At(o, "docOut")
  /\ folder' = [folder EXCEPT !.docAside[o] = folder.doc, !.doc = None]
  /\ Go(o, "docIn")
  /\ UNCHANGED <<kind, trash, catalogue, troubles, history>>

DocIn(o) ==
  /\ At(o, "docIn") /\ o \in folder.temps
  /\ folder' = [folder EXCEPT !.doc = req[o].want, !.temps = @ \ {o}]
  /\ Go(o, IF req[o].op = "upload" THEN "move" ELSE "row")
  /\ UNCHANGED <<kind, trash, catalogue, troubles, history>>

OrAside(aside, now) == IF aside # None THEN aside ELSE now

\* An edit that fails in apply leaves staged files, except where apply rolls back.
Tidies(o) ==
  \/ kind = "film" \/ req[o].op = "upload" \/ At(o, "undoAside")
  \/ kind = "reading" /\ At(o, "docIn")

PrevAfter(o, f) ==
  IF kind = "film" /\ ~At(o, "prevOut") /\ req[o].seen # None
    THEN f.prevAside[o] ELSE OrAside(f.prevAside[o], f.prev)

\* What is undone by a rename that failed in apply, or by a whole rollback.
Undos == {"doc", "prev", "temp"}

PutBack(o, f, undos) ==
  [f EXCEPT !.doc = IF "doc" \in undos THEN OrAside(f.docAside[o], @) ELSE @,
            !.docAside[o] = IF "doc" \in undos THEN None ELSE @,
            !.prev = IF "prev" \in undos THEN PrevAfter(o, f) ELSE @,
            !.prevAside[o] = IF "prev" \in undos THEN None ELSE @,
            !.temps = IF "temp" \in undos /\ Tidies(o) THEN @ \ {o} ELSE @]

\* Faults while undoing are ignored: what is not undone stays as it is.
Faults(undos) == IF undos = Undos THEN 0 ELSE 1

\* A fault, or the staged document moved away with the folder.
ApplyFails(o) ==
  /\ req[o].phase \in ApplyPhases
  /\ \E undos \in SUBSET Undos :
       /\ \/ Troubles(1 + Faults(undos))
          \/ req[o].phase \in {"prevIn", "docIn"} /\ o \notin folder.temps /\ Troubles(Faults(undos))
       /\ folder' = PutBack(o, folder, undos)
  /\ Go(o, "refused")
  /\ UNCHANGED <<kind, trash, catalogue, history>>

\* The poster cannot be moved aside: the document was, and is not put back.
PosterFails(o) ==
  /\ At(o, "docIn") /\ kind # "film" /\ Trouble
  /\ folder' = IF req[o].op = "upload" THEN [folder EXCEPT !.temps = @ \ {o}] ELSE folder
  /\ Go(o, "refused")
  /\ UNCHANGED <<kind, trash, catalogue, history>>

RowUpdated(o) ==
  /\ At(o, "row")
  /\ title' = IF title = None THEN None ELSE req[o].want
  /\ Go(o, "settle")
  /\ UNCHANGED <<kind, disk, episodes, troubles, history>>

UpdateMovie(o) == kind = "film" /\ title # None /\ RowUpdated(o)
UpdateReading(o) == kind = "reading" /\ title # None /\ RowUpdated(o)
\* That the series is no more is not noticed here.
UpdateSeries(o) == kind = "series" /\ RowUpdated(o)

RowFails(o) ==
  /\ At(o, "row")
  /\ \/ Trouble
     \/ title = None /\ kind # "series" /\ UNCHANGED troubles
  /\ Go(o, "undoDoc")
  /\ UNCHANGED <<kind, disk, catalogue, history>>

\* BEGIN fails, or SQLite has rolled back by itself: the ROLLBACK of the catch throws,
\* and the document is not undone.  A reading is updated outside a transaction.
RowTorn(o) ==
  /\ At(o, "row") /\ kind # "reading" /\ Trouble
  /\ Go(o, "torn")
  /\ UNCHANGED <<kind, disk, catalogue, history>>

Settled(o, f) == [f EXCEPT !.temps = @ \ {o}, !.docAside[o] = None, !.prevAside[o] = None]

\* commit; the answer to an edit is made from its row.
Settle(o) ==
  /\ At(o, "settle")
  /\ folder' = Settled(o, folder)
  /\ Go(o, CASE req[o].op = "upload" -> "register"
             [] req[o].op = "edit" /\ title # None -> "ok" [] OTHER -> "refused")
  /\ UNCHANGED <<kind, trash, catalogue, troubles, history>>

\* rollback: what was installed is removed, then what was aside put back.
UndoDoc(o) ==
  /\ At(o, "undoDoc")
  /\ \/ Troubles(0) /\ folder' = [folder EXCEPT !.doc = None]
     \/ Trouble /\ folder' = folder
  /\ Go(o, "undoAside")
  /\ UNCHANGED <<kind, trash, catalogue, history>>

\* Mutant: the staged files are removed, the old document not put back.
SettledInstead(o, f, undos) == Settled(o, f)
RolledBack(o, f, undos) == PutBack(o, f, undos)

UndoAside(o) ==
  /\ At(o, "undoAside")
  /\ \E undos \in SUBSET Undos :
       Troubles(Faults(undos)) /\ folder' = RolledBack(o, folder, undos)
  /\ Go(o, "undoMoves")
  /\ UNCHANGED <<kind, trash, catalogue, history>>

UndoMoves(o) ==
  /\ At(o, "undoMoves")
  /\ \E kept \in SUBSET req[o].moved :
       /\ Troubles(IF kept = {} THEN 0 ELSE 1)
       /\ folder' = [folder EXCEPT !.videos =
            [n \in Numbers |-> IF n \in req[o].moved \ kept THEN None ELSE @[n]]]
  /\ Go(o, "refused")
  /\ UNCHANGED <<kind, trash, catalogue, history>>

-----------------------------------------------------------------------------
(* Episodes are added to a series; a series or a reading is created. *)

Video(o, n) == [by |-> o, number |-> n]

\* moveSameVolume, which replaces a file that is there
Move(o, n) ==
  /\ At(o, "move") /\ n \in req[o].plan \ req[o].moved
  /\ folder' = [Made(folder) EXCEPT !.videos[n] = Video(o, n)]
  /\ LET moved == req[o].moved \cup {n}
     IN  req' = [req EXCEPT ![o].moved = moved,
                   ![o].phase = IF moved = req[o].plan THEN "settle" ELSE "move"]
  /\ UNCHANGED <<kind, trash, catalogue, troubles, history>>

MoveFails(o) ==
  /\ At(o, "move") /\ Trouble
  /\ Go(o, "undoDoc")
  /\ UNCHANGED <<kind, disk, catalogue, history>>

\* The staged folder is renamed; only an empty folder is replaced.
Install(o) ==
  /\ At(o, "install") /\ (folder.here => Empty(folder))
  /\ folder' = [Fresh EXCEPT !.doc = req[o].want,
       !.videos = [n \in Numbers |-> IF n \in req[o].plan THEN Video(o, n) ELSE None]]
  /\ Go(o, "register")
  /\ UNCHANGED <<kind, trash, catalogue, troubles, history>>

InstallFails(o) ==
  /\ At(o, "install")
  /\ \/ Trouble
     \/ folder.here /\ ~Empty(folder) /\ UNCHANGED troubles
  /\ Go(o, "refused")
  /\ UNCHANGED <<kind, disk, catalogue, history>>

Registrable(o) ==
  /\ Read(folder) # None
  /\ req[o].op = "create" => title = None /\ Read(folder) = o
  /\ \A n \in req[o].plan :
       /\ folder.videos[n] # None
       /\ IF n \in req[o].reuse THEN episodes[n] # None /\ ~episodes[n].on
          ELSE episodes[n] = None

\* registerSeriesUpload, insertReadingItem: stat, then one transaction.
Register(o) ==
  /\ At(o, "register") /\ Registrable(o)
  /\ folder' = Recovered(folder)
  /\ title' = req[o].want
  /\ episodes' = [n \in Numbers |-> IF n \in req[o].plan
                    THEN [video |-> Video(o, n), on |-> TRUE] ELSE episodes[n]]
  /\ Go(o, "ok")
  /\ UNCHANGED <<kind, trash, troubles, history>>

\* The answer says that the files stay, except when stat fails for a reading.
RegisterFails(o) ==
  /\ At(o, "register")
  /\ \/ Trouble
     \/ ~Registrable(o) /\ UNCHANGED troubles
  /\ folder' = Recovered(folder)
  /\ \E answer \in {"preserved"} \cup (IF kind = "reading" THEN {"refused"} ELSE {}) :
       Go(o, answer)
  /\ UNCHANGED <<kind, trash, catalogue, history>>

-----------------------------------------------------------------------------
(* An episode is given another number. *)

To(o) == CHOOSE m \in req[o].plan : m # req[o].from

Moved(f, n, m) == [f EXCEPT !.videos = [@ EXCEPT ![m] = f.videos[n], ![n] = None]]

Rename(o) ==
  /\ At(o, "rename")
  /\ IF folder.videos[req[o].from] = None
       THEN folder' = Made(folder) /\ Go(o, "refused")
       ELSE folder' = Moved(folder, req[o].from, To(o)) /\ Go(o, "renamed")
  /\ UNCHANGED <<kind, trash, catalogue, troubles, history>>

RenameFails(o) ==
  /\ At(o, "rename") /\ Trouble
  /\ Go(o, "refused")
  /\ UNCHANGED <<kind, disk, catalogue, history>>

\* The row of the episode, wherever its number is now.
RowOf(o) == {n \in Numbers : episodes[n] # None /\ episodes[n].video = req[o].video}

Renumberable(o) == folder.videos[To(o)] # None /\ (RowOf(o) # {} => episodes[To(o)] = None)

Renumber(o) ==
  /\ At(o, "renamed") /\ Renumberable(o)
  /\ episodes' = [n \in Numbers |->
       CASE n \in RowOf(o) -> None
         [] n = To(o) /\ RowOf(o) # {} -> episodes[CHOOSE k \in RowOf(o) : TRUE]
         [] OTHER -> episodes[n]]
  /\ Go(o, IF RowOf(o) # {} THEN "ok" ELSE "refused")
  /\ UNCHANGED <<kind, disk, title, troubles, history>>

\* writeJsonAtomically made the folder again before stat missed the video.
RenumberFails(o) ==
  /\ At(o, "renamed")
  /\ \/ Trouble
     \/ ~Renumberable(o) /\ UNCHANGED troubles
  /\ folder' = Made(folder)
  /\ Go(o, "renameBack")
  /\ UNCHANGED <<kind, trash, catalogue, history>>

RenameBack(o) ==
  /\ At(o, "renameBack")
  /\ folder' = IF folder.videos[To(o)] = None THEN folder
               ELSE Moved(folder, To(o), req[o].from)
  /\ Go(o, "refused")
  /\ UNCHANGED <<kind, trash, catalogue, troubles, history>>

\* The failure is ignored, and not in the answer.
RenameBackFails(o) ==
  /\ At(o, "renameBack") /\ Trouble
  /\ Go(o, "broken")
  /\ UNCHANGED <<kind, disk, catalogue, history>>

-----------------------------------------------------------------------------
(* The title is deleted. *)

Away(o) ==
  /\ At(o, "away")
  /\ trash' = [trash EXCEPT ![o] = folder]
  /\ folder' = NoFolder
  /\ Go(o, "rows")
  /\ UNCHANGED <<kind, catalogue, troubles, history>>

AwayFails(o) ==
  /\ At(o, "away") /\ Trouble
  /\ Go(o, "refused")
  /\ UNCHANGED <<kind, disk, catalogue, history>>

DeleteRows(o) ==
  /\ At(o, "rows") /\ title # None
  /\ title' = None
  /\ episodes' = [n \in Numbers |-> None]
  /\ Go(o, IF trash[o].here THEN "purge" ELSE "ok")
  /\ UNCHANGED <<kind, disk, troubles, history>>

DeleteRowsFail(o) ==
  /\ At(o, "rows")
  /\ \/ Trouble
     \/ title = None /\ UNCHANGED troubles
  /\ Go(o, IF trash[o].here THEN "back" ELSE "refused")
  /\ UNCHANGED <<kind, disk, catalogue, history>>

Replaceable(f) == f.here => Empty(f)

Back(o) ==
  /\ At(o, "back") /\ Replaceable(folder)
  /\ folder' = trash[o]
  /\ trash' = [trash EXCEPT ![o] = NoFolder]
  /\ Go(o, "refused")
  /\ UNCHANGED <<kind, catalogue, troubles, history>>

\* A fault, or a folder made again in the meantime (DELETE_ROLLBACK_FAILED).
BackFails(o) ==
  /\ At(o, "back")
  /\ \/ Trouble
     \/ ~Replaceable(folder) /\ UNCHANGED troubles
  /\ Go(o, "broken")
  /\ UNCHANGED <<kind, disk, catalogue, history>>

Purge(o) ==
  /\ At(o, "purge")
  /\ trash' = [trash EXCEPT ![o] = NoFolder]
  /\ Go(o, "ok")
  /\ UNCHANGED <<kind, folder, catalogue, troubles, history>>

\* cleanupPending
PurgeFails(o) ==
  /\ At(o, "purge") /\ Trouble
  /\ Go(o, "ok")
  /\ UNCHANGED <<kind, disk, catalogue, history>>

\* The process stops and is started again: nothing on disk is looked for, and
\* what a renumbering or a deletion had moved stays where it is.
Stop ==
  /\ Trouble
  /\ \E o \in Requests : Active(o)
  /\ req' = [o \in Requests |->
       IF ~Active(o) THEN req[o]
       ELSE [req[o] EXCEPT !.phase =
               IF @ \in {"renamed", "renameBack", "rows", "back"} THEN "caught" ELSE "stopped"]]
  /\ UNCHANGED <<kind, disk, catalogue, history>>

-----------------------------------------------------------------------------

Ask(o) ==
  \/ \E plan \in Plans :
       BeginCreateSeries(o, plan) \/ \E want \in Versions : BeginUpload(o, plan, want)
  \/ BeginCreateReading(o)
  \/ BeginEdit(o) \/ BeginDelete(o)
  \/ \E n, m \in Numbers : BeginRenumber(o, n, m)

DocumentStep(o) ==
  \/ StageContent(o) \/ StageSeries(o) \/ StageReading(o) \/ StageFails(o)
  \/ PrevOut(o) \/ PrevIn(o) \/ DocOut(o) \/ DocIn(o)
  \/ ApplyFails(o) \/ PosterFails(o)
  \/ UpdateMovie(o) \/ UpdateSeries(o) \/ UpdateReading(o) \/ RowFails(o) \/ RowTorn(o)
  \/ Settle(o) \/ UndoDoc(o) \/ UndoAside(o) \/ UndoMoves(o)

UploadStep(o) ==
  \/ \E n \in Numbers : Move(o, n)
  \/ MoveFails(o) \/ Install(o) \/ InstallFails(o) \/ Register(o) \/ RegisterFails(o)

RenumberStep(o) ==
  \/ Rename(o) \/ RenameFails(o) \/ Renumber(o) \/ RenumberFails(o)
  \/ RenameBack(o) \/ RenameBackFails(o)

DeleteStep(o) ==
  \/ Away(o) \/ AwayFails(o) \/ DeleteRows(o) \/ DeleteRowsFail(o)
  \/ Back(o) \/ BackFails(o) \/ Purge(o) \/ PurgeFails(o)

Step(o) == DocumentStep(o) \/ UploadStep(o) \/ RenumberStep(o) \/ DeleteStep(o)

Next == Stop \/ \E o \in Requests : Ask(o) \/ Step(o)

Spec == Init /\ [][Next]_vars

-----------------------------------------------------------------------------
(* Properties. *)

Asked(o) ==
  CASE req[o].op \in {"upload", "create"} ->
         /\ title' = req[o].want /\ Read(folder)' = req[o].want
         /\ \A n \in req[o].plan :
              /\ folder'.videos[n] = Video(o, n)
              /\ episodes'[n] = [video |-> Video(o, n), on |-> TRUE]
    [] req[o].op = "edit" -> title' = req[o].want /\ Read(folder)' = req[o].want
    [] req[o].op = "renumber" ->
         /\ folder'.videos[To(o)] = req[o].before.videos[req[o].from]
         /\ episodes'[To(o)] = req[o].before.episodes[req[o].from]
    [] req[o].op = "delete" -> title' = None /\ ~folder'.here

\* A request no other overlaps does all it was asked and says so; or is refused and
\* leaves the folder and the rows showing what they did before, whichever step
\* fails, unless a second fault meets the undoing of the first.  Readings are left
\* out of that: their upload is not undone when the row cannot be inserted.  An edit
\* whose ROLLBACK throws leaves the new document over the old row, and that alone.
AloneIsAtomic ==
  [][\A o \in Requests :
       Active(o) /\ o \notin overlapped =>
         /\ req'[o].phase = "ok" => Asked(o)
         /\ req'[o].phase = "refused" /\ kind # "reading" /\ troubles' <= req[o].since + 1 =>
              Shown' = req[o].before
         /\ req'[o].phase = "torn" => Shown' = [req[o].before EXCEPT !.doc = req[o].want]]_vars

\* The video of episode n is where a renumbering or a deletion has moved it: one at
\* work, one that could not put it back, or one that a stop caught.
GivenAnotherNumber(o, n) ==
  /\ req[o].op = "renumber" /\ req[o].from = n
  /\ req[o].phase \in {"renamed", "renameBack"} \cup Unsettled
  /\ folder.videos[To(o)] = episodes[n].video

InTrash(o, n) ==
  /\ req[o].op = "delete"
  /\ req[o].phase \in {"rows", "back"} \cup Unsettled
  /\ trash[o].videos[n] = episodes[n].video

\* Whatever requests overlap, fail or stop, the video of an episode in the catalogue
\* is not lost or exchanged: it stands under its number, or where a renumbering or
\* a deletion that is not over, or could not be undone, has put it.  Episodes that two
\* requests were about at a time are left out.
EpisodesKept ==
  \A n \in Numbers \ contested :
    episodes[n] # None /\ episodes[n].on =>
      \/ folder.videos[n] = episodes[n].video
      \/ \E o \in Requests : GivenAnotherNumber(o, n) \/ InTrash(o, n)

\* A document of a series that one request at a time changes can be read at
\* every step, so also after a stop at any step.
DocumentSurvives ==
  /\ kind = "series" /\ title # None /\ folder.here /\ overlapped = {}
  /\ \A o \in Requests : ~trash[o].here
  => Read(folder) # None
=============================================================================
