-------------------------- MODULE TitleLibraryProofs --------------------------
(* TitleLibrary for any number of requests, episodes and troubles: the video of an   *)
(* episode that one request at a time is about stands under its number, or where a   *)
(* renumbering or a deletion has put it; the document of a series that requests      *)
(* change one at a time can always be read; and a request that no other overlaps is  *)
(* all or nothing, up to two faults at once and a ROLLBACK that throws.              *)
(*                                                                                   *)
(* Basic says what holds whatever meets: which phases a request of each kind goes    *)
(* through, what it asks for, what a deletion has set aside, that a video has one    *)
(* row, and that a request leaves nothing in the folder before it starts.  On it     *)
(* rest three invariants, one for each property.                                     *)
(*                                                                                   *)
(* Episodic.  An episode two requests are about at once is contested for good, and   *)
(* so is the number a renumbering gives it (Together), as its row is found by its    *)
(* video and not by its number (Traced).  Of the others, Progress says phase by      *)
(* phase where the video of the row is and what the row may be.  A request counts    *)
(* here (Open) as long as something is where it was moved: also after a stop caught  *)
(* it, or when it could not be put back.                                             *)
(*                                                                                   *)
(* DocumentKept.  A request leaves a readable document to the next one, in the       *)
(* folder or in what a deletion set aside; while it works there is one under one of  *)
(* the two names (DocumentProgress).                                                 *)
(*                                                                                   *)
(* Alone.  What folder and rows are is told by what the request found (before) and   *)
(* by its phase (SoFar), until a second fault meets the undoing (Spoiled); that one  *)
(* fault has led to the undoing is Counted.                                          *)
EXTENDS TitleLibrary, TLAPS

Trees == {f \in Folder : ~f.here => f = NoFolder}
View == [doc : Versions \cup {None}, videos : [Numbers -> Videos \cup {None}],
         title : Versions \cup {None}, episodes : [Numbers -> EpisodeRow \cup {None}]]
Request == [op : Ops, phase : Phases, want : Versions \cup {None}, plan : SUBSET Numbers,
            from : Numbers \cup {None}, video : Videos \cup {None},
            seen : Versions \cup {None}, reuse : SUBSET Numbers, moved : SUBSET Numbers,
            before : View \cup {None}, since : 0..MaxTroubles]

Types ==
  /\ kind \in Kinds
  /\ folder \in Trees
  /\ trash \in [Requests -> Trees]
  /\ title \in Versions \cup {None}
  /\ episodes \in [Numbers -> EpisodeRow \cup {None}]
  /\ req \in [Requests -> Request]
  /\ troubles \in 0..MaxTroubles
  /\ overlapped \subseteq Requests /\ contested \subseteq Numbers

(* The phases of each kind of request.                                            *)
DocumentPhases == ApplyPhases \cup {"stage", "settle", "undoDoc", "undoAside", "undoMoves"}

PhaseFits(o) ==
  /\ req[o].op = "none" => req[o].phase = "idle"
  /\ req[o].op = "upload" => req[o].phase \in DocumentPhases \cup
       {"move", "register", "ok", "refused", "preserved", "stopped"}
  /\ req[o].op = "create" => req[o].phase \in
       {"install", "register", "ok", "refused", "preserved", "stopped"}
  /\ req[o].op = "edit" => req[o].phase \in DocumentPhases \cup
       {"row", "ok", "refused", "torn", "stopped"}
  /\ req[o].op = "renumber" => req[o].phase \in
       {"rename", "renamed", "renameBack", "ok", "refused", "broken", "caught", "stopped"}
  /\ req[o].op = "delete" => req[o].phase \in
       {"away", "rows", "back", "purge", "ok", "refused", "broken", "caught", "stopped"}

(* What a request of each kind asks for.                                          *)
AskFits(o) ==
  /\ req[o].op # "none" => req[o].before \in View
  /\ req[o].op = "upload" => kind = "series" /\ req[o].want \in Versions /\ req[o].plan # {}
  /\ req[o].op = "create" => kind # "film"
  /\ req[o].op \in {"create", "edit"} => req[o].want = o
  /\ req[o].op \in {"edit", "delete"} => req[o].plan = {}
  /\ req[o].op = "renumber" =>
       /\ kind = "series"
       /\ req[o].from \in Numbers /\ To(o) \in Numbers /\ To(o) # req[o].from
       /\ req[o].plan = {req[o].from, To(o)} /\ req[o].video \in Videos

(* The episodes of an upload are moved after its document, all before it settles. *)
MovedFits(o) ==
  /\ req[o].moved \subseteq req[o].plan
  /\ req[o].op # "upload" => req[o].moved = {}
  /\ req[o].phase \in {"stage"} \cup ApplyPhases => req[o].moved = {}
  /\ req[o].op = "upload" /\ req[o].phase \in {"settle", "register"} =>
       req[o].moved = req[o].plan

(* A folder is set aside by a deletion that is past that.                         *)
TrashFits(o) ==
  trash[o].here => /\ req[o].op = "delete"
                   /\ req[o].phase \in {"rows", "back", "purge", "ok", "broken", "caught", "stopped"}

WellMade(o) == PhaseFits(o) /\ AskFits(o) /\ MovedFits(o) /\ TrashFits(o)

Listed(n) == episodes[n] # None /\ episodes[n].on

(* A video has one row at most, and those of a request none before it is over.    *)
RowsApart ==
  /\ title = None => \A n \in Numbers : episodes[n] = None
  /\ \A m, n \in Numbers :
       episodes[m] # None /\ episodes[n] # None /\ episodes[m].video = episodes[n].video
         => m = n
  /\ \A n \in Numbers : episodes[n] # None /\ episodes[n].video.by # First =>
       req[episodes[n].video.by].phase = "ok"

VideoKnown(o) ==
  req[o].op = "renumber" /\ req[o].video.by # First => req[req[o].video.by].phase = "ok"

Untouched(f, o) == o \notin f.temps /\ f.docAside[o] = None /\ f.prevAside[o] = None

NotStarted ==
  \A o \in Requests : req[o].phase \in {"idle", "stage"} =>
    /\ Untouched(folder, o)
    /\ \A d \in Requests : Untouched(trash[d], o)

Lonely ==
  \A o, p \in Requests : Active(o) /\ Active(p) /\ o # p => {o, p} \subseteq overlapped

Basic ==
  /\ Types
  /\ \A o \in Requests : WellMade(o) /\ VideoKnown(o)
  /\ RowsApart /\ NotStarted /\ Lonely

(* Episodes. *)
KeptIn(f, n) == Listed(n) => f.videos[n] = episodes[n].video

Contention ==
  \A p, q \in Requests : Open(p) /\ Open(q) /\ p # q =>
    Targets(req[p]) \cap Targets(req[q]) \subseteq contested

Renumbering(o) == Open(o) /\ req[o].op = "renumber"

Together ==
  \A o \in Requests : Renumbering(o) =>
    req[o].plan \cap contested = {} \/ req[o].plan \subseteq contested

Traced ==
  \A o \in Requests : Renumbering(o) =>
    \A n \in Numbers : episodes[n] # None /\ episodes[n].video = req[o].video =>
      n = req[o].from \/ {n, req[o].from} \subseteq contested

Progress(o, n) ==
  /\ req[o].op \in {"upload", "create"} =>
       /\ ~Listed(n)
       /\ n \in req[o].moved \/ req[o].phase = "register" => folder.videos[n] = Video(o, n)
  /\ req[o].op = "renumber" =>
       /\ ~Listed(To(o))
       /\ episodes[req[o].from] # None /\ episodes[req[o].from].video = req[o].video
       /\ req[o].phase = "rename" => KeptIn(folder, req[o].from)
       /\ req[o].phase \in {"renamed", "renameBack"} \cup Unsettled /\ Listed(req[o].from) =>
            folder.videos[To(o)] = req[o].video
  /\ req[o].op = "delete" =>
       /\ req[o].phase \in {"away", "purge"} => KeptIn(folder, n)
       /\ req[o].phase \in {"rows", "back"} \cup Unsettled => KeptIn(trash[o], n)

(* A renumbering or a deletion may have the video of episode n somewhere else.        *)
Busy(n) == \E o \in Requests :
  Open(o) /\ req[o].op \in {"renumber", "delete"} /\ n \in Targets(req[o])

EpisodesInOrder ==
  \A n \in Numbers \ contested :
    /\ ~Busy(n) => KeptIn(folder, n)
    /\ \A o \in Requests : Open(o) /\ n \in Targets(req[o]) => Progress(o, n)

Episodic == Contention /\ Together /\ Traced /\ EpisodesInOrder

(* Document of a series *)
Readable(f) == f.here /\ ReadSeries(f) # None
Binned(o) == \E p \in Requests \ {o} : trash[p].here

DocumentProgress(o) ==
  /\ req[o].phase \notin {"rows", "back", "purge"} => Readable(folder)
  /\ req[o].phase \in {"rows", "back"} => Readable(trash[o])
  /\ req[o].phase = "purge" => FALSE
  /\ req[o].phase \in {"prevOut", "prevIn"} => req[o].seen # None /\ folder.doc = req[o].seen
  /\ req[o].phase \in {"docOut", "docIn", "move", "row", "settle",
                       "undoDoc", "undoAside", "undoMoves"} => folder.prev # None

DocumentKept ==
  kind = "series" /\ overlapped = {} /\ title # None =>
    /\ (\A o \in Requests : ~Active(o) /\ ~trash[o].here) => Readable(folder)
    /\ \A o \in Requests : Active(o) /\ ~Binned(o) => DocumentProgress(o)

(* Alone *)
DocumentAt(o) ==
  LET b == req[o].before
      phase == req[o].phase
  IN  /\ req[o].seen = b.doc
      /\ phase \in ApplyPhases => o \in folder.temps
      /\ phase \in {"prevOut", "prevIn", "docOut", "undoMoves"} => folder.doc = b.doc
      /\ phase \in {"prevOut", "prevIn"} => b.doc # None
      /\ phase \in {"prevOut", "prevIn", "docOut"} => folder.docAside[o] = None
      /\ phase \in {"docIn", "row", "move", "undoDoc", "undoAside"} => folder.docAside[o] = b.doc
      /\ phase \in {"docIn", "undoAside"} => folder.doc = None
      /\ phase \in {"row", "move", "settle", "register"} => folder.doc = req[o].want
      /\ phase = "prevOut" => folder.prevAside[o] = None
      /\ kind = "series" /\ phase \notin {"prevOut", "prevIn", "register"} =>
           folder.prev = b.doc /\ folder.prevAside[o] = None

EpisodesAt(o) ==
  LET b == req[o].before
  IN  /\ title = IF req[o].op = "edit" /\ req[o].phase = "settle" THEN req[o].want ELSE b.title
      /\ b.title # None
      /\ \A n \in Numbers : folder.videos[n] = IF n \in req[o].moved THEN Video(o, n) ELSE b.videos[n]
      /\ \A n \in req[o].plan : b.videos[n] = None
      /\ episodes = b.episodes

DocumentSoFar(o) == DocumentAt(o) /\ EpisodesAt(o)

RenumberSoFar(o) ==
  LET b == req[o].before
      from == req[o].from
  IN  /\ b.episodes[from] # None /\ b.episodes[from].video = req[o].video
      /\ b.videos[To(o)] = None
      /\ req[o].phase \in {"renamed", "renameBack"} =>
           /\ b.videos[from] # None /\ folder.here
           /\ Read(folder) = b.doc /\ title = b.title /\ episodes = b.episodes
           /\ folder.videos = [b.videos EXCEPT ![To(o)] = b.videos[from], ![from] = None]

DeleteSoFar(o) ==
  LET b == req[o].before
  IN  /\ req[o].phase \in {"rows", "back"} =>
           /\ folder = NoFolder
           /\ Read(trash[o]) = b.doc /\ trash[o].videos = b.videos
           /\ title = b.title /\ episodes = b.episodes
      /\ req[o].phase = "purge" => title = None /\ ~folder.here

Undoing == {"undoDoc", "undoAside", "undoMoves"}

(* Something is undone only after a fault.                                            *)
Counted(o) ==
  req[o].since <= troubles /\ (req[o].phase \in Undoing => req[o].since < troubles)

(* A second fault has met the undoing of the first.                                   *)
Spoiled(o) == req[o].phase \in Undoing /\ req[o].since + 1 < troubles

SoFar(o) ==
  /\ req[o].phase \in {"stage", "install", "rename", "away"} => Shown = req[o].before
  /\ req[o].phase = "stage" => title # None /\ \A n \in req[o].plan : folder.videos[n] = None
  /\ req[o].op \in {"edit", "upload"} /\ req[o].phase # "stage" /\ ~Spoiled(o) =>
       DocumentSoFar(o)
  /\ req[o].op = "create" /\ req[o].phase = "register" =>
       /\ folder.doc = req[o].want
       /\ \A n \in req[o].plan : folder.videos[n] = Video(o, n)
  /\ req[o].op = "renumber" => RenumberSoFar(o)
  /\ req[o].op = "delete" => DeleteSoFar(o)

Alone == \A o \in Requests : Active(o) /\ o \notin overlapped => Counted(o) /\ SoFar(o)

-----------------------------------------------------------------------------------
(* What the operations on a folder keep of it.                                       *)
LEMMA BareFolders ==
  /\ NoFolder \in Trees /\ ~NoFolder.here /\ Fresh \in Trees /\ Fresh.here
  /\ \A o \in Requests : Untouched(NoFolder, o) /\ Untouched(Fresh, o)
BY ConstantsAssumption DEF NoFolder, Fresh, NoneAside, Trees, Folder, Untouched

LEMMA MadeIs ==
  ASSUME NEW f \in Trees
  PROVE  /\ Made(f) \in Trees /\ Made(f).here
         /\ Made(f).doc = f.doc /\ Made(f).prev = f.prev /\ Made(f).temps = f.temps
         /\ Made(f).docAside = f.docAside /\ Made(f).prevAside = f.prevAside
         /\ Made(f).videos = f.videos
BY DEF Trees, Folder, Made

LEMMA ReadIs ==
  ASSUME Types, NEW f
  PROVE  Read(f) = IF kind = "series" THEN ReadSeries(f) ELSE f.doc
BY DEF Types, Kinds, Read, ReadContent, ReadReading

LEMMA RecoveredIs ==
  ASSUME Types, NEW f \in Trees
  PROVE  /\ Recovered(f) \in Trees /\ Recovered(f).here = f.here
         /\ Recovered(f).doc = Read(f) /\ Recovered(f).prev = f.prev
         /\ Recovered(f).temps = f.temps
         /\ Recovered(f).docAside = f.docAside /\ Recovered(f).prevAside = f.prevAside
         /\ Recovered(f).videos = f.videos
         /\ Read(f) \in Versions \cup {None}
<1>1. Read(f) \in Versions \cup {None} /\ (f.doc = None /\ f.prev = None => Read(f) = None)
  BY ReadIs DEF Trees, Folder, ReadSeries
<1>2. f = NoFolder => f.doc = None /\ f.prev = None
  BY DEF NoFolder
<1>3. Recovered(f) \in Folder /\ Recovered(f).here = f.here
         /\ Recovered(f).doc = Read(f) /\ Recovered(f).prev = f.prev
         /\ Recovered(f).temps = f.temps
         /\ Recovered(f).docAside = f.docAside /\ Recovered(f).prevAside = f.prevAside
         /\ Recovered(f).videos = f.videos
  BY <1>1 DEF Trees, Folder, Recovered
<1>4. f = NoFolder => Recovered(f) = NoFolder
  BY <1>1, <1>2 DEF NoFolder, Recovered
<1> QED
  BY <1>1, <1>3, <1>4 DEF Trees

LEMMA PutBackIs ==
  ASSUME Types, NEW o \in Requests, NEW f \in Trees, NEW undos
  PROVE  /\ PutBack(o, f, undos) \in Trees
         /\ PutBack(o, f, undos).doc = IF "doc" \in undos THEN OrAside(f.docAside[o], f.doc) ELSE f.doc
         /\ kind = "series" => PutBack(o, f, undos).prev =
                                 IF "prev" \in undos THEN OrAside(f.prevAside[o], f.prev) ELSE f.prev
         /\ PutBack(o, f, undos).here = f.here /\ PutBack(o, f, undos).videos = f.videos
         /\ \A p \in Requests : Untouched(f, p) => Untouched(PutBack(o, f, undos), p)
<1> DEFINE g == PutBack(o, f, undos)
<1> DEFINE doc == IF "doc" \in undos THEN OrAside(f.docAside[o], f.doc) ELSE f.doc
<1> DEFINE docAside == [f.docAside EXCEPT ![o] = IF "doc" \in undos THEN None ELSE @]
<1> DEFINE prev == IF "prev" \in undos THEN PrevAfter(o, f) ELSE f.prev
<1> DEFINE prevAside == [f.prevAside EXCEPT ![o] = IF "prev" \in undos THEN None ELSE @]
<1> DEFINE temps == IF "temp" \in undos /\ Tidies(o) THEN f.temps \ {o} ELSE f.temps
<1>1. /\ f \in Folder
      /\ f.docAside[o] \in Versions \cup {None} /\ f.prevAside[o] \in Versions \cup {None}
  BY DEF Trees, Folder
<1>2. /\ g.here = f.here /\ g.videos = f.videos /\ g.doc = doc /\ g.docAside = docAside
      /\ g.prev = prev /\ g.prevAside = prevAside /\ g.temps = temps
  <2>1. g.here = f.here /\ g.videos = f.videos /\ g.temps = temps
    BY <1>1 DEF Folder, PutBack
  <2>2. g.doc = doc /\ g.prev = prev
    BY <1>1 DEF Folder, PutBack
  <2>3. g.docAside = docAside /\ g.prevAside = prevAside
    BY <1>1 DEF Folder, PutBack
  <2> QED
    BY <2>1, <2>2, <2>3
<1>3. doc \in Versions \cup {None} /\ prev \in Versions \cup {None}
  BY <1>1 DEF Folder, OrAside, PrevAfter
<1>4. kind = "series" => prev = IF "prev" \in undos THEN OrAside(f.prevAside[o], f.prev) ELSE f.prev
  BY DEF PrevAfter
<1>5. /\ docAside \in [Requests -> Versions \cup {None}]
      /\ prevAside \in [Requests -> Versions \cup {None}]
      /\ \A p \in Requests : f.docAside[p] = None => docAside[p] = None
      /\ \A p \in Requests : f.prevAside[p] = None => prevAside[p] = None
  BY <1>1 DEF Folder
<1>6. temps \in SUBSET Requests /\ \A p \in Requests : p \notin f.temps => p \notin temps
  BY <1>1 DEF Folder
<1>7. g \in Folder
  BY <1>1, <1>3, <1>5, <1>6 DEF Folder, PutBack
<1>8. ASSUME f = NoFolder PROVE g = NoFolder
  <2>1. /\ f.docAside = NoneAside /\ f.prevAside = NoneAside /\ f.doc = None /\ f.prev = None
        /\ f.temps = {} /\ ~f.here /\ f.videos = [n \in Numbers |-> None]
    BY <1>8 DEF NoFolder
  <2>2. docAside = NoneAside /\ prevAside = NoneAside
    BY <2>1 DEF NoneAside
  <2>3. doc = None /\ prev = None /\ temps = {}
    BY <2>1 DEF OrAside, PrevAfter, NoneAside
  <2> HIDE DEF g, doc, docAside, prev, prevAside, temps
  <2> QED
    BY <1>2, <1>7, <2>1, <2>2, <2>3 DEF Folder, NoFolder
<1> HIDE DEF g, doc, docAside, prev, prevAside, temps
<1>9. \A p \in Requests : Untouched(f, p) => Untouched(g, p)
  BY <1>2, <1>5, <1>6 DEF Untouched
<1>10. g \in Trees
  BY <1>2, <1>7, <1>8, <1>1 DEF Trees
<1> QED
  BY <1>2, <1>4, <1>9, <1>10 DEF g, doc, prev

LEMMA SettledIs ==
  ASSUME NEW o \in Requests, NEW f \in Trees
  PROVE  /\ Settled(o, f) \in Trees
         /\ Settled(o, f).doc = f.doc /\ Settled(o, f).prev = f.prev
         /\ Settled(o, f).here = f.here /\ Settled(o, f).videos = f.videos
         /\ Settled(o, f).prevAside[o] = None
         /\ \A p \in Requests : Untouched(f, p) => Untouched(Settled(o, f), p)
<1>1. /\ Settled(o, f) \in Folder
      /\ Settled(o, f).doc = f.doc /\ Settled(o, f).prev = f.prev
      /\ Settled(o, f).here = f.here /\ Settled(o, f).videos = f.videos
      /\ Settled(o, f).docAside = [f.docAside EXCEPT ![o] = None]
      /\ Settled(o, f).prevAside = [f.prevAside EXCEPT ![o] = None]
      /\ Settled(o, f).temps = f.temps \ {o}
  BY DEF Trees, Folder, Settled
<1>2. f = NoFolder => Settled(o, f) = NoFolder
  <2> SUFFICES ASSUME f = NoFolder PROVE Settled(o, f) = NoFolder
    OBVIOUS
  <2>1. f.docAside = NoneAside /\ f.prevAside = NoneAside /\ f.temps = {}
    BY DEF NoFolder
  <2>2. [NoneAside EXCEPT ![o] = None] = NoneAside
    BY DEF NoneAside
  <2> QED
    BY <1>1, <2>1, <2>2 DEF Folder, NoFolder
<1> QED
  BY <1>1, <1>2 DEF Trees, Untouched, Folder

LEMMA MovedIs ==
  ASSUME NEW f \in Trees, NEW n \in Numbers, NEW m \in Numbers, m # n, f.here
  PROVE  /\ Moved(f, n, m) \in Trees /\ Moved(f, n, m).here
         /\ Moved(f, n, m).doc = f.doc /\ Moved(f, n, m).prev = f.prev
         /\ Moved(f, n, m).temps = f.temps
         /\ Moved(f, n, m).docAside = f.docAside /\ Moved(f, n, m).prevAside = f.prevAside
         /\ Moved(f, n, m).videos = [f.videos EXCEPT ![m] = f.videos[n], ![n] = None]
BY DEF Trees, Folder, Moved

LEMMA MovedLeaves ==
  ASSUME NEW f \in Trees, NEW n \in Numbers, NEW m \in Numbers, m # n, f.here, NEW p \in Requests,
         Untouched(f, p)
  PROVE  Untouched(Moved(f, n, m), p)
<1>1. /\ Moved(f, n, m).temps = f.temps
      /\ Moved(f, n, m).docAside = f.docAside /\ Moved(f, n, m).prevAside = f.prevAside
  BY DEF Trees, Folder, Moved
<1> QED
  BY <1>1 DEF Untouched

-----------------------------------------------------------------------------------
(* What holds at first.                                                              *)
LEMMA FirstNumberIs == FirstNumber \in Numbers
BY ConstantsAssumption DEF FirstNumber

LEMMA InitTypes == ASSUME Init PROVE Types
<1> USE ConstantsAssumption, NoneAssumption
<1>1. PICK there \in BOOLEAN, prev \in {None, First}, shown \in SUBSET Numbers,
           offline \in SUBSET Numbers :
       /\ shown \cap offline = {}
       /\ IF there
            THEN /\ kind # "series" => shown = {FirstNumber} /\ offline = {}
                 /\ title = First
            ELSE /\ shown = {} /\ offline = {} /\ prev = None
                 /\ title = None
       /\ folder = IF there
            THEN [Fresh EXCEPT !.doc = First, !.prev = prev,
                    !.videos = [n \in Numbers |-> IF n \in shown
                                  THEN [by |-> First, number |-> n] ELSE None]]
            ELSE NoFolder
       /\ episodes = [n \in Numbers |-> IF n \in shown \cup offline
            THEN [video |-> [by |-> First, number |-> n], on |-> n \in shown] ELSE None]
  BY DEF Init
<1>2. \A n \in Numbers : [by |-> First, number |-> n] \in Videos
  BY DEF Videos, Versions
<1>3. [n \in Numbers |-> IF n \in shown THEN [by |-> First, number |-> n] ELSE None]
        \in [Numbers -> Videos \cup {None}]
  BY <1>2
<1>4. folder \in Trees
  BY <1>1, <1>3, BareFolders DEF Trees, Folder, Versions
<1>5. episodes \in [Numbers -> EpisodeRow \cup {None}]
  BY <1>1, <1>2 DEF EpisodeRow
<1>6. title \in Versions \cup {None}
  BY <1>1 DEF Versions
<1>7. Idle \in Request
  BY DEF Idle, Request, Ops, Phases
<1> QED
  BY <1>4, <1>5, <1>6, <1>7, BareFolders DEF Init, Types

LEMMA InitBasic == ASSUME Init PROVE Basic
<1> USE ConstantsAssumption, NoneAssumption
<1>1. Types
  BY InitTypes
<1>2. \A o \in Requests : req[o] = Idle /\ trash[o] = NoFolder
  BY DEF Init
<1>3. \A o \in Requests : WellMade(o) /\ VideoKnown(o)
  BY <1>2, BareFolders DEF WellMade, PhaseFits, AskFits, MovedFits, TrashFits, VideoKnown, Idle, ApplyPhases
<1>4. RowsApart
  <2>1. \A n \in Numbers : episodes[n] # None =>
          episodes[n].video = [by |-> First, number |-> n] /\ title = First
    BY DEF Init, EpisodeRow
  <2>2. \A m, n \in Numbers :
          [by |-> First, number |-> m] = [by |-> First, number |-> n] => m = n
    <3> TAKE m, n \in Numbers
    <3>1. [by |-> First, number |-> m].number = m /\ [by |-> First, number |-> n].number = n
      OBVIOUS
    <3> QED
      BY <3>1
  <2>3. First # None
    OBVIOUS
  <2>4. ASSUME NEW n \in Numbers, episodes[n] # None
        PROVE  episodes[n].video.by = First /\ title = First
    <3>1. [by |-> First, number |-> n].by = First
      OBVIOUS
    <3> QED
      BY <2>1, <2>4, <3>1
  <2>5. ASSUME NEW m \in Numbers, NEW n \in Numbers, episodes[m] # None, episodes[n] # None,
               episodes[m].video = episodes[n].video
        PROVE  m = n
    <3>1. episodes[m].video = [by |-> First, number |-> m]
      BY <2>1, <2>5
    <3>2. episodes[n].video = [by |-> First, number |-> n]
      BY <2>1, <2>5
    <3>3. [by |-> First, number |-> m] = [by |-> First, number |-> n]
      BY <3>1, <3>2, <2>5, Zenon
    <3> QED
      BY <2>2, <3>3, Zenon
  <2> QED
    BY <2>3, <2>4, <2>5 DEF RowsApart
<1>5. NotStarted
  <2>1. \A o \in Requests : Untouched(folder, o)
    BY DEF Init, Untouched, Fresh, NoFolder, NoneAside
  <2> QED
    BY <1>2, <2>1, BareFolders DEF NotStarted
<1>6. Lonely
  BY <1>2 DEF Lonely, Active, Idle
<1> QED
  BY <1>1, <1>3, <1>4, <1>5, <1>6 DEF Basic

-----------------------------------------------------------------------------------
(* A request at work takes a step.                                                   *)
Onward(o) ==
  /\ req' \in [Requests -> Request]
  /\ \A p \in Requests \ {o} : req'[p] = req[p]
  /\ req'[o].op = req[o].op /\ req'[o].want = req[o].want /\ req'[o].plan = req[o].plan
  /\ req'[o].from = req[o].from /\ req'[o].video = req[o].video
  /\ req'[o].before = req[o].before /\ req'[o].since = req[o].since

LEMMA GoIs ==
  ASSUME Types, NEW o \in Requests, NEW phase \in Phases, Go(o, phase)
  PROVE  /\ Onward(o) /\ req'[o].phase = phase
         /\ req'[o].seen = req[o].seen /\ req'[o].reuse = req[o].reuse
         /\ req'[o].moved = req[o].moved
<1>1. /\ req \in [Requests -> Request] /\ req[o] \in Request
      /\ req' = [req EXCEPT ![o] = [req[o] EXCEPT !.phase = phase]]
  BY DEF Types, Go
<1>2. [req[o] EXCEPT !.phase = phase] \in Request
  BY <1>1 DEF Request
<1>3. /\ req' \in [Requests -> Request] /\ \A p \in Requests \ {o} : req'[p] = req[p]
      /\ req'[o] = [req[o] EXCEPT !.phase = phase]
  BY <1>1, <1>2
<1> QED
  BY <1>1, <1>3 DEF Onward, Request

(* Some faults, or none.                                                             *)
Spent == troubles' \in troubles..MaxTroubles

LEMMA SpentIs ==
  ASSUME Types
  PROVE  /\ Trouble \/ UNCHANGED troubles => Spent
         /\ \A k \in Nat : Troubles(k) => Spent
         /\ Spent => troubles' \in 0..MaxTroubles /\ troubles <= troubles'
BY ConstantsAssumption DEF Types, Trouble, Troubles, Spent

LEMMA OnwardIsWellMade ==
  ASSUME Basic, NEW o \in Requests, Onward(o), UNCHANGED kind,
         PhaseFits(o)', MovedFits(o)', TrashFits(o)',
         \A p \in Requests \ {o} : trash'[p] = trash[p],
         req[o].phase # "ok"
  PROVE  \A p \in Requests : WellMade(p)' /\ VideoKnown(p)'
<1>1. ASSUME NEW p \in Requests \ {o}
      PROVE  WellMade(p)'
  <2>1. WellMade(p) /\ req'[p] = req[p] /\ trash'[p] = trash[p]
    BY DEF Basic, Onward
  <2>2. PhaseFits(p)'
    BY <2>1 DEF WellMade, PhaseFits
  <2>3. AskFits(p)'
    BY <2>1 DEF WellMade, AskFits, To
  <2>4. MovedFits(p)' /\ TrashFits(p)'
    BY <2>1 DEF WellMade, MovedFits, TrashFits
  <2> QED
    BY <2>2, <2>3, <2>4 DEF WellMade
<1>2. WellMade(o)'
  <2>1. AskFits(o)'
    BY DEF Basic, WellMade, Onward, AskFits, To
  <2> QED
    BY <2>1 DEF WellMade
<1>3. ASSUME NEW p \in Requests
      PROVE  VideoKnown(p)'
  <2>1. req'[p].op = req[p].op /\ req'[p].video = req[p].video
    BY DEF Onward
  <2>2. VideoKnown(p)
    BY DEF Basic
  <2>3. ASSUME NEW q \in Requests, req[q].phase = "ok"
        PROVE  req'[q].phase = "ok"
    BY <2>3 DEF Onward
  <2>4. req[p].op = "renumber" => req[p].video.by \in Versions
    BY DEF Basic, WellMade, AskFits, Videos
  <2> QED
    BY <2>1, <2>2, <2>3, <2>4 DEF VideoKnown, Versions
<1> QED
  BY <1>1, <1>2, <1>3

Leaves(f, g, o) == \A p \in Requests \ {o} : Untouched(f, p) => Untouched(g, p)

LEMMA OnwardIsBasic ==
  ASSUME Basic, NEW o \in Requests, Active(o), Onward(o), UNCHANGED <<kind, history>>,
         troubles' \in 0..MaxTroubles,
         folder' \in Trees, trash' \in [Requests -> Trees],
         title' \in Versions \cup {None}, episodes' \in [Numbers -> EpisodeRow \cup {None}],
         req'[o].phase \notin {"idle", "stage"},
         PhaseFits(o)', MovedFits(o)', TrashFits(o)',
         \A p \in Requests \ {o} : trash'[p] = trash[p],
         Leaves(folder, folder', o) \/ Leaves(trash[o], folder', o),
         Leaves(folder, trash'[o], o) \/ Leaves(trash[o], trash'[o], o),
         RowsApart'
  PROVE  Basic'
<1>1. Types'
  BY DEF Basic, Types, Onward, history
<1>2. req[o].phase # "ok"
  BY DEF Active, Answers, Unsettled
<1>3. \A p \in Requests : WellMade(p)' /\ VideoKnown(p)'
  BY <1>2, OnwardIsWellMade
<1>4. NotStarted'
  <2> SUFFICES ASSUME NEW p \in Requests, req'[p].phase \in {"idle", "stage"}
               PROVE  Untouched(folder', p) /\ \A d \in Requests : Untouched(trash'[d], p)
    BY DEF NotStarted, Untouched
  <2>1. p # o /\ req[p].phase \in {"idle", "stage"}
    BY DEF Onward
  <2>2. Untouched(folder, p) /\ \A d \in Requests : Untouched(trash[d], p)
    BY <2>1 DEF Basic, NotStarted
  <2> QED
    BY <2>1, <2>2 DEF Leaves
<1>5. Lonely'
  <2>1. \A p \in Requests : Active(p)' => Active(p)
    BY DEF Active, Onward
  <2> QED
    BY <2>1 DEF Basic, Lonely, history
<1> QED
  BY <1>1, <1>3, <1>4, <1>5 DEF Basic

(* Most steps leave the rows alone.                                                  *)
LEMMA RowsStay ==
  ASSUME Basic, NEW o \in Requests, Active(o), Onward(o), UNCHANGED catalogue
  PROVE  RowsApart'
<1>1. \A q \in Requests : req[q].phase = "ok" => req'[q].phase = "ok"
  BY DEF Onward, Active, Answers, Unsettled
<1>2. \A n \in Numbers : episodes[n] # None => episodes[n].video.by \in Versions
  BY DEF Basic, Types, EpisodeRow, Videos
<1> QED
  BY <1>1, <1>2 DEF Basic, RowsApart, catalogue, Versions

-----------------------------------------------------------------------------------
(* The steps of a request, and what they do to it.                                   *)
FolderStep(o) ==
  /\ Active(o) /\ Onward(o) /\ req'[o].phase \notin {"idle", "stage"}
  /\ UNCHANGED <<kind, trash, catalogue, history>> /\ Spent
  /\ folder' \in Trees /\ Leaves(folder, folder', o)
  /\ PhaseFits(o)' /\ MovedFits(o)' /\ TrashFits(o)'

LEMMA FolderStepBasic == ASSUME Basic, NEW o \in Requests, FolderStep(o) PROVE Basic'
<1>1. Types /\ RowsApart'
  BY RowsStay DEF Basic, FolderStep
<1>2. title' = title /\ episodes' = episodes /\ trash' = trash /\ UNCHANGED <<kind, history>>
  BY DEF FolderStep, catalogue
<1>3. Leaves(trash[o], trash'[o], o)
  BY <1>2 DEF Leaves
<1>4. troubles' \in 0..MaxTroubles
  BY <1>1, SpentIs DEF FolderStep
<1> QED
  BY <1>1, <1>2, <1>3, <1>4, OnwardIsBasic DEF FolderStep, Types

(* Only the phase changes.                                                           *)
Quiet(o, phase) ==
  /\ Go(o, phase)
  /\ UNCHANGED <<kind, disk, catalogue, history>> /\ Spent

LEMMA QuietIs ==
  ASSUME Basic, NEW o \in Requests, Active(o), NEW phase \in Phases \ {"idle", "stage"},
         Quiet(o, phase), PhaseFits(o)', MovedFits(o)', TrashFits(o)'
  PROVE  FolderStep(o) /\ req'[o].phase = phase
BY GoIs DEF FolderStep, Quiet, Basic, disk, Types, Leaves

LEMMA QuietSteps ==
  ASSUME Basic, NEW o \in Requests
  PROVE  /\ StageFails(o) => Quiet(o, "refused") /\ At(o, "stage")
         /\ RowFails(o) => Quiet(o, "undoDoc") /\ At(o, "row")
         /\ RowTorn(o) => Quiet(o, "torn") /\ At(o, "row")
         /\ MoveFails(o) => Quiet(o, "undoDoc") /\ At(o, "move")
         /\ InstallFails(o) => Quiet(o, "refused") /\ At(o, "install")
         /\ RenameFails(o) => Quiet(o, "refused") /\ At(o, "rename")
         /\ RenameBackFails(o) => Quiet(o, "broken") /\ At(o, "renameBack")
         /\ AwayFails(o) => Quiet(o, "refused") /\ At(o, "away")
         /\ DeleteRowsFail(o) => /\ Quiet(o, IF trash[o].here THEN "back" ELSE "refused")
                                 /\ At(o, "rows")
         /\ BackFails(o) => Quiet(o, "broken") /\ At(o, "back")
         /\ PurgeFails(o) => Quiet(o, "ok") /\ At(o, "purge")
<1>1. Trouble \/ UNCHANGED troubles => Spent
  BY SpentIs DEF Basic
<1> QED
  BY <1>1 DEF Quiet, StageFails, RowFails, RowTorn, MoveFails, InstallFails, RenameFails,
              RenameBackFails, AwayFails, DeleteRowsFail, BackFails, PurgeFails

LEMMA FitsIs ==
  ASSUME Basic, NEW o \in Requests
  PROVE  /\ PhaseFits(o) /\ AskFits(o) /\ MovedFits(o) /\ TrashFits(o)
         /\ req[o].op \in Ops /\ req[o].phase \in Phases
BY DEF Basic, WellMade, Types, Request

LEMMA QuietFits ==
  ASSUME Basic, NEW o \in Requests, NEW phase \in Phases, Quiet(o, phase),
         \/ At(o, "stage") /\ phase = "refused"
         \/ req[o].phase \in {"row", "move"} /\ phase = "undoDoc"
         \/ At(o, "row") /\ phase = "torn"
         \/ req[o].phase \in {"renameBack", "back"} /\ phase = "broken"
         \/ req[o].phase \in {"install", "rename", "away"} /\ phase = "refused"
         \/ At(o, "rows") /\ trash[o].here /\ phase = "back"
         \/ At(o, "rows") /\ ~trash[o].here /\ phase = "refused"
         \/ At(o, "purge") /\ phase = "ok"
  PROVE  FolderStep(o) /\ req'[o].phase = phase
<1>1. /\ Onward(o) /\ req'[o].phase = phase /\ req'[o].moved = req[o].moved
      /\ trash' = trash
  BY GoIs DEF Quiet, Basic, disk
<1>2. Active(o) /\ phase \notin {"idle", "stage"}
  BY DEF Active, Answers, Unsettled, At
<1>3. PhaseFits(o)' /\ MovedFits(o)' /\ TrashFits(o)'
  BY <1>1, FitsIs DEF Onward, At, PhaseFits, MovedFits, TrashFits, DocumentPhases, ApplyPhases, Ops
<1> QED
  BY <1>1, <1>2, <1>3, QuietIs

LEMMA QuietStepIs ==
  ASSUME Basic, NEW o \in Requests,
         \/ StageFails(o) \/ RowFails(o) \/ RowTorn(o) \/ MoveFails(o) \/ InstallFails(o)
         \/ RenameFails(o) \/ RenameBackFails(o) \/ AwayFails(o) \/ DeleteRowsFail(o)
         \/ BackFails(o) \/ PurgeFails(o)
  PROVE  /\ FolderStep(o)
         /\ \E phase \in {"refused", "undoDoc", "torn", "back", "broken", "ok"} : Quiet(o, phase)
<1>1. {"refused", "undoDoc", "torn", "back", "broken", "ok"} \subseteq Phases
  BY DEF Phases, Answers, Unsettled
<1>2. CASE StageFails(o)
  BY <1>1, <1>2, QuietSteps, QuietFits
<1>3. CASE RowFails(o) \/ MoveFails(o) \/ RowTorn(o)
  BY <1>1, <1>3, QuietSteps, QuietFits DEF At
<1>4. CASE InstallFails(o) \/ RenameFails(o) \/ AwayFails(o)
  BY <1>1, <1>4, QuietSteps, QuietFits DEF At
<1>5. CASE DeleteRowsFail(o)
  BY <1>1, <1>5, QuietSteps, QuietFits
<1>6. CASE PurgeFails(o)
  BY <1>1, <1>6, QuietSteps, QuietFits
<1>7. CASE RenameBackFails(o) \/ BackFails(o)
  BY <1>1, <1>7, QuietSteps, QuietFits DEF At
<1> QED
  BY <1>2, <1>3, <1>4, <1>5, <1>6, <1>7

LEMMA StageIs ==
  ASSUME Basic, NEW o \in Requests, StageContent(o) \/ StageSeries(o) \/ StageReading(o)
  PROVE  /\ At(o, "stage") /\ FolderStep(o)
         /\ folder'.here /\ folder'.doc = Read(folder) /\ folder'.prev = folder.prev
         /\ folder'.temps = folder.temps \cup {o}
         /\ folder'.docAside = folder.docAside /\ folder'.prevAside = folder.prevAside
         /\ folder'.videos = folder.videos
         /\ req'[o].seen = Read(folder) /\ req'[o].moved = req[o].moved
         /\ req'[o].phase = IF kind # "reading" /\ Read(folder) # None
                              THEN "prevOut" ELSE "docOut"
<1>1. Types /\ folder \in Trees
  BY DEF Basic, Types
<1> DEFINE f == IF kind = "series" THEN Recovered(folder) ELSE folder
<1>2. /\ f \in Trees /\ f.doc = Read(folder) /\ f.prev = folder.prev /\ f.temps = folder.temps
      /\ f.docAside = folder.docAside /\ f.prevAside = folder.prevAside
      /\ f.videos = folder.videos /\ Read(folder) \in Versions \cup {None}
  BY <1>1, RecoveredIs, ReadIs
<1>3. Staged(o, f) /\ At(o, "stage")
  BY <1>1 DEF StageContent, StageSeries, StageReading, Types, Kinds, Staged
<1> HIDE DEF f
<1>4. /\ Made(f) \in Trees /\ Made(f).here
      /\ Made(f).doc = f.doc /\ Made(f).prev = f.prev /\ Made(f).temps = f.temps
      /\ Made(f).docAside = f.docAside /\ Made(f).prevAside = f.prevAside
      /\ Made(f).videos = f.videos
  BY <1>2, MadeIs
<1>5. folder' = [Made(f) EXCEPT !.temps = Made(f).temps \cup {o}]
  BY <1>3 DEF Staged
<1>6. /\ folder' \in Trees /\ folder'.here /\ folder'.doc = Made(f).doc
      /\ folder'.prev = Made(f).prev /\ folder'.temps = Made(f).temps \cup {o}
      /\ folder'.docAside = Made(f).docAside /\ folder'.prevAside = Made(f).prevAside
      /\ folder'.videos = Made(f).videos
  BY <1>4, <1>5 DEF Trees, Folder
<1>7. AfterStage(f) = IF kind # "reading" /\ Read(folder) # None THEN "prevOut" ELSE "docOut"
  BY <1>2 DEF AfterStage
<1>8. req' = [req EXCEPT ![o].seen = f.doc, ![o].phase = AfterStage(f),
       ![o].reuse = {n \in req[o].plan : episodes[n] # None /\ ~episodes[n].on}]
  BY <1>3 DEF Staged
<1>9. AfterStage(f) \in Phases
  BY <1>7 DEF Phases, ApplyPhases
<1> DEFINE reuse == {n \in req[o].plan : episodes[n] # None /\ ~episodes[n].on}
<1>10. reuse \in SUBSET Numbers
  BY <1>1 DEF Types, Request
<1> HIDE DEF reuse
<1>11. req' = [req EXCEPT ![o] = [[[req[o] EXCEPT !.seen = f.doc] EXCEPT !.phase = AfterStage(f)]
                                    EXCEPT !.reuse = reuse]]
  BY <1>8, <1>1 DEF reuse, Types
<1>12. /\ Onward(o) /\ req'[o].seen = f.doc /\ req'[o].moved = req[o].moved
       /\ req'[o].phase = AfterStage(f)
  <2>1. req \in [Requests -> Request] /\ req[o] \in Request
    BY <1>1 DEF Types
  <2> DEFINE r == [[[req[o] EXCEPT !.seen = f.doc] EXCEPT !.phase = AfterStage(f)]
                     EXCEPT !.reuse = reuse]
  <2>2. r \in Request /\ r.seen = f.doc /\ r.moved = req[o].moved /\ r.phase = AfterStage(f)
        /\ r.op = req[o].op /\ r.want = req[o].want /\ r.plan = req[o].plan
        /\ r.from = req[o].from /\ r.video = req[o].video /\ r.before = req[o].before
        /\ r.since = req[o].since
    BY <2>1, <1>2, <1>9, <1>10 DEF Request
  <2> HIDE DEF r
  <2>3. req' = [req EXCEPT ![o] = r]
    BY <1>11 DEF r
  <2> QED
    BY <2>1, <2>2, <2>3 DEF Onward
<1>13. /\ Active(o) /\ UNCHANGED <<kind, trash, catalogue, history>> /\ UNCHANGED troubles
  BY <1>3 DEF Staged, Active, At, Answers, Unsettled
<1>14. Leaves(folder, folder', o)
  BY <1>2, <1>4, <1>6 DEF Leaves, Untouched
<1>15. PhaseFits(o)' /\ MovedFits(o)' /\ TrashFits(o)'
  BY <1>3, <1>7, <1>12, <1>13, FitsIs
     DEF Onward, At, PhaseFits, MovedFits, TrashFits, DocumentPhases, ApplyPhases, Ops
<1>16. req'[o].phase \notin {"idle", "stage"}
  BY <1>7, <1>12
<1> QED
  BY <1>1, <1>2, <1>3, <1>4, <1>6, <1>7, <1>12, <1>13, <1>14, <1>15, <1>16, SpentIs DEF FolderStep

(* A step that goes on to a phase and changes the folder.                            *)
LEMMA HopIs ==
  ASSUME Basic, NEW o \in Requests, Active(o), NEW phase \in Phases \ {"idle", "stage"},
         Go(o, phase), UNCHANGED <<kind, trash, catalogue, history>>,
         Trouble \/ UNCHANGED troubles \/ Spent,
         folder' \in Trees, Leaves(folder, folder', o),
         \/ req[o].op \in {"edit", "upload"} /\ phase \in ApplyPhases /\ req[o].phase \in ApplyPhases
         \/ req[o].op = "edit" /\ At(o, "docIn") /\ phase = "row"
         \/ req[o].op = "upload" /\ At(o, "docIn") /\ phase = "move"
         \/ req[o].op \in {"edit", "upload"} /\ phase \in {"undoAside", "undoMoves"}
         \/ req[o].op = "edit" /\ phase = "ok"
         \/ req[o].op = "upload" /\ At(o, "settle") /\ phase = "register"
         \/ req[o].op = "create" /\ phase = "register"
         \/ req[o].op = "renumber" /\ phase \in {"renamed", "renameBack"}
         \/ req[o].op \in {"create", "upload"} /\ phase = "preserved"
         \/ req[o].op \notin {"none", "delete"} /\ phase = "refused"
  PROVE  /\ FolderStep(o) /\ req'[o].phase = phase
         /\ req'[o].seen = req[o].seen /\ req'[o].reuse = req[o].reuse
         /\ req'[o].moved = req[o].moved
<1>1. /\ Onward(o) /\ req'[o].phase = phase /\ req'[o].moved = req[o].moved
      /\ req'[o].seen = req[o].seen /\ req'[o].reuse = req[o].reuse
  BY GoIs DEF Basic
<1>2. PhaseFits(o)' /\ MovedFits(o)' /\ TrashFits(o)'
  BY <1>1, FitsIs DEF Onward, At, PhaseFits, MovedFits, TrashFits, DocumentPhases, ApplyPhases, Ops
<1>3. Spent
  BY SpentIs DEF Basic
<1> QED
  BY <1>1, <1>2, <1>3 DEF FolderStep

LEMMA PrevOutIs ==
  ASSUME Basic, NEW o \in Requests, PrevOut(o)
  PROVE  /\ At(o, "prevOut") /\ FolderStep(o) /\ req'[o].phase = "prevIn"
         /\ req'[o].seen = req[o].seen /\ req'[o].moved = req[o].moved
         /\ folder' = [folder EXCEPT !.prevAside[o] = folder.prev, !.prev = None]
<1>1. folder \in Trees /\ folder' = [folder EXCEPT !.prevAside[o] = folder.prev, !.prev = None]
  BY DEF Basic, Types, PrevOut
<1>2. folder' \in Trees
  <2>1. CASE folder = NoFolder
    BY <1>1, <2>1, BareFolders DEF NoFolder, NoneAside
  <2>2. CASE folder.here
    BY <1>1, <2>2 DEF Trees, Folder
  <2> QED
    BY <1>1, <2>1, <2>2 DEF Trees
<1>3. Leaves(folder, folder', o)
  BY <1>1 DEF Leaves, Untouched, Trees, Folder
<1>4. Active(o) /\ req[o].op \in {"edit", "upload"}
  BY FitsIs DEF PrevOut, At, Active, Answers, Unsettled, PhaseFits, Ops
<1>5. /\ At(o, "prevOut") /\ Go(o, "prevIn") /\ "prevIn" \in Phases
      /\ UNCHANGED <<kind, trash, catalogue, troubles, history>>
  BY DEF PrevOut, Phases, ApplyPhases
<1> QED
  BY <1>1, <1>2, <1>3, <1>4, <1>5, HopIs DEF At, ApplyPhases

LEMMA PrevInIs ==
  ASSUME Basic, NEW o \in Requests, PrevIn(o)
  PROVE  /\ At(o, "prevIn") /\ FolderStep(o) /\ req'[o].phase = "docOut"
         /\ req'[o].seen = req[o].seen /\ req'[o].moved = req[o].moved
         /\ o \in folder.temps
         /\ folder' = [folder EXCEPT !.prev = req[o].seen,
                         !.prevAside[o] = IF kind = "film" THEN folder.prevAside[o] ELSE None]
<1>1. /\ folder \in Trees /\ o \in folder.temps /\ req[o].seen \in Versions \cup {None}
      /\ folder' = [folder EXCEPT !.prev = req[o].seen,
                         !.prevAside[o] = IF kind = "film" THEN folder.prevAside[o] ELSE None]
  BY DEF Basic, Types, PrevIn, Request
<1>2. folder.here
  BY <1>1 DEF Trees, NoFolder
<1>3. folder' \in Trees
  BY <1>1, <1>2 DEF Trees, Folder
<1>4. Leaves(folder, folder', o)
  BY <1>1 DEF Leaves, Untouched, Trees, Folder
<1>5. Active(o) /\ req[o].op \in {"edit", "upload"}
  BY FitsIs DEF PrevIn, At, Active, Answers, Unsettled, PhaseFits, Ops
<1>6. /\ At(o, "prevIn") /\ Go(o, "docOut") /\ "docOut" \in Phases
      /\ UNCHANGED <<kind, trash, catalogue, troubles, history>>
  BY DEF PrevIn, Phases, ApplyPhases
<1> QED
  BY <1>1, <1>3, <1>4, <1>5, <1>6, HopIs DEF At, ApplyPhases

LEMMA DocOutIs ==
  ASSUME Basic, NEW o \in Requests, DocOut(o)
  PROVE  /\ At(o, "docOut") /\ FolderStep(o) /\ req'[o].phase = "docIn"
         /\ req'[o].seen = req[o].seen /\ req'[o].moved = req[o].moved
         /\ folder' = [folder EXCEPT !.docAside[o] = folder.doc, !.doc = None]
<1>1. folder \in Trees /\ folder' = [folder EXCEPT !.docAside[o] = folder.doc, !.doc = None]
  BY DEF Basic, Types, DocOut
<1>2. folder' \in Trees
  <2>1. CASE folder = NoFolder
    BY <1>1, <2>1, BareFolders DEF NoFolder, NoneAside
  <2>2. CASE folder.here
    BY <1>1, <2>2 DEF Trees, Folder
  <2> QED
    BY <1>1, <2>1, <2>2 DEF Trees
<1>3. Leaves(folder, folder', o)
  BY <1>1 DEF Leaves, Untouched, Trees, Folder
<1>4. Active(o) /\ req[o].op \in {"edit", "upload"}
  BY FitsIs DEF DocOut, At, Active, Answers, Unsettled, PhaseFits, Ops
<1>5. /\ At(o, "docOut") /\ Go(o, "docIn") /\ "docIn" \in Phases
      /\ UNCHANGED <<kind, trash, catalogue, troubles, history>>
  BY DEF DocOut, Phases, ApplyPhases
<1> QED
  BY <1>1, <1>2, <1>3, <1>4, <1>5, HopIs DEF At, ApplyPhases

LEMMA DocInIs ==
  ASSUME Basic, NEW o \in Requests, DocIn(o)
  PROVE  /\ At(o, "docIn") /\ FolderStep(o)
         /\ req'[o].phase = IF req[o].op = "upload" THEN "move" ELSE "row"
         /\ req'[o].seen = req[o].seen /\ req'[o].moved = req[o].moved
         /\ req[o].op \in {"edit", "upload"} /\ folder.here
         /\ folder' = [folder EXCEPT !.doc = req[o].want, !.temps = folder.temps \ {o}]
<1>1. /\ folder \in Trees /\ o \in folder.temps /\ req[o].want \in Versions \cup {None}
      /\ folder' = [folder EXCEPT !.doc = req[o].want, !.temps = folder.temps \ {o}]
  BY DEF Basic, Types, DocIn, Request
<1>2. folder.here
  BY <1>1 DEF Trees, NoFolder
<1>3. folder' \in Trees
  BY <1>1, <1>2 DEF Trees, Folder
<1>4. Leaves(folder, folder', o)
  BY <1>1 DEF Leaves, Untouched, Trees, Folder
<1>5. Active(o) /\ req[o].op \in {"edit", "upload"}
  BY FitsIs DEF DocIn, At, Active, Answers, Unsettled, PhaseFits, Ops
<1> DEFINE next == IF req[o].op = "upload" THEN "move" ELSE "row"
<1>6. /\ At(o, "docIn") /\ Go(o, next) /\ next \in Phases
      /\ UNCHANGED <<kind, trash, catalogue, troubles, history>>
  BY DEF DocIn, Phases, ApplyPhases
<1> QED
  BY <1>1, <1>2, <1>3, <1>4, <1>5, <1>6, HopIs

LEMMA ApplyFailsIs ==
  ASSUME Basic, NEW o \in Requests, ApplyFails(o)
  PROVE  /\ req[o].phase \in ApplyPhases /\ FolderStep(o) /\ req'[o].phase = "refused"
         /\ req[o].op \in {"edit", "upload"}
         /\ req'[o].seen = req[o].seen /\ req'[o].moved = req[o].moved
         /\ \E undos \in SUBSET Undos :
              /\ folder' = PutBack(o, folder, undos)
              /\ o \in folder.temps /\ undos # Undos => troubles' = troubles + 2
<1>1. PICK undos \in SUBSET Undos :
        /\ \/ Troubles(1 + Faults(undos))
           \/ req[o].phase \in {"prevIn", "docIn"} /\ o \notin folder.temps /\ Troubles(Faults(undos))
        /\ folder' = PutBack(o, folder, undos)
  BY DEF ApplyFails
<1>2. Types /\ folder \in Trees /\ troubles \in Nat
  BY ConstantsAssumption DEF Basic, Types
<1>3. folder' \in Trees /\ Leaves(folder, folder', o)
  BY <1>1, <1>2, PutBackIs DEF Leaves
<1>4. Spent
  <2>1. Faults(undos) \in Nat /\ 1 + Faults(undos) \in Nat
    BY DEF Faults
  <2> QED
    BY <1>1, <1>2, <2>1, SpentIs
<1>5. /\ req[o].phase \in ApplyPhases /\ Go(o, "refused") /\ "refused" \in Phases
      /\ UNCHANGED <<kind, trash, catalogue, history>>
  BY DEF ApplyFails, Phases, Answers, Unsettled
<1>6. Active(o) /\ req[o].op \in {"edit", "upload"}
  BY <1>5, FitsIs DEF Active, Answers, Unsettled, PhaseFits, Ops, ApplyPhases
<1>7. o \in folder.temps /\ undos # Undos => troubles' = troubles + 2
  BY <1>1, <1>2 DEF Troubles, Faults
<1>8. /\ FolderStep(o) /\ req'[o].phase = "refused"
      /\ req'[o].seen = req[o].seen /\ req'[o].moved = req[o].moved
  BY <1>3, <1>4, <1>5, <1>6, HopIs
<1> QED
  BY <1>1, <1>5, <1>6, <1>7, <1>8

LEMMA PosterFailsIs ==
  ASSUME Basic, NEW o \in Requests, PosterFails(o)
  PROVE  /\ At(o, "docIn") /\ kind # "film" /\ FolderStep(o) /\ req'[o].phase = "refused"
         /\ req'[o].seen = req[o].seen /\ req'[o].moved = req[o].moved
         /\ folder'.doc = folder.doc /\ folder'.prev = folder.prev /\ folder'.here = folder.here
         /\ folder'.videos = folder.videos
<1>1. /\ folder \in Trees
      /\ folder' = IF req[o].op = "upload" THEN [folder EXCEPT !.temps = folder.temps \ {o}] ELSE folder
  BY DEF Basic, Types, PosterFails
<1>2. /\ folder'.doc = folder.doc /\ folder'.prev = folder.prev /\ folder'.here = folder.here
      /\ folder'.videos = folder.videos
      /\ folder'.docAside = folder.docAside /\ folder'.prevAside = folder.prevAside
      /\ folder'.temps \in {folder.temps, folder.temps \ {o}} /\ folder' \in Folder
  BY <1>1 DEF Trees, Folder
<1>3. folder' \in Trees
  <2>1. CASE folder = NoFolder
    BY <1>1, <2>1, BareFolders DEF NoFolder
  <2> QED
    BY <1>1, <1>2, <2>1 DEF Trees
<1>4. Leaves(folder, folder', o)
  BY <1>2 DEF Leaves, Untouched
<1>5. Active(o) /\ req[o].op \in {"edit", "upload"}
  BY FitsIs DEF PosterFails, At, Active, Answers, Unsettled, PhaseFits, Ops
<1>6. /\ At(o, "docIn") /\ Go(o, "refused") /\ "refused" \in Phases /\ kind # "film" /\ Trouble
      /\ UNCHANGED <<kind, trash, catalogue, history>>
  BY DEF PosterFails, Phases, Answers, Unsettled
<1> QED
  BY <1>2, <1>3, <1>4, <1>5, <1>6, HopIs

LEMMA SettleIs ==
  ASSUME Basic, NEW o \in Requests, Settle(o)
  PROVE  /\ At(o, "settle") /\ FolderStep(o)
         /\ req'[o].phase = IF req[o].op = "upload" THEN "register"
                            ELSE IF title # None THEN "ok" ELSE "refused"
         /\ req[o].op \in {"edit", "upload"}
         /\ req'[o].seen = req[o].seen /\ req'[o].moved = req[o].moved
         /\ folder' = Settled(o, folder)
<1>1. folder \in Trees /\ folder' = Settled(o, folder)
  BY DEF Basic, Types, Settle
<1>2. folder' \in Trees /\ Leaves(folder, folder', o)
  BY <1>1, SettledIs DEF Leaves
<1> DEFINE next == IF req[o].op = "upload" THEN "register"
                   ELSE IF title # None THEN "ok" ELSE "refused"
<1>3. /\ At(o, "settle") /\ Go(o, next) /\ next \in Phases
      /\ UNCHANGED <<kind, trash, catalogue, troubles, history>>
  BY FitsIs DEF Settle, At, Phases, Answers, Unsettled, PhaseFits, Ops
<1>4. Active(o) /\ req[o].op \in {"edit", "upload"}
  BY <1>3, FitsIs DEF At, Active, Answers, Unsettled, PhaseFits, Ops
<1>5. CASE req[o].op = "upload"
  BY <1>1, <1>2, <1>3, <1>4, <1>5, HopIs
<1>6. CASE req[o].op = "edit" /\ title # None
  BY <1>1, <1>2, <1>3, <1>4, <1>6, HopIs
<1>7. CASE req[o].op = "edit" /\ title = None
  BY <1>1, <1>2, <1>3, <1>4, <1>7, HopIs
<1> QED
  BY <1>4, <1>5, <1>6, <1>7

LEMMA UndoDocIs ==
  ASSUME Basic, NEW o \in Requests, UndoDoc(o)
  PROVE  /\ At(o, "undoDoc") /\ FolderStep(o) /\ req'[o].phase = "undoAside"
         /\ req'[o].seen = req[o].seen /\ req'[o].moved = req[o].moved
         /\ \/ folder' = [folder EXCEPT !.doc = None] /\ troubles' = troubles
            \/ folder' = folder /\ troubles' = troubles + 1
<1>1. folder \in Trees /\ troubles \in Nat /\ Types
  BY ConstantsAssumption DEF Basic, Types
<1>2. \/ folder' = [folder EXCEPT !.doc = None] /\ troubles' = troubles
      \/ folder' = folder /\ troubles' = troubles + 1
  BY <1>1 DEF UndoDoc, Trouble, Troubles
<1>3. ASSUME NEW g, g = [folder EXCEPT !.doc = None]
      PROVE  g \in Trees
  <2>1. CASE folder = NoFolder
    BY <1>1, <1>3, <2>1, BareFolders DEF NoFolder
  <2>2. CASE folder.here
    BY <1>1, <1>3, <2>2 DEF Trees, Folder
  <2> QED
    BY <1>1, <2>1, <2>2 DEF Trees
<1>4. Leaves(folder, folder', o)
  BY <1>1, <1>2 DEF Leaves, Untouched, Trees, Folder
<1>5. Active(o) /\ req[o].op \in {"edit", "upload"}
  BY FitsIs DEF UndoDoc, At, Active, Answers, Unsettled, PhaseFits, Ops
<1>6. /\ At(o, "undoDoc") /\ Go(o, "undoAside") /\ "undoAside" \in Phases
      /\ UNCHANGED <<kind, trash, catalogue, history>>
  BY DEF UndoDoc, Phases
<1>7. Spent
  BY <1>1, SpentIs DEF UndoDoc, Trouble
<1> QED
  BY <1>1, <1>2, <1>3, <1>4, <1>5, <1>6, <1>7, HopIs

LEMMA UndoAsideIs ==
  ASSUME Basic, NEW o \in Requests, UndoAside(o)
  PROVE  /\ At(o, "undoAside") /\ FolderStep(o) /\ req'[o].phase = "undoMoves"
         /\ req'[o].seen = req[o].seen /\ req'[o].moved = req[o].moved
         /\ \E undos \in SUBSET Undos :
              /\ folder' = PutBack(o, folder, undos)
              /\ troubles' = IF undos = Undos THEN troubles ELSE troubles + 1
<1>1. PICK undos \in SUBSET Undos :
        Troubles(Faults(undos)) /\ folder' = PutBack(o, folder, undos)
  BY DEF UndoAside, RolledBack
<1>2. Types /\ folder \in Trees /\ troubles \in Nat
  BY ConstantsAssumption DEF Basic, Types
<1>3. folder' \in Trees /\ Leaves(folder, folder', o)
  BY <1>1, <1>2, PutBackIs DEF Leaves
<1>4. Spent /\ troubles' = IF undos = Undos THEN troubles ELSE troubles + 1
  <2>1. Faults(undos) \in Nat
    BY DEF Faults
  <2>2. Spent
    BY <1>1, <1>2, <2>1, SpentIs
  <2> QED
    BY <1>1, <1>2, <2>2 DEF Troubles, Faults
<1>5. /\ At(o, "undoAside") /\ Go(o, "undoMoves") /\ "undoMoves" \in Phases
      /\ UNCHANGED <<kind, trash, catalogue, history>>
  BY DEF UndoAside, Phases
<1>6. Active(o) /\ req[o].op \in {"edit", "upload"}
  BY <1>5, FitsIs DEF At, Active, Answers, Unsettled, PhaseFits, Ops
<1>7. /\ FolderStep(o) /\ req'[o].phase = "undoMoves"
      /\ req'[o].seen = req[o].seen /\ req'[o].moved = req[o].moved
  BY <1>3, <1>4, <1>5, <1>6, HopIs
<1> QED
  BY <1>1, <1>4, <1>5, <1>7

LEMMA UndoMovesIs ==
  ASSUME Basic, NEW o \in Requests, UndoMoves(o)
  PROVE  /\ At(o, "undoMoves") /\ FolderStep(o) /\ req'[o].phase = "refused"
         /\ req[o].op \in {"edit", "upload"}
         /\ folder'.doc = folder.doc /\ folder'.prev = folder.prev /\ folder'.here = folder.here
         /\ \E kept \in SUBSET req[o].moved :
              /\ folder'.videos = [n \in Numbers |->
                   IF n \in req[o].moved \ kept THEN None ELSE folder.videos[n]]
              /\ troubles' = IF kept = {} THEN troubles ELSE troubles + 1
<1>1. PICK kept \in SUBSET req[o].moved :
        /\ Troubles(IF kept = {} THEN 0 ELSE 1)
        /\ folder' = [folder EXCEPT !.videos =
             [n \in Numbers |-> IF n \in req[o].moved \ kept THEN None ELSE @[n]]]
  BY DEF UndoMoves
<1> DEFINE videos == [n \in Numbers |-> IF n \in req[o].moved \ kept THEN None ELSE folder.videos[n]]
<1>2. folder \in Trees /\ folder' = [folder EXCEPT !.videos = videos] /\ Types /\ troubles \in Nat
  BY <1>1, ConstantsAssumption DEF Basic, Types
<1>3. videos \in [Numbers -> Videos \cup {None}]
  BY <1>2 DEF Trees, Folder
<1>4. folder = NoFolder => videos = folder.videos
  BY DEF NoFolder
<1> HIDE DEF videos
<1>5. /\ folder'.doc = folder.doc /\ folder'.prev = folder.prev /\ folder'.here = folder.here
      /\ folder'.docAside = folder.docAside /\ folder'.prevAside = folder.prevAside
      /\ folder'.temps = folder.temps /\ folder' \in Folder /\ folder'.videos = videos
  BY <1>2, <1>3 DEF Trees, Folder
<1>6. folder' \in Trees
  <2>1. CASE folder = NoFolder
    BY <1>2, <1>4, <2>1, BareFolders DEF Trees, Folder
  <2> QED
    BY <1>2, <1>5, <2>1 DEF Trees
<1>7. Leaves(folder, folder', o)
  BY <1>5 DEF Leaves, Untouched
<1>8. /\ At(o, "undoMoves") /\ Go(o, "refused") /\ "refused" \in Phases
      /\ UNCHANGED <<kind, trash, catalogue, history>>
  BY DEF UndoMoves, Phases, Answers, Unsettled
<1>9. Active(o) /\ req[o].op \in {"edit", "upload"}
  BY <1>8, FitsIs DEF At, Active, Answers, Unsettled, PhaseFits, Ops
<1>10. Spent /\ troubles' = IF kept = {} THEN troubles ELSE troubles + 1
  <2>1. (IF kept = {} THEN 0 ELSE 1) \in Nat
    OBVIOUS
  <2>2. Spent
    BY <1>1, <1>2, <2>1, SpentIs
  <2> QED
    BY <1>1, <1>2, <2>2 DEF Troubles
<1>11. FolderStep(o) /\ req'[o].phase = "refused"
  BY <1>6, <1>7, <1>8, <1>9, <1>10, HopIs
<1> QED
  BY <1>1, <1>5, <1>8, <1>9, <1>10, <1>11 DEF videos

LEMMA MoveIs ==
  ASSUME Basic, NEW o \in Requests, NEW n \in Numbers, Move(o, n)
  PROVE  /\ At(o, "move") /\ FolderStep(o) /\ req[o].op = "upload"
         /\ n \in req[o].plan /\ req'[o].seen = req[o].seen
         /\ req'[o].moved = req[o].moved \cup {n}
         /\ req'[o].phase = IF req[o].moved \cup {n} = req[o].plan THEN "settle" ELSE "move"
         /\ folder'.here /\ folder'.doc = folder.doc /\ folder'.prev = folder.prev
         /\ folder'.docAside = folder.docAside /\ folder'.prevAside = folder.prevAside
         /\ folder'.videos = [folder.videos EXCEPT ![n] = Video(o, n)]
<1>1. folder \in Trees /\ req \in [Requests -> Request] /\ req[o] \in Request
  BY DEF Basic, Types
<1>2. Video(o, n) \in Videos
  BY DEF Video, Videos, Versions
<1> DEFINE g == Made(folder)
<1>3. /\ g \in Trees /\ g.here /\ g.doc = folder.doc /\ g.prev = folder.prev
      /\ g.temps = folder.temps /\ g.docAside = folder.docAside
      /\ g.prevAside = folder.prevAside /\ g.videos = folder.videos
  BY <1>1, MadeIs
<1>4. folder' = [g EXCEPT !.videos[n] = Video(o, n)]
  BY DEF Move
<1> HIDE DEF g
<1>5. /\ folder' \in Trees /\ folder'.here /\ folder'.doc = g.doc /\ folder'.prev = g.prev
      /\ folder'.temps = g.temps /\ folder'.docAside = g.docAside
      /\ folder'.prevAside = g.prevAside
      /\ folder'.videos = [g.videos EXCEPT ![n] = Video(o, n)]
  BY <1>2, <1>3, <1>4 DEF Trees, Folder
<1> DEFINE moved == req[o].moved \cup {n}
<1> DEFINE next == IF moved = req[o].plan THEN "settle" ELSE "move"
<1>6. /\ At(o, "move") /\ n \in req[o].plan
      /\ req' = [req EXCEPT ![o].moved = moved, ![o].phase = next]
      /\ UNCHANGED <<kind, trash, catalogue, troubles, history>>
  BY DEF Move
<1>7. moved \in SUBSET Numbers /\ next \in Phases
  BY <1>1 DEF Request, Phases
<1>8. Active(o) /\ req[o].op = "upload" /\ moved \subseteq req[o].plan
  BY <1>6, FitsIs DEF At, Active, Answers, Unsettled, PhaseFits, MovedFits, Ops, DocumentPhases, ApplyPhases
<1>9. next \in {"settle", "move"} /\ (next = "settle" => moved = req[o].plan)
  OBVIOUS
<1> HIDE DEF moved, next
<1>10. Onward(o) /\ req'[o].moved = moved /\ req'[o].phase = next /\ req'[o].seen = req[o].seen
  BY <1>1, <1>6, <1>7 DEF Onward, Request
<1>11. Leaves(folder, folder', o)
  BY <1>3, <1>5 DEF Leaves, Untouched
<1>12. PhaseFits(o)' /\ MovedFits(o)' /\ TrashFits(o)'
  BY <1>6, <1>8, <1>9, <1>10, FitsIs
     DEF Onward, At, PhaseFits, MovedFits, TrashFits, DocumentPhases, ApplyPhases, Ops
<1> QED
  BY <1>3, <1>5, <1>6, <1>8, <1>9, <1>10, <1>11, <1>12, SpentIs DEF FolderStep, Basic, moved, next

LEMMA InstallIs ==
  ASSUME Basic, NEW o \in Requests, Install(o)
  PROVE  /\ At(o, "install") /\ FolderStep(o) /\ req'[o].phase = "register"
         /\ req[o].op = "create" /\ req'[o].moved = req[o].moved
         /\ folder.here => Empty(folder)
         /\ folder'.here /\ folder'.doc = req[o].want
         /\ folder'.videos = [n \in Numbers |-> IF n \in req[o].plan THEN Video(o, n) ELSE None]
<1> DEFINE videos == [n \in Numbers |-> IF n \in req[o].plan THEN Video(o, n) ELSE None]
<1>1. folder' = [Fresh EXCEPT !.doc = req[o].want, !.videos = videos]
  BY DEF Install
<1>2. videos \in [Numbers -> Videos \cup {None}]
  BY DEF Video, Videos, Versions
<1> HIDE DEF videos
<1>3. req[o].want \in Versions \cup {None}
  BY DEF Basic, Types, Request
<1>4. /\ folder' \in Trees /\ folder'.here /\ folder'.doc = req[o].want /\ folder'.videos = videos
      /\ folder'.docAside = Fresh.docAside /\ folder'.prevAside = Fresh.prevAside
      /\ folder'.temps = Fresh.temps
  BY <1>1, <1>2, <1>3, BareFolders DEF Trees, Folder
<1>5. Leaves(folder, folder', o)
  BY <1>4, BareFolders DEF Leaves, Untouched
<1>6. /\ At(o, "install") /\ Go(o, "register") /\ "register" \in Phases
      /\ (folder.here => Empty(folder))
      /\ UNCHANGED <<kind, trash, catalogue, troubles, history>>
  BY DEF Install, Phases
<1>7. Active(o) /\ req[o].op = "create"
  BY <1>6, FitsIs DEF At, Active, Answers, Unsettled, PhaseFits, Ops, DocumentPhases, ApplyPhases
<1> QED
  BY <1>4, <1>5, <1>6, <1>7, HopIs DEF videos

LEMMA RegisterFailsIs ==
  ASSUME Basic, NEW o \in Requests, RegisterFails(o)
  PROVE  /\ At(o, "register") /\ FolderStep(o) /\ req[o].op \in {"upload", "create"}
         /\ \/ req'[o].phase = "preserved"
            \/ req'[o].phase = "refused" /\ kind = "reading"
         /\ folder' = Recovered(folder)
<1>1. Types /\ folder \in Trees /\ folder' = Recovered(folder)
  BY DEF Basic, Types, RegisterFails
<1>2. folder' \in Trees /\ Leaves(folder, folder', o)
  BY <1>1, RecoveredIs DEF Leaves, Untouched
<1>3. /\ At(o, "register") /\ UNCHANGED <<kind, trash, catalogue, history>>
      /\ (Trouble \/ UNCHANGED troubles)
      /\ Go(o, "preserved") \/ (Go(o, "refused") /\ kind = "reading")
      /\ {"preserved", "refused"} \subseteq Phases
  <2>1. \E answer \in {"preserved"} \cup (IF kind = "reading" THEN {"refused"} ELSE {}) :
          Go(o, answer)
    BY DEF RegisterFails
  <2> QED
    BY <2>1 DEF RegisterFails, Phases, Answers, Unsettled
<1>4. Active(o) /\ req[o].op \in {"upload", "create"}
  BY <1>3, FitsIs DEF At, Active, Answers, Unsettled, PhaseFits, Ops, DocumentPhases, ApplyPhases
<1>5. CASE Go(o, "preserved")
  BY <1>1, <1>2, <1>3, <1>4, <1>5, HopIs
<1>6. CASE Go(o, "refused") /\ kind = "reading"
  BY <1>1, <1>2, <1>3, <1>4, <1>6, HopIs
<1> QED
  BY <1>3, <1>5, <1>6

LEMMA RenumbersIs ==
  ASSUME Basic, NEW o \in Requests, req[o].phase \in {"rename", "renamed", "renameBack"}
  PROVE  /\ Active(o) /\ req[o].op = "renumber" /\ kind = "series"
         /\ req[o].from \in Numbers /\ To(o) \in Numbers /\ To(o) # req[o].from
         /\ req[o].plan = {req[o].from, To(o)} /\ req[o].video \in Videos
<1>1. Active(o) /\ req[o].op = "renumber"
  BY FitsIs DEF Active, Answers, Unsettled, PhaseFits, Ops, DocumentPhases, ApplyPhases
<1> QED
  BY <1>1, FitsIs DEF AskFits

LEMMA RenameIs ==
  ASSUME Basic, NEW o \in Requests, Rename(o)
  PROVE  /\ At(o, "rename") /\ FolderStep(o)
         /\ \/ /\ folder.videos[req[o].from] = None /\ req'[o].phase = "refused"
               /\ folder' = Made(folder)
            \/ /\ folder.videos[req[o].from] # None /\ req'[o].phase = "renamed" /\ folder.here
               /\ folder' = Moved(folder, req[o].from, To(o))
<1>1. folder \in Trees /\ At(o, "rename")
  BY DEF Basic, Types, Rename
<1>2. /\ Active(o) /\ req[o].op = "renumber"
      /\ req[o].from \in Numbers /\ To(o) \in Numbers /\ To(o) # req[o].from
  BY <1>1, RenumbersIs DEF At
<1>3. UNCHANGED <<kind, trash, catalogue, troubles, history>> /\ {"refused", "renamed"} \subseteq Phases
  BY DEF Rename, Phases, Answers, Unsettled
<1>4. CASE folder.videos[req[o].from] = None
  <2>1. folder' = Made(folder) /\ Go(o, "refused")
    BY <1>4 DEF Rename
  <2>2. folder' \in Trees /\ Leaves(folder, folder', o)
    BY <1>1, <2>1, MadeIs DEF Leaves, Untouched
  <2> QED
    BY <1>1, <1>2, <1>3, <1>4, <2>1, <2>2, HopIs
<1>5. CASE folder.videos[req[o].from] # None
  <2>1. folder' = Moved(folder, req[o].from, To(o)) /\ Go(o, "renamed")
    BY <1>5 DEF Rename
  <2>2. folder.here
    BY <1>1, <1>2, <1>5 DEF Trees, NoFolder
  <2>3. folder' \in Trees
    BY <1>1, <1>2, <2>1, <2>2, MovedIs
  <2>4. \A p \in Requests : Untouched(folder, p) => Untouched(folder', p)
    BY <1>1, <1>2, <2>1, <2>2, MovedLeaves
  <2>5. Leaves(folder, folder', o)
    BY <2>4 DEF Leaves
  <2> QED
    BY <1>1, <1>2, <1>3, <1>5, <2>1, <2>2, <2>3, <2>5, HopIs
<1> QED
  BY <1>4, <1>5

LEMMA RenumberFailsIs ==
  ASSUME Basic, NEW o \in Requests, RenumberFails(o)
  PROVE  /\ At(o, "renamed") /\ FolderStep(o) /\ req'[o].phase = "renameBack"
         /\ folder' = Made(folder)
<1>1. folder \in Trees /\ At(o, "renamed") /\ folder' = Made(folder) /\ Go(o, "renameBack")
  BY DEF Basic, Types, RenumberFails
<1>2. Active(o) /\ req[o].op = "renumber"
  BY <1>1, RenumbersIs DEF At
<1>3. /\ UNCHANGED <<kind, trash, catalogue, history>> /\ (Trouble \/ UNCHANGED troubles)
      /\ "renameBack" \in Phases
  BY DEF RenumberFails, Phases
<1>4. folder' \in Trees /\ Leaves(folder, folder', o)
  BY <1>1, MadeIs DEF Leaves, Untouched
<1> QED
  BY <1>1, <1>2, <1>3, <1>4, HopIs

LEMMA RenameBackIs ==
  ASSUME Basic, NEW o \in Requests, RenameBack(o)
  PROVE  /\ At(o, "renameBack") /\ FolderStep(o) /\ req'[o].phase = "refused"
         /\ \/ folder.videos[To(o)] = None /\ folder' = folder
            \/ /\ folder.videos[To(o)] # None /\ folder.here
               /\ folder' = Moved(folder, To(o), req[o].from)
<1>1. folder \in Trees /\ At(o, "renameBack") /\ Go(o, "refused")
  BY DEF Basic, Types, RenameBack
<1>2. /\ Active(o) /\ req[o].op = "renumber"
      /\ req[o].from \in Numbers /\ To(o) \in Numbers /\ To(o) # req[o].from
  BY <1>1, RenumbersIs DEF At
<1>3. UNCHANGED <<kind, trash, catalogue, troubles, history>> /\ "refused" \in Phases
  BY DEF RenameBack, Phases, Answers, Unsettled
<1>4. \/ folder.videos[To(o)] = None /\ folder' = folder
      \/ /\ folder.videos[To(o)] # None /\ folder.here
         /\ folder' = Moved(folder, To(o), req[o].from)
  BY <1>1, <1>2 DEF RenameBack, Trees, NoFolder
<1>5. folder' \in Trees /\ Leaves(folder, folder', o)
  <2>1. CASE folder' = folder
    BY <1>1, <2>1 DEF Leaves
  <2>2. CASE folder.here /\ folder' = Moved(folder, To(o), req[o].from)
    <3>1. folder' \in Trees
      BY <1>1, <1>2, <2>2, MovedIs
    <3>2. \A p \in Requests : Untouched(folder, p) => Untouched(folder', p)
      BY <1>1, <1>2, <2>2, MovedLeaves
    <3> QED
      BY <3>1, <3>2 DEF Leaves
  <2> QED
    BY <1>4, <2>1, <2>2
<1> QED
  BY <1>1, <1>2, <1>3, <1>4, <1>5, HopIs

-----------------------------------------------------------------------------------
(* The steps that change rows, or put a folder aside or back.                        *)
LEMMA RowUpdatedIs ==
  ASSUME Basic, NEW o \in Requests, UpdateMovie(o) \/ UpdateSeries(o) \/ UpdateReading(o)
  PROVE  /\ Basic' /\ At(o, "row") /\ Onward(o) /\ req[o].op = "edit" /\ req'[o].phase = "settle"
         /\ req'[o].seen = req[o].seen /\ req'[o].moved = req[o].moved
         /\ title' = IF title = None THEN None ELSE req[o].want
         /\ UNCHANGED <<kind, folder, trash, episodes, history>>
<1>1. /\ At(o, "row") /\ Go(o, "settle") /\ "settle" \in Phases
      /\ title' = IF title = None THEN None ELSE req[o].want
      /\ UNCHANGED <<kind, folder, trash, episodes, troubles, overlapped, contested, history>>
  BY DEF UpdateMovie, UpdateSeries, UpdateReading, RowUpdated, Phases, disk, history
<1>2. /\ Onward(o) /\ req'[o].phase = "settle" /\ req'[o].moved = req[o].moved
      /\ req'[o].seen = req[o].seen
  BY <1>1, GoIs DEF Basic
<1>3. Active(o) /\ req[o].op = "edit" /\ req[o].want = o
  BY <1>1, FitsIs DEF At, Active, Answers, Unsettled, PhaseFits, AskFits, Ops, DocumentPhases, ApplyPhases
<1>4. PhaseFits(o)' /\ MovedFits(o)' /\ TrashFits(o)'
  BY <1>1, <1>2, <1>3, FitsIs
     DEF Onward, At, PhaseFits, MovedFits, TrashFits, DocumentPhases, ApplyPhases, Ops
<1>5. title' \in Versions \cup {None} /\ (title' = None <=> title = None)
  BY <1>1, <1>3, ConstantsAssumption DEF Versions
<1>6. RowsApart'
  <2>1. \A q \in Requests : req[q].phase = "ok" => req'[q].phase = "ok"
    BY <1>3, <1>2 DEF Onward, Active, Answers, Unsettled
  <2>2. \A n \in Numbers : episodes[n] # None => episodes[n].video.by \in Versions
    BY DEF Basic, Types, EpisodeRow, Videos
  <2> QED
    BY <1>1, <1>5, <2>1, <2>2 DEF Basic, RowsApart, Versions
<1>7. Leaves(folder, folder', o) /\ Leaves(trash[o], trash'[o], o)
  BY <1>1 DEF Leaves
<1>8. folder' \in Trees /\ trash' \in [Requests -> Trees] /\ troubles' \in 0..MaxTroubles
      /\ episodes' \in [Numbers -> EpisodeRow \cup {None}]
  BY <1>1 DEF Basic, Types
<1>9. Basic'
  BY <1>1, <1>2, <1>3, <1>4, <1>5, <1>6, <1>7, <1>8, OnwardIsBasic
<1> QED
  BY <1>1, <1>2, <1>3, <1>9

LEMMA RegisterIs ==
  ASSUME Basic, NEW o \in Requests, Register(o)
  PROVE  /\ Basic' /\ At(o, "register") /\ Onward(o) /\ req'[o].phase = "ok"
         /\ req[o].op \in {"upload", "create"} /\ req[o].want \in Versions
         /\ Registrable(o) /\ folder' = Recovered(folder) /\ title' = req[o].want
         /\ episodes' = [n \in Numbers |-> IF n \in req[o].plan
                    THEN [video |-> Video(o, n), on |-> TRUE] ELSE episodes[n]]
         /\ UNCHANGED <<kind, trash, history>>
<1>1. Types /\ folder \in Trees /\ episodes \in [Numbers -> EpisodeRow \cup {None}]
  BY DEF Basic, Types
<1>2. /\ At(o, "register") /\ Go(o, "ok") /\ "ok" \in Phases /\ Registrable(o)
      /\ folder' = Recovered(folder) /\ title' = req[o].want
      /\ episodes' = [n \in Numbers |-> IF n \in req[o].plan
                    THEN [video |-> Video(o, n), on |-> TRUE] ELSE episodes[n]]
      /\ UNCHANGED <<kind, trash, troubles, history>>
  BY DEF Register, Phases, Answers, Unsettled
<1>3. Onward(o) /\ req'[o].phase = "ok" /\ req'[o].moved = req[o].moved
  BY <1>1, <1>2, GoIs
<1>4. Active(o) /\ req[o].op \in {"upload", "create"} /\ req[o].want \in Versions
  BY <1>2, FitsIs DEF At, Active, Answers, Unsettled, PhaseFits, AskFits, Ops, DocumentPhases, ApplyPhases, Versions
<1>5. PhaseFits(o)' /\ MovedFits(o)' /\ TrashFits(o)'
  BY <1>2, <1>3, <1>4, FitsIs
     DEF Onward, At, PhaseFits, MovedFits, TrashFits, DocumentPhases, ApplyPhases, Ops
<1>6. \A n \in Numbers : /\ Video(o, n) \in Videos /\ Video(o, n).by = o /\ Video(o, n).number = n
                         /\ [video |-> Video(o, n), on |-> TRUE] \in EpisodeRow
  BY DEF Video, Videos, Versions, EpisodeRow
<1>7. episodes' \in [Numbers -> EpisodeRow \cup {None}]
  BY <1>1, <1>2, <1>6
<1>8. RowsApart'
  <2>1. title' # None
    BY <1>2, <1>4, ConstantsAssumption DEF Versions
  <2>2. \A n \in Numbers : episodes[n] # None =>
          episodes[n].video.by \in Versions /\ episodes[n].video.by # o
    BY <1>1, <1>2, ConstantsAssumption DEF Basic, RowsApart, EpisodeRow, Videos, At, Versions
  <2>3. ASSUME NEW n \in Numbers, episodes'[n] # None
        PROVE  \/ /\ n \in req[o].plan /\ episodes'[n].video = Video(o, n)
               \/ /\ n \notin req[o].plan /\ episodes'[n] = episodes[n] /\ episodes[n] # None
    BY <1>2, <2>3
  <2>4. ASSUME NEW m \in Numbers, NEW n \in Numbers, episodes'[m] # None, episodes'[n] # None,
               episodes'[m].video = episodes'[n].video
        PROVE  m = n
    <3>1. CASE m \in req[o].plan /\ n \in req[o].plan
      <4>1. Video(o, m) = Video(o, n)
        BY <2>3, <2>4, <3>1
      <4> QED
        BY <1>6, <4>1, Zenon
    <3>2. CASE m \notin req[o].plan /\ n \notin req[o].plan
      BY <2>3, <2>4, <3>2 DEF Basic, RowsApart
    <3>3. CASE m \in req[o].plan /\ n \notin req[o].plan
      <4>1. Video(o, m) = episodes[n].video /\ episodes[n] # None
        BY <2>3, <2>4, <3>3
      <4> QED
        BY <1>6, <2>2, <4>1, Zenon
    <3>4. CASE m \notin req[o].plan /\ n \in req[o].plan
      <4>1. Video(o, n) = episodes[m].video /\ episodes[m] # None
        BY <2>3, <2>4, <3>4
      <4> QED
        BY <1>6, <2>2, <4>1, Zenon
    <3> QED
      BY <3>1, <3>2, <3>3, <3>4
  <2>5. ASSUME NEW n \in Numbers, episodes'[n] # None, episodes'[n].video.by # First
        PROVE  req'[episodes'[n].video.by].phase = "ok"
    <3>1. CASE n \in req[o].plan
      BY <1>3, <1>6, <2>3, <2>5, <3>1
    <3>2. CASE n \notin req[o].plan
      <4>1. req[episodes[n].video.by].phase = "ok" /\ episodes[n].video.by \in Requests
        BY <2>2, <2>3, <2>5, <3>2 DEF Basic, RowsApart, Versions
      <4> QED
        BY <1>3, <2>2, <2>3, <2>5, <3>2, <4>1 DEF Onward
    <3> QED
      BY <3>1, <3>2
  <2> QED
    BY <2>1, <2>4, <2>5 DEF RowsApart
<1>9. folder' \in Trees /\ Leaves(folder, folder', o)
  BY <1>1, <1>2, RecoveredIs DEF Leaves, Untouched
<1>10. /\ Leaves(trash[o], trash'[o], o) /\ trash' \in [Requests -> Trees] /\ trash' = trash
       /\ troubles' \in 0..MaxTroubles
  BY <1>1, <1>2 DEF Leaves, Types
<1>11. Basic'
  BY <1>2, <1>3, <1>4, <1>5, <1>7, <1>8, <1>9, <1>10, OnwardIsBasic
<1> QED
  BY <1>2, <1>3, <1>4, <1>11

LEMMA RenumberIs ==
  ASSUME Basic, NEW o \in Requests, Renumber(o)
  PROVE  /\ Basic' /\ At(o, "renamed") /\ Onward(o)
         /\ req'[o].phase = IF RowOf(o) # {} THEN "ok" ELSE "refused"
         /\ UNCHANGED <<kind, folder, trash, title, history>>
         /\ folder.videos[To(o)] # None
         /\ RowOf(o) # {} => episodes[To(o)] = None
         /\ RowOf(o) = {} => episodes' = episodes
         /\ \A k \in RowOf(o) :
              /\ RowOf(o) = {k}
              /\ episodes' = [episodes EXCEPT ![k] = None, ![To(o)] = episodes[k]]
<1>1. episodes \in [Numbers -> EpisodeRow \cup {None}]
  BY DEF Basic, Types
<1>2. /\ At(o, "renamed") /\ UNCHANGED <<kind, folder, trash, title, troubles, history>>
      /\ folder.videos[To(o)] # None
      /\ RowOf(o) # {} => episodes[To(o)] = None
      /\ episodes' = [n \in Numbers |->
           CASE n \in RowOf(o) -> None
             [] n = To(o) /\ RowOf(o) # {} -> episodes[CHOOSE k \in RowOf(o) : TRUE]
             [] OTHER -> episodes[n]]
      /\ Go(o, IF RowOf(o) # {} THEN "ok" ELSE "refused")
      /\ {"ok", "refused"} \subseteq Phases
  BY DEF Renumber, Renumberable, disk, Phases, Answers, Unsettled
<1>3. /\ Onward(o) /\ req'[o].phase = IF RowOf(o) # {} THEN "ok" ELSE "refused"
      /\ req'[o].moved = req[o].moved
  BY <1>2, GoIs DEF Basic
<1>4. Active(o) /\ req[o].op = "renumber" /\ To(o) \in Numbers
  BY <1>2, RenumbersIs DEF At
<1>5. PhaseFits(o)' /\ MovedFits(o)' /\ TrashFits(o)'
  BY <1>2, <1>3, <1>4, FitsIs
     DEF Onward, At, PhaseFits, MovedFits, TrashFits, DocumentPhases, ApplyPhases, Ops
<1>6. ASSUME NEW k \in RowOf(o)
      PROVE  /\ RowOf(o) = {k} /\ k \in Numbers /\ k # To(o) /\ episodes[k] # None
             /\ episodes' = [episodes EXCEPT ![k] = None, ![To(o)] = episodes[k]]
  <2>1. RowOf(o) = {k} /\ k \in Numbers /\ episodes[k] # None
    BY DEF Basic, RowsApart, RowOf
  <2>2. k # To(o)
    BY <1>2, <2>1
  <2>3. (CHOOSE j \in RowOf(o) : TRUE) = k
    BY <2>1
  <2>4. ASSUME NEW n \in Numbers
        PROVE  episodes'[n] = IF n = k THEN None ELSE IF n = To(o) THEN episodes[k] ELSE episodes[n]
    BY <1>2, <2>1, <2>2, <2>3
  <2>5. DOMAIN episodes' = Numbers
    BY <1>2
  <2> QED
    BY <1>1, <1>2, <1>4, <2>1, <2>2, <2>4, <2>5
<1>7. RowOf(o) = {} => episodes' = episodes
  BY <1>1, <1>2
<1>8. /\ episodes' \in [Numbers -> EpisodeRow \cup {None}]
      /\ RowsApart'
  <2>1. \A q \in Requests : req[q].phase = "ok" => req'[q].phase = "ok"
    BY <1>3, <1>4 DEF Onward, Active, Answers, Unsettled
  <2>2. \A n \in Numbers : episodes[n] # None => episodes[n].video.by \in Versions
    BY <1>1 DEF EpisodeRow, Videos
  <2>3. RowsApart
    BY DEF Basic
  <2>4. CASE RowOf(o) = {}
    BY <1>1, <1>2, <1>7, <2>1, <2>2, <2>3, <2>4 DEF RowsApart, Versions
  <2>5. ASSUME NEW k \in RowOf(o)
        PROVE  /\ episodes' \in [Numbers -> EpisodeRow \cup {None}]
               /\ RowsApart'
    <3>1. /\ k \in Numbers /\ k # To(o) /\ episodes[k] # None /\ episodes[To(o)] = None
          /\ episodes' = [episodes EXCEPT ![k] = None, ![To(o)] = episodes[k]]
      BY <1>2, <1>6
    <3>2. episodes' \in [Numbers -> EpisodeRow \cup {None}]
      BY <1>1, <1>4, <3>1
    <3> DEFINE was(n) == IF n = To(o) THEN k ELSE n
    <3>3. \A n \in Numbers : episodes'[n] # None =>
            /\ was(n) \in Numbers /\ n # k /\ episodes[was(n)] # None
            /\ episodes'[n] = episodes[was(n)]
      BY <1>1, <1>4, <3>1
    <3>4. \A m, n \in Numbers : m # k /\ n # k /\ was(m) = was(n) => m = n
      OBVIOUS
    <3>5. title # None
      BY <2>3, <3>1 DEF RowsApart
    <3> HIDE DEF was
    <3>6. \A m, n \in Numbers :
            episodes'[m] # None /\ episodes'[n] # None /\ episodes'[m].video = episodes'[n].video
              => m = n
      BY <2>3, <3>3, <3>4 DEF RowsApart
    <3>7. \A n \in Numbers : episodes'[n] # None /\ episodes'[n].video.by # First =>
            req'[episodes'[n].video.by].phase = "ok"
      BY <2>1, <2>2, <2>3, <3>3 DEF RowsApart, Versions
    <3> QED
      BY <1>2, <3>2, <3>5, <3>6, <3>7 DEF RowsApart
  <2> QED
    BY <2>4, <2>5
<1>9. Leaves(folder, folder', o) /\ Leaves(trash[o], trash'[o], o)
  BY <1>2 DEF Leaves
<1>10. /\ folder' \in Trees /\ trash' \in [Requests -> Trees] /\ trash' = trash
       /\ troubles' \in 0..MaxTroubles /\ title' \in Versions \cup {None}
  BY <1>2 DEF Basic, Types
<1>11. req'[o].phase \notin {"idle", "stage"}
  BY <1>3
<1>12. Basic'
  BY <1>2, <1>3, <1>4, <1>5, <1>8, <1>9, <1>10, <1>11, OnwardIsBasic
<1> QED
  BY <1>2, <1>3, <1>6, <1>7, <1>12

LEMMA AwayIs ==
  ASSUME Basic, NEW o \in Requests, Away(o)
  PROVE  /\ Basic' /\ At(o, "away") /\ Onward(o) /\ req[o].op = "delete" /\ req'[o].phase = "rows"
         /\ trash' = [trash EXCEPT ![o] = folder] /\ folder' = NoFolder /\ ~trash[o].here
         /\ UNCHANGED <<kind, title, episodes, history>>
<1>1. /\ At(o, "away") /\ Go(o, "rows") /\ "rows" \in Phases
      /\ trash' = [trash EXCEPT ![o] = folder] /\ folder' = NoFolder
      /\ UNCHANGED <<kind, title, episodes, catalogue, troubles, history>>
  BY DEF Away, Phases, catalogue
<1>2. Onward(o) /\ req'[o].phase = "rows" /\ req'[o].moved = req[o].moved
  BY <1>1, GoIs DEF Basic
<1>3. Active(o) /\ req[o].op = "delete" /\ ~trash[o].here
  BY <1>1, FitsIs DEF At, Active, Answers, Unsettled, PhaseFits, TrashFits, Ops, DocumentPhases, ApplyPhases
<1>4. PhaseFits(o)' /\ MovedFits(o)' /\ TrashFits(o)'
  BY <1>1, <1>2, <1>3, FitsIs
     DEF Onward, At, PhaseFits, MovedFits, TrashFits, DocumentPhases, ApplyPhases, Ops
<1>5. trash \in [Requests -> Trees] /\ folder \in Trees
  BY DEF Basic, Types
<1>6. /\ trash' \in [Requests -> Trees] /\ trash'[o] = folder
      /\ \A p \in Requests \ {o} : trash'[p] = trash[p]
  BY <1>1, <1>5
<1>7. folder' \in Trees /\ Leaves(folder, folder', o) /\ Leaves(folder, trash'[o], o)
  BY <1>1, <1>6, BareFolders DEF Leaves
<1>8. RowsApart'
  BY <1>1, <1>2, <1>3, RowsStay
<1>9. /\ title' \in Versions \cup {None} /\ episodes' \in [Numbers -> EpisodeRow \cup {None}]
      /\ troubles' \in 0..MaxTroubles
  BY <1>1 DEF Basic, Types
<1>10. Basic'
  BY <1>1, <1>2, <1>3, <1>4, <1>6, <1>7, <1>8, <1>9, OnwardIsBasic
<1> QED
  BY <1>1, <1>2, <1>3, <1>10

LEMMA DeleteRowsIs ==
  ASSUME Basic, NEW o \in Requests, DeleteRows(o)
  PROVE  /\ Basic' /\ At(o, "rows") /\ Onward(o) /\ req[o].op = "delete"
         /\ req'[o].phase = IF trash[o].here THEN "purge" ELSE "ok"
         /\ title' = None /\ episodes' = [n \in Numbers |-> None]
         /\ UNCHANGED <<kind, folder, trash, history>>
<1> DEFINE next == IF trash[o].here THEN "purge" ELSE "ok"
<1>1. /\ At(o, "rows") /\ Go(o, next) /\ next \in Phases
      /\ title' = None /\ episodes' = [n \in Numbers |-> None]
      /\ UNCHANGED <<kind, folder, trash, troubles, history>>
  BY DEF DeleteRows, Phases, Answers, Unsettled, disk
<1>2. Onward(o) /\ req'[o].phase = next /\ req'[o].moved = req[o].moved
  BY <1>1, GoIs DEF Basic
<1>3. Active(o) /\ req[o].op = "delete"
  BY <1>1, FitsIs DEF At, Active, Answers, Unsettled, PhaseFits, Ops, DocumentPhases, ApplyPhases
<1>4. PhaseFits(o)' /\ MovedFits(o)' /\ TrashFits(o)'
  BY <1>1, <1>2, <1>3, FitsIs
     DEF Onward, At, PhaseFits, MovedFits, TrashFits, DocumentPhases, ApplyPhases, Ops
<1>5. RowsApart'
  BY <1>1 DEF RowsApart
<1>6. /\ title' \in Versions \cup {None} /\ episodes' \in [Numbers -> EpisodeRow \cup {None}]
      /\ troubles' \in 0..MaxTroubles /\ folder' \in Trees /\ trash' \in [Requests -> Trees]
  BY <1>1 DEF Basic, Types
<1>7. Leaves(folder, folder', o) /\ Leaves(trash[o], trash'[o], o)
  BY <1>1 DEF Leaves
<1>8. Basic'
  BY <1>1, <1>2, <1>3, <1>4, <1>5, <1>6, <1>7, OnwardIsBasic
<1> QED
  BY <1>1, <1>2, <1>3, <1>8

LEMMA BackIs ==
  ASSUME Basic, NEW o \in Requests, Back(o)
  PROVE  /\ Basic' /\ At(o, "back") /\ Onward(o) /\ req[o].op = "delete"
         /\ UNCHANGED <<kind, title, episodes, history>>
         /\ Replaceable(folder) /\ req'[o].phase = "refused"
         /\ folder' = trash[o] /\ trash' = [trash EXCEPT ![o] = NoFolder]
<1>1. /\ At(o, "back") /\ Go(o, "refused") /\ "refused" \in Phases /\ Replaceable(folder)
      /\ UNCHANGED <<kind, title, episodes, catalogue, troubles, history>>
      /\ folder' = trash[o] /\ trash' = [trash EXCEPT ![o] = NoFolder]
  BY DEF Back, Phases, Answers, Unsettled, catalogue
<1>2. Active(o) /\ req[o].op = "delete"
  BY <1>1, FitsIs DEF At, Active, Answers, Unsettled, PhaseFits, Ops, DocumentPhases, ApplyPhases
<1>3. trash \in [Requests -> Trees] /\ folder \in Trees
  BY DEF Basic, Types
<1>4. /\ title' \in Versions \cup {None} /\ episodes' \in [Numbers -> EpisodeRow \cup {None}]
      /\ troubles' \in 0..MaxTroubles
  BY <1>1 DEF Basic, Types
<1>5. Onward(o) /\ req'[o].phase = "refused" /\ req'[o].moved = req[o].moved
  BY <1>1, GoIs DEF Basic
<1>6. /\ trash' \in [Requests -> Trees] /\ trash'[o] = NoFolder /\ folder' \in Trees
      /\ \A p \in Requests \ {o} : trash'[p] = trash[p]
  BY <1>1, <1>3, BareFolders
<1>7. PhaseFits(o)' /\ MovedFits(o)' /\ TrashFits(o)'
  BY <1>1, <1>2, <1>5, <1>6, FitsIs, BareFolders
     DEF Onward, At, PhaseFits, MovedFits, TrashFits, DocumentPhases, ApplyPhases, Ops
<1>8. Leaves(trash[o], folder', o) /\ Leaves(trash[o], trash'[o], o) /\ RowsApart'
  BY <1>1, <1>2, <1>5, <1>6, RowsStay, BareFolders DEF Leaves
<1>9. Basic'
  BY <1>1, <1>2, <1>4, <1>5, <1>6, <1>7, <1>8, OnwardIsBasic
<1> QED
  BY <1>1, <1>2, <1>5, <1>9

LEMMA PurgeIs ==
  ASSUME Basic, NEW o \in Requests, Purge(o)
  PROVE  /\ Basic' /\ At(o, "purge") /\ Onward(o) /\ req[o].op = "delete" /\ req'[o].phase = "ok"
         /\ trash' = [trash EXCEPT ![o] = NoFolder]
         /\ UNCHANGED <<kind, folder, title, episodes, history>>
<1>1. /\ At(o, "purge") /\ Go(o, "ok") /\ "ok" \in Phases
      /\ trash' = [trash EXCEPT ![o] = NoFolder]
      /\ UNCHANGED <<kind, folder, title, episodes, catalogue, troubles, history>>
  BY DEF Purge, Phases, Answers, Unsettled, catalogue
<1>2. Onward(o) /\ req'[o].phase = "ok" /\ req'[o].moved = req[o].moved
  BY <1>1, GoIs DEF Basic
<1>3. Active(o) /\ req[o].op = "delete"
  BY <1>1, FitsIs DEF At, Active, Answers, Unsettled, PhaseFits, Ops, DocumentPhases, ApplyPhases
<1>4. /\ trash' \in [Requests -> Trees] /\ trash'[o] = NoFolder
      /\ \A p \in Requests \ {o} : trash'[p] = trash[p]
  BY <1>1, BareFolders DEF Basic, Types
<1>5. PhaseFits(o)' /\ MovedFits(o)' /\ TrashFits(o)'
  BY <1>1, <1>2, <1>3, <1>4, FitsIs, BareFolders
     DEF Onward, At, PhaseFits, MovedFits, TrashFits, DocumentPhases, ApplyPhases, Ops
<1>6. Leaves(folder, folder', o) /\ Leaves(trash[o], trash'[o], o) /\ RowsApart'
  BY <1>1, <1>2, <1>3, <1>4, RowsStay, BareFolders DEF Leaves
<1>7. /\ title' \in Versions \cup {None} /\ episodes' \in [Numbers -> EpisodeRow \cup {None}]
      /\ troubles' \in 0..MaxTroubles /\ folder' \in Trees
  BY <1>1 DEF Basic, Types
<1>8. Basic'
  BY <1>1, <1>2, <1>3, <1>4, <1>5, <1>6, <1>7, OnwardIsBasic
<1> QED
  BY <1>1, <1>2, <1>3, <1>8

-----------------------------------------------------------------------------------
(* A request is made.                                                                *)
Others == {p \in Requests : Active(p)}
Unfinished == {p \in Requests : Open(p)}

Common(r) == {p \in Unfinished : Targets(r) \cap Targets(req[p]) # {}}

(* The episodes it contests, and those that a contested one is moved to.             *)
Met(r) == UNION {Targets(r) \cup Targets(req[p]) : p \in Common(r)}
Led(r) == IF r.op = "renumber" /\ r.plan \cap contested # {} THEN r.plan ELSE {}

(* What is known of request o after it is made, whatever it asks for.                *)
Begun(o) ==
  LET r == req'[o]
  IN  /\ At(o, "idle")
      /\ req' \in [Requests -> Request] /\ \A p \in Requests \ {o} : req'[p] = req[p]
      /\ UNCHANGED <<kind, folder, trash, title, episodes, troubles>>
      /\ r.before = Shown /\ r.since = troubles /\ r.moved = {}
      /\ overlapped' = IF Others = {} THEN overlapped ELSE overlapped \cup Others \cup {o}
      /\ contested' = contested \cup Met(r) \cup Led(r)

LEMMA BeginIs ==
  ASSUME Basic, NEW o \in Requests, NEW asked \in Request, NEW passes, NEW first \in Phases,
         asked.moved = {}, Begin(o, asked, passes, first)
  PROVE  /\ Begun(o) /\ Shown \in View
         /\ req'[o].phase = IF passes THEN first ELSE "refused"
         /\ req'[o].op = asked.op /\ req'[o].want = asked.want /\ req'[o].plan = asked.plan
         /\ req'[o].from = asked.from /\ req'[o].video = asked.video
<1>1. /\ req \in [Requests -> Request] /\ folder \in Trees /\ title \in Versions \cup {None}
      /\ episodes \in [Numbers -> EpisodeRow \cup {None}] /\ troubles \in 0..MaxTroubles
  BY DEF Basic, Types
<1>2. Read(folder) \in Versions \cup {None}
  BY RecoveredIs DEF Basic, Types
<1>3. Shown \in View
  BY <1>1, <1>2 DEF Shown, View, Trees, Folder
<1> DEFINE next == IF passes THEN first ELSE "refused"
<1> DEFINE s == [asked EXCEPT !.before = Shown, !.since = troubles]
<1> DEFINE r == [s EXCEPT !.phase = next]
<1>4. next \in Phases
  BY DEF Phases, Answers, Unsettled
<1> HIDE DEF next
<1>5. /\ r \in Request /\ r.phase = next /\ r.before = Shown /\ r.since = troubles /\ r.moved = {}
      /\ r.op = asked.op /\ r.want = asked.want /\ r.plan = asked.plan
      /\ r.from = asked.from /\ r.video = asked.video
  BY <1>1, <1>3, <1>4 DEF Request
<1>6. Targets(s) = Targets(r) /\ s.op = r.op /\ s.plan = r.plan
  BY DEF Targets, Request
<1>7. req' = [req EXCEPT ![o] = r]
  BY DEF Begin, next
<1>8. overlapped' = IF Others = {} THEN overlapped ELSE overlapped \cup Others \cup {o}
  BY DEF Begin, Others
<1> DEFINE met == UNION {Targets(s) \cup Targets(req[p]) :
                      p \in {p \in Unfinished : Targets(s) \cap Targets(req[p]) # {}}}
<1> DEFINE led == IF s.op = "renumber" /\ s.plan \cap contested # {} THEN s.plan ELSE {}
<1>9. contested' = contested \cup met \cup led
  BY DEF Begin, Unfinished
<1>10. At(o, "idle") /\ UNCHANGED <<kind, folder, trash, title, episodes, troubles>>
  BY DEF Begin, disk, catalogue
<1> HIDE DEF r, s, met, led
<1>11. /\ req' \in [Requests -> Request] /\ req'[o] = r
       /\ \A p \in Requests \ {o} : req'[p] = req[p]
  BY <1>1, <1>5, <1>7
<1>12. contested' = contested \cup Met(r) \cup Led(r)
  <2>1. Met(r) = met
    BY <1>6 DEF Met, Common, met
  <2>2. Led(r) = led
    BY <1>6 DEF Led, led
  <2> QED
    BY <1>9, <2>1, <2>2
<1> QED
  BY <1>3, <1>5, <1>8, <1>10, <1>11, <1>12 DEF Begun, next

(* What it asks for, and has been found to be possible unless it is refused at once. *)
Passed(o) ==
  LET r == req'[o]
  IN  /\ r.op # "none" /\ r.phase \in {"stage", "install", "rename", "away", "refused"}
      /\ r.op \in {"upload", "edit", "delete"} => title # None
      /\ r.op = "upload" /\ r.phase # "refused" => NoConflict(r.plan)
      /\ r.op = "create" /\ r.phase # "refused" => ~folder.here
      /\ r.op = "renumber" =>
           /\ episodes[r.from] # None /\ r.video = episodes[r.from].video
           /\ r.phase # "refused" => NoConflict({To(o)'})

Fits(o) == PhaseFits(o) /\ AskFits(o) /\ MovedFits(o) /\ VideoKnown(o)

LEMMA IdleIs ==
  /\ Idle \in Request /\ Idle.plan = {} /\ Idle.moved = {} /\ Idle.reuse = {}
  /\ 0 \in 0..MaxTroubles
BY ConstantsAssumption DEF Idle, Request, Ops, Phases

LEMMA BeginUploadIs ==
  ASSUME Basic, NEW o \in Requests, NEW plan \in Plans, NEW want \in Versions,
         BeginUpload(o, plan, want)
  PROVE  Begun(o) /\ Passed(o) /\ Fits(o)'
<1> DEFINE asked == [Idle EXCEPT !.op = "upload", !.plan = plan, !.want = want]
<1>1. /\ asked \in Request /\ asked.op = "upload" /\ asked.plan = plan /\ asked.want = want
      /\ asked.moved = {}
  <2>1. "upload" \in Ops /\ plan \in SUBSET Numbers
    BY DEF Ops, Plans
  <2> QED
    BY <2>1, IdleIs DEF Request
<1>2. kind = "series" /\ title # None /\ Begin(o, asked, NoConflict(plan), "stage")
  BY DEF BeginUpload
<1> HIDE DEF asked
<1>3. "stage" \in Phases
  BY DEF Phases
<1>4. /\ Begun(o) /\ Shown \in View
      /\ req'[o].phase = IF NoConflict(plan) THEN "stage" ELSE "refused"
      /\ req'[o].op = "upload" /\ req'[o].want = want /\ req'[o].plan = plan
  BY <1>1, <1>2, <1>3, BeginIs
<1>5. Passed(o)
  BY <1>2, <1>4 DEF Passed
<1>6. Fits(o)'
  <2>1. kind' = "series" /\ req'[o].before \in View /\ req'[o].moved = {} /\ plan # {}
    BY <1>2, <1>4 DEF Begun, Plans
  <2> QED
    BY <1>4, <2>1 DEF Fits, PhaseFits, AskFits, MovedFits, VideoKnown, DocumentPhases
<1> QED
  BY <1>4, <1>5, <1>6

LEMMA BeginCreateIs ==
  ASSUME Basic, NEW o \in Requests,
         BeginCreateReading(o) \/ \E plan \in Plans : BeginCreateSeries(o, plan)
  PROVE  Begun(o) /\ Passed(o) /\ Fits(o)'
<1>1. PICK plan \in Plans :
        /\ kind # "film"
        /\ \/ Begin(o, [Idle EXCEPT !.op = "create", !.plan = plan, !.want = o],
                       ~folder.here, "install")
           \/ Begin(o, [Idle EXCEPT !.op = "create", !.plan = plan, !.want = o],
                       ~folder.here /\ title = None, "install")
  <2>1. CASE BeginCreateReading(o)
    <3>1. {FirstNumber} \in Plans
      BY FirstNumberIs DEF Plans
    <3> QED
      BY <2>1, <3>1 DEF BeginCreateReading
  <2>2. CASE \E plan \in Plans : BeginCreateSeries(o, plan)
    BY <2>2 DEF BeginCreateSeries
  <2> QED
    BY <2>1, <2>2
<1> DEFINE asked == [Idle EXCEPT !.op = "create", !.plan = plan, !.want = o]
<1>2. /\ asked \in Request /\ asked.op = "create" /\ asked.plan = plan /\ asked.want = o
      /\ asked.moved = {}
  <2>1. "create" \in Ops /\ plan \in SUBSET Numbers /\ o \in Versions
    BY DEF Ops, Plans, Versions
  <2> QED
    BY <2>1, IdleIs DEF Request
<1>3. \/ Begin(o, asked, ~folder.here, "install")
      \/ Begin(o, asked, ~folder.here /\ title = None, "install")
  BY <1>1
<1> HIDE DEF asked
<1>4. "install" \in Phases
  BY DEF Phases
<1>5. /\ Begun(o) /\ Shown \in View
      /\ req'[o].phase = "refused" \/ (req'[o].phase = "install" /\ ~folder.here)
      /\ req'[o].op = "create" /\ req'[o].want = o /\ req'[o].plan = plan
  <2>1. CASE Begin(o, asked, ~folder.here, "install")
    <3>1. /\ Begun(o) /\ Shown \in View
          /\ req'[o].phase = IF ~folder.here THEN "install" ELSE "refused"
          /\ req'[o].op = asked.op /\ req'[o].want = asked.want /\ req'[o].plan = asked.plan
      BY <1>2, <1>4, <2>1, BeginIs, ZenonT(60)
    <3> QED
      BY <1>2, <3>1
  <2>2. CASE Begin(o, asked, ~folder.here /\ title = None, "install")
    <3>1. /\ Begun(o) /\ Shown \in View
          /\ req'[o].phase = IF ~folder.here /\ title = None THEN "install" ELSE "refused"
          /\ req'[o].op = asked.op /\ req'[o].want = asked.want /\ req'[o].plan = asked.plan
      BY <1>2, <1>4, <2>2, BeginIs, ZenonT(60)
    <3> QED
      BY <1>2, <3>1
  <2> QED
    BY <1>3, <2>1, <2>2
<1>6. Passed(o)
  BY <1>5 DEF Passed
<1>7. Fits(o)'
  BY <1>1, <1>5 DEF Begun, Fits, PhaseFits, AskFits, MovedFits, VideoKnown, DocumentPhases, ApplyPhases
<1> QED
  BY <1>5, <1>6, <1>7

LEMMA BeginEditIs ==
  ASSUME Basic, NEW o \in Requests, BeginEdit(o)
  PROVE  Begun(o) /\ Passed(o) /\ Fits(o)'
<1> DEFINE asked == [Idle EXCEPT !.op = "edit", !.want = o]
<1>1. /\ asked \in Request /\ asked.op = "edit" /\ asked.plan = {} /\ asked.want = o
      /\ asked.moved = {}
  <2>1. "edit" \in Ops /\ o \in Versions
    BY DEF Ops, Versions
  <2> QED
    BY <2>1, IdleIs DEF Request
<1>2. title # None /\ Begin(o, asked, TRUE, "stage")
  BY DEF BeginEdit
<1> HIDE DEF asked
<1>3. "stage" \in Phases
  BY DEF Phases
<1>4. /\ Begun(o) /\ Shown \in View /\ req'[o].phase = "stage"
      /\ req'[o].op = "edit" /\ req'[o].want = o /\ req'[o].plan = {}
  BY <1>1, <1>2, <1>3, BeginIs
<1>5. Passed(o)
  BY <1>2, <1>4 DEF Passed
<1>6. Fits(o)'
  BY <1>4 DEF Begun, Fits, PhaseFits, AskFits, MovedFits, VideoKnown, DocumentPhases
<1> QED
  BY <1>4, <1>5, <1>6

LEMMA BeginDeleteIs ==
  ASSUME Basic, NEW o \in Requests, BeginDelete(o)
  PROVE  Begun(o) /\ Passed(o) /\ Fits(o)'
<1> DEFINE asked == [Idle EXCEPT !.op = "delete"]
<1>1. asked \in Request /\ asked.op = "delete" /\ asked.plan = {} /\ asked.moved = {}
  <2>1. "delete" \in Ops
    BY DEF Ops
  <2> QED
    BY <2>1, IdleIs DEF Request
<1>2. title # None /\ Begin(o, asked, TRUE, "away")
  BY DEF BeginDelete
<1> HIDE DEF asked
<1>3. "away" \in Phases
  BY DEF Phases
<1>4. /\ Begun(o) /\ Shown \in View /\ req'[o].phase = "away"
      /\ req'[o].op = "delete" /\ req'[o].plan = {}
  BY <1>1, <1>2, <1>3, BeginIs
<1>5. Passed(o)
  BY <1>2, <1>4 DEF Passed
<1>6. Fits(o)'
  BY <1>4 DEF Begun, Fits, PhaseFits, AskFits, MovedFits, VideoKnown, DocumentPhases, ApplyPhases
<1> QED
  BY <1>4, <1>5, <1>6

LEMMA BeginRenumberIs ==
  ASSUME Basic, NEW o \in Requests, NEW n \in Numbers, NEW m \in Numbers, BeginRenumber(o, n, m)
  PROVE  Begun(o) /\ Passed(o) /\ Fits(o)'
<1> DEFINE asked == [Idle EXCEPT !.op = "renumber", !.plan = {n, m}, !.from = n,
                                 !.video = episodes[n].video]
<1>1. kind = "series" /\ n # m /\ episodes[n] # None /\ Begin(o, asked, NoConflict({m}), "rename")
  BY DEF BeginRenumber
<1>2. episodes[n] \in EpisodeRow /\ episodes[n].video \in Videos
  BY <1>1 DEF Basic, Types, EpisodeRow
<1>3. /\ asked \in Request /\ asked.op = "renumber" /\ asked.plan = {n, m} /\ asked.from = n
      /\ asked.moved = {} /\ asked.video = episodes[n].video
  <2>1. "renumber" \in Ops
    BY DEF Ops
  <2> QED
    BY <1>2, <2>1, IdleIs DEF Request
<1> HIDE DEF asked
<1>4. "rename" \in Phases
  BY DEF Phases
<1>5. /\ Begun(o) /\ Shown \in View
      /\ req'[o].phase = IF NoConflict({m}) THEN "rename" ELSE "refused"
      /\ req'[o].op = "renumber" /\ req'[o].plan = {n, m} /\ req'[o].from = n
      /\ req'[o].video = episodes[n].video
  BY <1>1, <1>3, <1>4, BeginIs
<1>6. To(o)' = m
  BY <1>1, <1>5 DEF To
<1>7. Passed(o)
  BY <1>1, <1>5, <1>6 DEF Passed
<1>8. PhaseFits(o)' /\ AskFits(o)' /\ MovedFits(o)'
  BY <1>1, <1>2, <1>5, <1>6
     DEF Begun, PhaseFits, AskFits, MovedFits, DocumentPhases, ApplyPhases
<1>9. VideoKnown(o)'
  <2>1. ASSUME episodes[n].video.by # First
        PROVE  /\ req[episodes[n].video.by].phase = "ok" /\ episodes[n].video.by \in Requests
    BY <1>1, <1>2, <2>1 DEF Basic, RowsApart, Videos, Versions
  <2> QED
    BY <1>5, <2>1 DEF VideoKnown, Begun, At
<1> QED
  BY <1>5, <1>7, <1>8, <1>9 DEF Fits

LEMMA AskIs ==
  ASSUME Basic, NEW o \in Requests, Ask(o)
  PROVE  Begun(o) /\ Passed(o) /\ Fits(o)'
BY BeginUploadIs, BeginCreateIs, BeginEditIs, BeginDeleteIs, BeginRenumberIs DEF Ask

LEMMA AskBasic ==
  ASSUME Basic, NEW o \in Requests, Ask(o)
  PROVE  Basic'
<1>1. Begun(o) /\ Passed(o) /\ Fits(o)'
  BY AskIs
<1>2. /\ req' \in [Requests -> Request] /\ \A p \in Requests \ {o} : req'[p] = req[p]
      /\ req[o].phase = "idle"
      /\ UNCHANGED <<kind, folder, trash, title, episodes, troubles>>
  BY <1>1 DEF Begun, At
<1>3. Types'
  <2>1. req'[o].plan \subseteq Numbers /\ \A p \in Requests : Targets(req[p]) \subseteq Numbers
    BY <1>2 DEF Basic, Types, Request, Targets
  <2>2. Targets(req'[o]) \subseteq Numbers
    BY <2>1 DEF Targets
  <2>3. contested' \subseteq Numbers /\ overlapped' \subseteq Requests
    <3>1. overlapped \subseteq Requests /\ contested \subseteq Numbers
      BY DEF Basic, Types
    <3>2. Others \subseteq Requests
      BY DEF Others
    <3>3. overlapped' = IF Others = {} THEN overlapped ELSE overlapped \cup Others \cup {o}
      BY <1>1 DEF Begun
    <3>4. overlapped' \subseteq Requests
      BY <3>1, <3>2, <3>3
    <3>5. Met(req'[o]) \subseteq Numbers
      BY <2>1, <2>2 DEF Met, Common, Unfinished
    <3>6. Led(req'[o]) \subseteq Numbers
      BY <1>2 DEF Led, Request
    <3>7. contested' = contested \cup Met(req'[o]) \cup Led(req'[o])
      BY <1>1 DEF Begun
    <3>8. contested' \subseteq Numbers
      BY <3>1, <3>5, <3>6, <3>7
    <3> QED
      BY <3>4, <3>8
  <2> QED
    BY <1>2, <2>3 DEF Basic, Types
<1>4. ASSUME NEW q \in Requests, req[q].phase = "ok"
      PROVE  req'[q].phase = "ok"
  BY <1>2, <1>4
<1>5. ASSUME NEW p \in Requests
      PROVE  WellMade(p)' /\ VideoKnown(p)'
  <2>1. CASE p = o
    <3>1. TrashFits(o)'
      BY <1>2, FitsIs DEF TrashFits
    <3> QED
      BY <1>1, <2>1, <3>1 DEF Fits, WellMade
  <2>2. CASE p # o
    <3>1. WellMade(p) /\ VideoKnown(p) /\ req'[p] = req[p] /\ trash' = trash
      BY <1>2, <2>2 DEF Basic
    <3>2. PhaseFits(p)' /\ MovedFits(p)' /\ TrashFits(p)'
      BY <3>1 DEF WellMade, PhaseFits, MovedFits, TrashFits
    <3>3. AskFits(p)'
      BY <1>2, <3>1 DEF WellMade, AskFits, To
    <3>4. req[p].op = "renumber" => req[p].video.by \in Versions
      BY <3>1 DEF WellMade, AskFits, Videos
    <3>5. VideoKnown(p)'
      BY <1>4, <3>1, <3>4 DEF VideoKnown, Versions
    <3> QED
      BY <3>2, <3>3, <3>5 DEF WellMade
  <2> QED
    BY <2>1, <2>2
<1>6. RowsApart'
  <2>1. \A n \in Numbers : episodes[n] # None => episodes[n].video.by \in Versions
    BY DEF Basic, Types, EpisodeRow, Videos
  <2> QED
    BY <1>2, <1>4, <2>1 DEF Basic, RowsApart, Versions
<1>7. NotStarted'
  <2>1. \A p \in Requests : req'[p].phase \in {"idle", "stage"} => req[p].phase \in {"idle", "stage"}
    BY <1>2
  <2> QED
    BY <1>2, <2>1 DEF Basic, NotStarted, Untouched
<1>8. Lonely'
  <2>1. /\ Others = {} => overlapped' = overlapped
        /\ Others # {} => overlapped' = overlapped \cup Others \cup {o}
    BY <1>1 DEF Begun
  <2>2. \A p \in Requests \ {o} : Active(p)' => p \in Others
    BY <1>2 DEF Active, Others
  <2>3. ASSUME NEW p \in Requests, NEW q \in Requests, Active(p)', Active(q)', p # q
        PROVE  {p, q} \subseteq overlapped'
    <3>1. CASE p # o /\ q # o
      BY <2>1, <2>2, <2>3, <3>1 DEF Basic, Lonely, Others
    <3>2. CASE p = o \/ q = o
      BY <2>1, <2>2, <2>3, <3>2
    <3> QED
      BY <3>1, <3>2
  <2> QED
    BY <2>3 DEF Lonely
<1> QED
  BY <1>3, <1>5, <1>6, <1>7, <1>8 DEF Basic

-----------------------------------------------------------------------------------
(* The process stops.                                                                *)
LEMMA StopIs ==
  ASSUME Basic, Stop
  PROVE  /\ req' \in [Requests -> Request]
         /\ \A o \in Requests :
              /\ Active(o) => req'[o].phase =
                   IF req[o].phase \in {"renamed", "renameBack", "rows", "back"}
                     THEN "caught" ELSE "stopped"
              /\ ~Active(o) => req'[o].phase = req[o].phase
              /\ ~Active(o)' /\ (Open(o)' => Open(o))
              /\ req'[o].op = req[o].op /\ req'[o].want = req[o].want
              /\ req'[o].plan = req[o].plan /\ req'[o].from = req[o].from
              /\ req'[o].video = req[o].video /\ req'[o].moved = req[o].moved
              /\ req'[o].before = req[o].before /\ req'[o].since = req[o].since
         /\ UNCHANGED <<kind, folder, trash, title, episodes, overlapped, contested>>
<1>1. req \in [Requests -> Request]
  BY DEF Basic, Types
<1> DEFINE left(o) == IF req[o].phase \in {"renamed", "renameBack", "rows", "back"}
                        THEN "caught" ELSE "stopped"
<1>2. /\ req' = [o \in Requests |-> IF ~Active(o) THEN req[o] ELSE [req[o] EXCEPT !.phase = left(o)]]
      /\ UNCHANGED <<kind, folder, trash, title, episodes, overlapped, contested>>
  BY <1>1 DEF Stop, disk, catalogue, history, Request
<1>3. \A o \in Requests : left(o) \in Phases /\ left(o) \in {"caught", "stopped"}
  BY DEF Phases, Answers, Unsettled
<1>4. {"caught", "stopped"} \subseteq Answers
  BY DEF Answers, Unsettled
<1> HIDE DEF left
<1>5. ASSUME NEW o \in Requests
      PROVE  /\ req'[o] \in Request
             /\ Active(o) => req'[o].phase = left(o)
             /\ ~Active(o) => req'[o].phase = req[o].phase
             /\ req'[o].op = req[o].op /\ req'[o].want = req[o].want
             /\ req'[o].plan = req[o].plan /\ req'[o].from = req[o].from
             /\ req'[o].video = req[o].video /\ req'[o].moved = req[o].moved
             /\ req'[o].before = req[o].before /\ req'[o].since = req[o].since
  <2>1. req[o] \in Request /\ req'[o] = IF ~Active(o) THEN req[o] ELSE [req[o] EXCEPT !.phase = left(o)]
    BY <1>1, <1>2
  <2>2. CASE Active(o)
    BY <1>3, <2>1, <2>2 DEF Request
  <2>3. CASE ~Active(o)
    BY <2>1, <2>3
  <2> QED
    BY <2>2, <2>3
<1>6. \A o \in Requests : ~Active(o)' /\ (Open(o)' => Open(o))
  BY <1>3, <1>4, <1>5 DEF Active, Open
<1>7. req' \in [Requests -> Request]
  BY <1>2, <1>5
<1> QED
  BY <1>2, <1>5, <1>6, <1>7 DEF left

LEMMA StopBasic == ASSUME Basic, Stop PROVE Basic'
<1>1. /\ req' \in [Requests -> Request]
      /\ \A o \in Requests :
              /\ Active(o) => req'[o].phase =
                   IF req[o].phase \in {"renamed", "renameBack", "rows", "back"}
                     THEN "caught" ELSE "stopped"
              /\ ~Active(o) => req'[o].phase = req[o].phase
              /\ ~Active(o)'
              /\ req'[o].op = req[o].op /\ req'[o].want = req[o].want
              /\ req'[o].plan = req[o].plan /\ req'[o].from = req[o].from
              /\ req'[o].video = req[o].video /\ req'[o].moved = req[o].moved
              /\ req'[o].before = req[o].before
      /\ UNCHANGED <<kind, folder, trash, title, episodes, overlapped, contested>>
  BY StopIs
<1>2. troubles' \in 0..MaxTroubles
  BY SpentIs DEF Stop, Basic
<1>3. Types'
  BY <1>1, <1>2 DEF Basic, Types
<1>4. ASSUME NEW q \in Requests, req[q].phase = "ok"
      PROVE  req'[q].phase = "ok"
  BY <1>1, <1>4 DEF Active, Answers, Unsettled
<1>5. ASSUME NEW o \in Requests
      PROVE  WellMade(o)' /\ VideoKnown(o)'
  <2>1. PhaseFits(o) /\ AskFits(o) /\ MovedFits(o) /\ TrashFits(o) /\ VideoKnown(o)
    BY DEF Basic, WellMade
  <2>2. \/ req'[o].phase = req[o].phase
        \/ req'[o].phase = "stopped" /\ Active(o)
        \/ /\ req'[o].phase = "caught"
           /\ req[o].phase \in {"renamed", "renameBack", "rows", "back"}
    BY <1>1
  <2>3. PhaseFits(o)' /\ MovedFits(o)' /\ TrashFits(o)'
    BY <1>1, <2>1, <2>2 DEF PhaseFits, MovedFits, TrashFits, DocumentPhases, ApplyPhases, Active
  <2>4. AskFits(o)'
    BY <1>1, <2>1 DEF AskFits, To
  <2>5. req[o].op = "renumber" => req[o].video.by \in Versions
    BY <2>1 DEF AskFits, Videos
  <2>6. VideoKnown(o)'
    BY <1>1, <1>4, <2>1, <2>5 DEF VideoKnown, Versions
  <2> QED
    BY <2>3, <2>4, <2>6 DEF WellMade
<1>6. RowsApart'
  <2>1. \A n \in Numbers : episodes[n] # None => episodes[n].video.by \in Versions
    BY DEF Basic, Types, EpisodeRow, Videos
  <2> QED
    BY <1>1, <1>4, <2>1 DEF Basic, RowsApart, Versions
<1>7. NotStarted'
  <2>1. \A o \in Requests : req'[o].phase \in {"idle", "stage"} => req[o].phase \in {"idle", "stage"}
    BY <1>1
  <2> QED
    BY <1>1, <2>1 DEF Basic, NotStarted, Untouched
<1>8. Lonely'
  BY <1>1 DEF Lonely
<1> QED
  BY <1>3, <1>5, <1>6, <1>7, <1>8 DEF Basic

(* A step of a request, that leaves rows and set-aside folders alone or is one of    *)
(* six.                                                                              *)
RowsStep(o) ==
  \/ UpdateMovie(o) \/ UpdateSeries(o) \/ UpdateReading(o)
  \/ Register(o) \/ Renumber(o) \/ DeleteRows(o)

TrashStep(o) == Away(o) \/ Back(o) \/ Purge(o)

LEMMA StepIs ==
  ASSUME Basic, NEW o \in Requests, Step(o)
  PROVE  /\ Active(o) /\ Onward(o) /\ Basic' /\ UNCHANGED <<kind, history>>
         /\ FolderStep(o) \/ RowsStep(o) \/ TrashStep(o)
<1>1. CASE \/ StageFails(o) \/ RowFails(o) \/ RowTorn(o) \/ MoveFails(o) \/ InstallFails(o)
           \/ RenameFails(o) \/ RenameBackFails(o) \/ AwayFails(o) \/ DeleteRowsFail(o)
           \/ BackFails(o) \/ PurgeFails(o)
  BY <1>1, QuietStepIs, FolderStepBasic DEF FolderStep
<1>2. CASE StageContent(o) \/ StageSeries(o) \/ StageReading(o) \/ PrevOut(o) \/ PrevIn(o)
           \/ DocOut(o) \/ DocIn(o) \/ ApplyFails(o) \/ PosterFails(o)
  <2>1. FolderStep(o)
    BY <1>2, StageIs, PrevOutIs, PrevInIs, DocOutIs, DocInIs, ApplyFailsIs, PosterFailsIs
  <2> QED
    BY <2>1, FolderStepBasic DEF FolderStep
<1>3. CASE Settle(o) \/ UndoDoc(o) \/ UndoAside(o) \/ UndoMoves(o)
           \/ (\E n \in Numbers : Move(o, n)) \/ Install(o) \/ RegisterFails(o)
  <2>1. FolderStep(o)
    BY <1>3, SettleIs, UndoDocIs, UndoAsideIs, UndoMovesIs, MoveIs, InstallIs, RegisterFailsIs
  <2> QED
    BY <2>1, FolderStepBasic DEF FolderStep
<1>4. CASE Rename(o) \/ RenumberFails(o) \/ RenameBack(o)
  <2>1. FolderStep(o)
    BY <1>4, RenameIs, RenumberFailsIs, RenameBackIs
  <2> QED
    BY <2>1, FolderStepBasic DEF FolderStep
<1>5. CASE RowsStep(o)
  <2>1. Onward(o) /\ Basic' /\ UNCHANGED <<kind, history>>
        /\ req[o].phase \in {"row", "register", "renamed", "rows"}
    BY <1>5, RowUpdatedIs, RegisterIs, RenumberIs, DeleteRowsIs DEF RowsStep, At
  <2> QED
    BY <1>5, <2>1 DEF Active, Answers, Unsettled
<1>6. CASE TrashStep(o)
  <2>1. Onward(o) /\ Basic' /\ UNCHANGED <<kind, history>>
        /\ req[o].phase \in {"away", "back", "purge"}
    BY <1>6, AwayIs, BackIs, PurgeIs DEF TrashStep, At
  <2> QED
    BY <1>6, <2>1 DEF Active, Answers, Unsettled
<1> QED
  BY <1>1, <1>2, <1>3, <1>4, <1>5, <1>6
  DEF Step, DocumentStep, UploadStep, RenumberStep, DeleteStep, RowsStep, TrashStep

LEMMA NextBasic == ASSUME Basic, [Next]_vars PROVE Basic'
<1>1. CASE Stop
  BY <1>1, StopBasic
<1>2. ASSUME NEW o \in Requests, Ask(o) \/ Step(o)
      PROVE  Basic'
  BY <1>2, AskBasic, StepIs
<1>3. CASE UNCHANGED vars
  <2>1. UNCHANGED <<kind, folder, trash, title, episodes, req, troubles, overlapped, contested>>
    BY <1>3 DEF vars, disk, catalogue, history
  <2> QED
    <3>1. Types' /\ RowsApart' /\ NotStarted' /\ Lonely'
      BY <2>1 DEF Basic, Types, RowsApart, NotStarted, Untouched, Lonely, Active
    <3>2. ASSUME NEW o \in Requests
          PROVE  WellMade(o)' /\ VideoKnown(o)'
      <4>1. WellMade(o) /\ VideoKnown(o)
        BY DEF Basic
      <4>2. PhaseFits(o)' /\ MovedFits(o)' /\ TrashFits(o)'
        BY <2>1, <4>1 DEF WellMade, PhaseFits, MovedFits, TrashFits
      <4>3. AskFits(o)'
        BY <2>1, <4>1 DEF WellMade, AskFits, To
      <4> QED
        BY <2>1, <4>1, <4>2, <4>3 DEF WellMade, VideoKnown
    <3> QED
      BY <3>1, <3>2 DEF Basic
<1> QED
  BY <1>1, <1>2, <1>3 DEF Next

LEMMA BasicGivesTypeOK == Basic => TypeOK
<1> SUFFICES ASSUME Basic PROVE TypeOK
  OBVIOUS
<1>1. /\ kind \in Kinds /\ folder \in Folder /\ (~folder.here => folder = NoFolder)
      /\ trash \in [Requests -> Folder] /\ title \in Versions \cup {None}
      /\ episodes \in [Numbers -> EpisodeRow \cup {None}] /\ troubles \in 0..MaxTroubles
      /\ overlapped \subseteq Requests /\ contested \subseteq Numbers
  BY DEF Basic, Types, Trees
<1>2. title = None => \A n \in Numbers : episodes[n] = None
  BY DEF Basic, RowsApart
<1>3. ASSUME NEW o \in Requests
      PROVE  /\ req[o].op \in Ops /\ req[o].phase \in Phases
             /\ req[o].want \in Versions \cup {None} /\ req[o].seen \in Versions \cup {None}
             /\ req[o].plan \subseteq Numbers /\ req[o].moved \subseteq req[o].plan
             /\ req[o].since \in 0..MaxTroubles
             /\ trash[o].here => req[o].op = "delete"
  BY FitsIs DEF Basic, Types, Request, MovedFits, TrashFits
<1> QED
  BY <1>1, <1>2, <1>3 DEF TypeOK

(* Every variable keeps its type, a folder that is not there is empty, a series that *)
(* is not in the catalogue has no episodes there, and only a deletion sets a folder  *)
(* aside, whatever requests are made, cross, fail or stop.                           *)
THEOREM TypeCorrect == Spec => []TypeOK
<1>1. Init => Basic
  BY InitBasic
<1>2. Basic /\ [Next]_vars => Basic'
  BY NextBasic
<1>3. Spec => []Basic
  BY <1>1, <1>2, PTL DEF Spec
<1> QED
  BY <1>3, BasicGivesTypeOK, PTL

-----------------------------------------------------------------------------------
(* Episodes.  What a step of request o does to the numbers it is about, and to the   *)
(* others.                                                                           *)
Frame(o) ==
  \A n \in Numbers \ (Targets(req[o]) \cup contested) :
    episodes'[n] = episodes[n] /\ folder'.videos[n] = folder.videos[n]

Own(o) ==
  \A n \in Targets(req[o]) \ contested :
    IF Open(o)' THEN Progress(o, n)' ELSE KeptIn(folder, n)'

LEMMA OnwardKeeps ==
  ASSUME Basic, NEW o \in Requests, Active(o), Onward(o)
  PROVE  /\ To(o)' = To(o) /\ Targets(req[o])' = Targets(req[o])
         /\ \A p \in Requests \ {o} :
              To(p)' = To(p) /\ Targets(req[p])' = Targets(req[p]) /\ Open(p)' = Open(p)
         /\ Open(o) /\ \A p \in Requests : (Open(p)' => Open(p)) /\ (Active(p)' => Active(p))
BY DEF Onward, To, Targets, Open, Active

LEMMA TargetsAre ==
  ASSUME Basic, NEW p \in Requests
  PROVE  /\ Targets(req[p]) \subseteq Numbers
         /\ req[p].op = "delete" => Targets(req[p]) = Numbers
         /\ req[p].op # "delete" => Targets(req[p]) = req[p].plan
         /\ req[p].op = "renumber" =>
              /\ Targets(req[p]) = {req[p].from, To(p)}
              /\ req[p].from \in Numbers /\ To(p) \in Numbers /\ To(p) # req[p].from
              /\ req[p].video \in Videos
BY FitsIs DEF Targets, AskFits, Basic, Types, Request

(* Two requests at work on an episode nobody contested are one.                      *)
LEMMA OnlyOne ==
  ASSUME Basic, Episodic, NEW o \in Requests, NEW p \in Requests, Open(o), Open(p), p # o,
         NEW n \in Targets(req[p]) \ contested
  PROVE  /\ n \notin Targets(req[o])
         /\ req[p].op = "renumber" => \A m \in Targets(req[p]) : m \notin Targets(req[o]) \cup contested
<1>1. Targets(req[p]) \cap Targets(req[o]) \subseteq contested
  BY DEF Episodic, Contention
<1>2. ASSUME req[p].op = "renumber"
      PROVE  Targets(req[p]) \cap contested = {}
  <2>1. Targets(req[p]) = req[p].plan
    BY <1>2, TargetsAre
  <2> QED
    BY <1>2, <2>1 DEF Episodic, Together, Renumbering, Open
<1> QED
  BY <1>1, <1>2

LEMMA EpisodesCarry ==
  ASSUME Basic, Basic', Episodic, NEW o \in Requests, Active(o), Onward(o), UNCHANGED history,
         \A p \in Requests \ {o} : trash'[p] = trash[p],
         Traced',
         Frame(o), Own(o)
  PROVE  Episodic'
<1> USE DEF history
<1>1. /\ To(o)' = To(o) /\ Targets(req[o])' = Targets(req[o])
      /\ \A p \in Requests \ {o} :
           To(p)' = To(p) /\ Targets(req[p])' = Targets(req[p]) /\ Open(p)' = Open(p)
      /\ Open(o) /\ \A p \in Requests : Open(p)' => Open(p)
  BY OnwardKeeps
<1>2. Contention'
  BY <1>1 DEF Episodic, Contention
<1>3. Together'
  <2>1. \A p \in Requests : req'[p].op = req[p].op /\ req'[p].plan = req[p].plan
    BY DEF Onward
  <2> QED
    BY <1>1, <2>1 DEF Episodic, Together, Renumbering, Open
<1>4. EpisodesInOrder'
  <2> SUFFICES ASSUME NEW n \in Numbers \ contested'
               PROVE  /\ ~Busy(n)' => KeptIn(folder, n)'
                      /\ \A p \in Requests : Open(p)' /\ n \in Targets(req[p])' => Progress(p, n)'
    BY DEF EpisodesInOrder
  <2>1. n \in Numbers \ contested /\ contested' = contested
    OBVIOUS
  <2>4. /\ ~Busy(n) => KeptIn(folder, n)
        /\ \A p \in Requests : Open(p) /\ n \in Targets(req[p]) => Progress(p, n)
    BY <2>1 DEF Episodic, EpisodesInOrder
  <2>5. CASE n \notin Targets(req[o])
    <3>1. episodes'[n] = episodes[n] /\ folder'.videos[n] = folder.videos[n]
      BY <2>1, <2>5 DEF Frame
    <3>2. Busy(n) => Busy(n)'
      BY <1>1, <2>5 DEF Busy, Onward
    <3>3. ~Busy(n)' => KeptIn(folder, n)'
      BY <2>4, <3>1, <3>2 DEF KeptIn, Listed
    <3>4. ASSUME NEW p \in Requests, Open(p)', n \in Targets(req[p])'
          PROVE  Progress(p, n)'
      <4>1. /\ p # o /\ Open(p) /\ n \in Targets(req[p]) /\ To(p)' = To(p)
            /\ req'[p] = req[p] /\ trash'[p] = trash[p]
        BY <1>1, <2>5, <3>4 DEF Onward
      <4>2. Progress(p, n)
        BY <2>4, <4>1
      <4>3. CASE req[p].op = "renumber"
        <5>1. /\ req[p].from \in Numbers \ (Targets(req[o]) \cup contested)
              /\ To(p) \in Numbers \ (Targets(req[o]) \cup contested)
          <6>1. /\ Targets(req[p]) = {req[p].from, To(p)}
                /\ req[p].from \in Numbers /\ To(p) \in Numbers
            BY <4>3, TargetsAre
          <6>2. \A m \in Targets(req[p]) : m \notin Targets(req[o]) \cup contested
            BY <2>1, <4>1, <4>3, OnlyOne DEF Open
          <6> QED
            BY <6>1, <6>2
        <5>2. /\ episodes'[req[p].from] = episodes[req[p].from]
              /\ folder'.videos[req[p].from] = folder.videos[req[p].from]
              /\ episodes'[To(p)] = episodes[To(p)]
              /\ folder'.videos[To(p)] = folder.videos[To(p)]
          BY <5>1 DEF Frame
        <5> QED
          BY <4>1, <4>2, <4>3, <5>2 DEF Progress, Listed, KeptIn
      <4>4. CASE req[p].op # "renumber"
        BY <3>1, <4>1, <4>2, <4>4 DEF Progress, Listed, KeptIn, Video
      <4> QED
        BY <4>3, <4>4
    <3> QED
      BY <3>3, <3>4
  <2>6. CASE n \in Targets(req[o])
    <3>1. IF Open(o)' THEN Progress(o, n)' ELSE KeptIn(folder, n)'
      BY <2>1, <2>6 DEF Own
    <3>2. ASSUME NEW p \in Requests, Open(p)', n \in Targets(req[p])'
          PROVE  p = o
      BY <1>1, <2>1, <2>6, <3>2, OnlyOne
    <3>3. ASSUME ~Busy(n)'
          PROVE  KeptIn(folder, n)'
      <4>1. CASE ~Open(o)'
        BY <3>1, <4>1
      <4>2. CASE Open(o)'
        <5>1. req'[o].op \notin {"renumber", "delete"} /\ req'[o].op = req[o].op
          BY <1>1, <2>6, <3>3, <4>2 DEF Busy, Onward
        <5>2. req[o].op \in {"upload", "create"}
          BY <2>6, <5>1, FitsIs DEF Targets, AskFits, Ops, PhaseFits, Open, Active
        <5>3. ~Listed(n)'
          BY <3>1, <4>2, <5>1, <5>2 DEF Progress
        <5> QED
          BY <5>3 DEF KeptIn
      <4> QED
        BY <4>1, <4>2
    <3> QED
      BY <3>1, <3>2, <3>3
  <2> QED
    BY <2>5, <2>6
<1> QED
  BY <1>2, <1>3, <1>4 DEF Episodic

LEMMA TracedStays ==
  ASSUME Basic, Episodic, NEW o \in Requests, Active(o), Onward(o), UNCHANGED history,
         episodes' = episodes
  PROVE  Traced'
<1>1. /\ \A p \in Requests : Open(p)' => Open(p)
      /\ \A p \in Requests : req'[p].op = req[p].op /\ req'[p].video = req[p].video
                             /\ req'[p].from = req[p].from
  BY OnwardKeeps DEF Onward
<1>2. contested' = contested
  BY DEF history
<1> QED
  BY <1>1, <1>2 DEF Episodic, Traced, Renumbering, Open

(* What is known of an episode that o alone is about.                                *)
LEMMA Knows ==
  ASSUME Basic, Episodic, NEW o \in Requests, Active(o),
         NEW n \in Targets(req[o]) \ contested
  PROVE  Progress(o, n) /\ n \in Numbers
BY TargetsAre DEF Episodic, EpisodesInOrder, Open

(* A step that moves no video and changes no row.                                    *)
LEMMA VideosStay ==
  ASSUME Basic, Basic', Episodic, NEW o \in Requests, Active(o), Onward(o),
         UNCHANGED <<kind, trash, episodes, history>>,
         folder'.videos = folder.videos, req'[o].moved = req[o].moved,
         req[o].op = "create" => req'[o].phase # "register",
         req[o].op = "renumber" =>
           \/ At(o, "rename") /\ req'[o].phase = "refused"
           \/ At(o, "renamed") /\ req'[o].phase = "renameBack"
           \/ At(o, "renameBack") /\ req'[o].phase = "refused" /\ folder.videos[To(o)] = None
           \/ At(o, "renameBack") /\ req'[o].phase = "broken",
         req[o].op = "delete" =>
           \/ At(o, "away") /\ req'[o].phase = "refused"
           \/ At(o, "rows") /\ req'[o].phase = "back"
           \/ At(o, "rows") /\ req'[o].phase = "refused" /\ ~trash[o].here
           \/ At(o, "back") /\ req'[o].phase = "broken"
           \/ At(o, "purge") /\ req'[o].phase = "ok"
  PROVE  Episodic'
<1>1. Traced'
  BY TracedStays
<1>2. Frame(o)
  BY DEF Frame
<1>3. Own(o)
  <2> SUFFICES ASSUME NEW n \in Targets(req[o]) \ contested
               PROVE  IF Open(o)' THEN Progress(o, n)' ELSE KeptIn(folder, n)'
    BY DEF Own
  <2>1. Progress(o, n) /\ n \in Numbers
    BY Knows
  <2>2. /\ req'[o].op = req[o].op /\ To(o)' = To(o) /\ req'[o].from = req[o].from
        /\ req'[o].video = req[o].video /\ req'[o].plan = req[o].plan
    BY OnwardKeeps DEF Onward
  <2>3. CASE req[o].op \in {"upload", "create"}
    <3>1. ~Listed(n)' /\ Targets(req[o]) = req[o].plan
      BY <2>1, <2>3, TargetsAre DEF Progress, Listed
    <3>2. MovedFits(o)'
      BY DEF Basic, WellMade
    <3>3. n \in req'[o].moved \/ req'[o].phase = "register" => folder'.videos[n] = Video(o, n)
      BY <2>1, <2>2, <2>3, <3>1, <3>2 DEF Progress, MovedFits
    <3> QED
      BY <2>2, <2>3, <3>1, <3>3 DEF Progress, KeptIn, Video
  <2>4. CASE req[o].op = "renumber"
    <3>1. n \in {req[o].from, To(o)} /\ req[o].video # None
      BY <2>4, TargetsAre, NoneAssumption
    <3>2. CASE req'[o].phase = "refused"
      <4>1. ~Open(o)'
        BY <3>2 DEF Open, Active, Answers, Unsettled
      <4>2. KeptIn(folder, n)'
        BY <2>1, <2>4, <3>1, <3>2 DEF Progress, KeptIn, Listed, At
      <4> QED
        BY <4>1, <4>2
    <3>3. CASE req'[o].phase \in {"renameBack", "broken"}
      <4>1. Open(o)' /\ req[o].phase \in {"renamed", "renameBack"}
        BY <2>4, <3>3 DEF Open, Active, Answers, Unsettled, At
      <4> QED
        BY <2>1, <2>2, <2>4, <3>3, <4>1 DEF Progress, KeptIn, Listed, Unsettled
    <3> QED
      BY <2>4, <3>2, <3>3
  <2>5. CASE req[o].op = "delete"
    <3>1. CASE req'[o].phase \in {"back", "broken"}
      <4>1. Open(o)' /\ req[o].phase \in {"rows", "back"}
        BY <2>5, <3>1 DEF Open, Active, Answers, Unsettled, At
      <4> QED
        BY <2>1, <2>2, <2>5, <3>1, <4>1 DEF Progress, KeptIn, Listed, Unsettled
    <3>2. CASE req'[o].phase \in {"refused", "ok"}
      <4>1. ~Open(o)'
        BY <3>2 DEF Open, Active, Answers, Unsettled
      <4>2. CASE At(o, "rows")
        <5>1. trash[o] = NoFolder /\ KeptIn(trash[o], n)
          BY <2>1, <2>5, <3>2, <4>2 DEF At, Progress, Basic, Types, Trees
        <5>2. episodes \in [Numbers -> EpisodeRow \cup {None}]
          BY DEF Basic, Types
        <5>3. ~Listed(n)
          <6>1. NoFolder.videos[n] = None
            BY <2>1 DEF NoFolder
          <6>2. episodes[n] # None => episodes[n].video # None
            BY <2>1, <5>2, NoneAssumption DEF EpisodeRow
          <6> QED
            BY <5>1, <6>1, <6>2 DEF KeptIn, Listed
        <5> QED
          BY <4>1, <5>3 DEF KeptIn, Listed
      <4>3. CASE At(o, "away") \/ At(o, "purge")
        BY <2>1, <2>5, <4>1, <4>3 DEF Progress, KeptIn, Listed, At
      <4> QED
        BY <2>5, <3>2, <4>2, <4>3
    <3> QED
      BY <2>5, <3>1, <3>2
  <2>6. CASE req[o].op \notin {"upload", "create", "renumber", "delete"}
    <3>1. Targets(req[o]) = {}
      BY <2>6, FitsIs, TargetsAre DEF Open, Active, PhaseFits, AskFits, Ops
    <3> QED
      BY <3>1
  <2> QED
    BY <2>3, <2>4, <2>5, <2>6
<1> QED
  BY <1>1, <1>2, <1>3, EpisodesCarry

(* The steps that move videos.                                                       *)
LEMMA MoveEpisodes ==
  ASSUME Basic, Episodic, NEW o \in Requests, NEW m \in Numbers, Move(o, m)
  PROVE  Episodic'
<1>1. /\ At(o, "move") /\ FolderStep(o) /\ req[o].op = "upload" /\ m \in req[o].plan
      /\ req'[o].moved = req[o].moved \cup {m}
      /\ req'[o].phase \in {"settle", "move"}
      /\ folder'.videos = [folder.videos EXCEPT ![m] = Video(o, m)]
  BY MoveIs
<1>2. /\ Active(o) /\ Onward(o) /\ UNCHANGED <<kind, trash, episodes, history>>
      /\ Open(o)' /\ Basic' /\ folder.videos \in [Numbers -> Videos \cup {None}]
  BY <1>1, FolderStepBasic DEF FolderStep, catalogue, Open, Active, Answers, Unsettled, Basic, Types, Trees, Folder
<1>3. Targets(req[o]) = req[o].plan
  BY <1>1, TargetsAre
<1>4. Frame(o)
  BY <1>1, <1>2, <1>3 DEF Frame
<1>5. Own(o)
  <2> SUFFICES ASSUME NEW n \in Targets(req[o]) \ contested
               PROVE  Progress(o, n)'
    BY <1>2 DEF Own
  <2>1. Progress(o, n) /\ n \in Numbers
    BY <1>2, Knows
  <2>2. n \in req'[o].moved => folder'.videos[n] = Video(o, n)
    BY <1>1, <1>2, <2>1 DEF Progress
  <2>3. req'[o].op = "upload" /\ req'[o].phase # "register"
    BY <1>1, <1>2 DEF Onward
  <2> QED
    BY <1>1, <1>2, <2>1, <2>2, <2>3 DEF Progress, Listed, Video
<1> QED
  BY <1>2, <1>4, <1>5, TracedStays, EpisodesCarry

LEMMA UndoMovesEpisodes ==
  ASSUME Basic, Episodic, NEW o \in Requests, UndoMoves(o)
  PROVE  Episodic'
<1>1. /\ At(o, "undoMoves") /\ FolderStep(o) /\ req[o].op \in {"edit", "upload"}
      /\ req'[o].phase = "refused"
      /\ \E kept \in SUBSET req[o].moved : folder'.videos =
           [n \in Numbers |-> IF n \in req[o].moved \ kept THEN None ELSE folder.videos[n]]
  BY UndoMovesIs
<1>2. /\ Active(o) /\ Onward(o) /\ UNCHANGED <<kind, trash, episodes, history>>
      /\ ~Open(o)' /\ Basic'
  BY <1>1, FolderStepBasic DEF FolderStep, catalogue, Open, Active, Answers, Unsettled
<1>3. Targets(req[o]) = req[o].plan /\ req[o].moved \subseteq req[o].plan
  BY <1>1, TargetsAre, FitsIs DEF MovedFits
<1>4. Frame(o)
  BY <1>1, <1>2, <1>3 DEF Frame
<1>5. Own(o)
  <2> SUFFICES ASSUME NEW n \in Targets(req[o]) \ contested
               PROVE  KeptIn(folder, n)'
    BY <1>2 DEF Own
  <2>1. Progress(o, n) /\ req[o].op = "upload"
    BY <1>1, <1>2, <1>3, Knows, FitsIs DEF AskFits
  <2> QED
    BY <1>2, <2>1 DEF Progress, Listed, KeptIn
<1> QED
  BY <1>2, <1>4, <1>5, TracedStays, EpisodesCarry

LEMMA InstallEpisodes ==
  ASSUME Basic, Episodic, NEW o \in Requests, Install(o)
  PROVE  Episodic'
<1>1. /\ At(o, "install") /\ FolderStep(o) /\ req'[o].phase = "register"
      /\ req[o].op = "create" /\ (folder.here => Empty(folder))
      /\ folder'.videos = [n \in Numbers |-> IF n \in req[o].plan THEN Video(o, n) ELSE None]
  BY InstallIs
<1>2. /\ Active(o) /\ Onward(o) /\ UNCHANGED <<kind, trash, episodes, history>>
      /\ Open(o)' /\ Basic'
  BY <1>1, FolderStepBasic DEF FolderStep, catalogue, Open, Active, Answers, Unsettled
<1>3. Targets(req[o]) = req[o].plan
  BY <1>1, TargetsAre
<1>4. \A n \in Numbers : folder.videos[n] = None
  BY <1>1 DEF Basic, Types, Trees, Empty, NoFolder, Fresh
<1>5. Frame(o)
  BY <1>1, <1>2, <1>3, <1>4 DEF Frame
<1>6. Own(o)
  <2> SUFFICES ASSUME NEW n \in Targets(req[o]) \ contested
               PROVE  Progress(o, n)'
    BY <1>2 DEF Own
  <2>1. Progress(o, n) /\ n \in Numbers /\ n \in req[o].plan
    BY <1>2, <1>3, Knows
  <2>2. folder'.videos[n] = Video(o, n) /\ req'[o].op = "create"
    BY <1>1, <1>2, <2>1 DEF Onward
  <2> QED
    BY <1>1, <1>2, <2>1, <2>2 DEF Progress, Listed, Video
<1> QED
  BY <1>2, <1>5, <1>6, TracedStays, EpisodesCarry

LEMMA RenameEpisodes ==
  ASSUME Basic, Episodic, NEW o \in Requests, Rename(o)
  PROVE  Episodic'
<1> DEFINE from == req[o].from
<1>1. /\ At(o, "rename") /\ FolderStep(o)
      /\ \/ /\ folder.videos[from] = None /\ req'[o].phase = "refused"
            /\ folder' = Made(folder)
         \/ /\ folder.videos[from] # None /\ req'[o].phase = "renamed" /\ folder.here
            /\ folder' = Moved(folder, from, To(o))
  BY RenameIs
<1>2. /\ Active(o) /\ Onward(o) /\ UNCHANGED <<kind, trash, episodes, history>>
      /\ Basic' /\ folder \in Trees /\ folder.videos \in [Numbers -> Videos \cup {None}]
  BY <1>1, FolderStepBasic DEF FolderStep, catalogue, Basic, Types, Trees, Folder
<1>3. req[o].op = "renumber"
  BY <1>1, RenumbersIs DEF At
<1>4. /\ from \in Numbers /\ To(o) \in Numbers /\ To(o) # from /\ Targets(req[o]) = {from, To(o)}
      /\ req[o].moved = {} /\ req'[o].moved = {}
  BY <1>1, <1>3, TargetsAre, FitsIs DEF MovedFits, FolderStep, Onward
<1>5. CASE req'[o].phase = "refused"
  <2>1. folder'.videos = folder.videos
    BY <1>1, <1>2, <1>5, MadeIs
  <2> QED
    BY <1>1, <1>2, <1>3, <1>4, <1>5, <2>1, VideosStay
<1>6. CASE req'[o].phase = "renamed"
  <2>1. folder'.videos = [folder.videos EXCEPT ![To(o)] = folder.videos[from], ![from] = None]
    BY <1>1, <1>2, <1>4, <1>6, MovedIs
  <2>2. folder'.videos[To(o)] = folder.videos[from]
    BY <1>2, <1>4, <2>1
  <2>3. \A n \in Numbers \ {from, To(o)} : folder'.videos[n] = folder.videos[n]
    BY <1>2, <1>4, <2>1
  <2>4. Frame(o)
    BY <1>2, <1>4, <2>3 DEF Frame
  <2>5. Own(o)
    <3> SUFFICES ASSUME NEW n \in Targets(req[o]) \ contested
                 PROVE  Progress(o, n)'
      BY <1>2, <1>6 DEF Own, Open, Active, Answers, Unsettled
    <3>1. Progress(o, n)
      BY <1>2, Knows
    <3>2. /\ req'[o].op = "renumber" /\ To(o)' = To(o) /\ req'[o].from = from
          /\ req'[o].video = req[o].video
      BY <1>2, <1>3, OnwardKeeps DEF Onward
    <3>3. /\ ~Listed(To(o)) /\ episodes[from] # None /\ episodes[from].video = req[o].video
          /\ Listed(from) => folder.videos[from] = req[o].video
      BY <1>1, <1>3, <3>1 DEF Progress, KeptIn, At
    <3> QED
      BY <1>2, <1>6, <2>2, <3>2, <3>3 DEF Progress, Listed
  <2> QED
    BY <1>2, <2>4, <2>5, TracedStays, EpisodesCarry
<1> QED
  BY <1>1, <1>5, <1>6

LEMMA RenameBackEpisodes ==
  ASSUME Basic, Episodic, NEW o \in Requests, RenameBack(o)
  PROVE  Episodic'
<1> DEFINE from == req[o].from
<1>1. /\ At(o, "renameBack") /\ FolderStep(o) /\ req'[o].phase = "refused"
      /\ \/ folder.videos[To(o)] = None /\ folder' = folder
         \/ /\ folder.videos[To(o)] # None /\ folder.here
            /\ folder' = Moved(folder, To(o), from)
  BY RenameBackIs
<1>2. /\ Active(o) /\ Onward(o) /\ UNCHANGED <<kind, trash, episodes, history>>
      /\ Basic' /\ folder \in Trees /\ folder.videos \in [Numbers -> Videos \cup {None}]
      /\ ~Open(o)'
  BY <1>1, FolderStepBasic DEF FolderStep, catalogue, Basic, Types, Trees, Folder, Open, Active, Answers, Unsettled
<1>3. req[o].op = "renumber"
  BY <1>1, RenumbersIs DEF At
<1>4. /\ from \in Numbers /\ To(o) \in Numbers /\ To(o) # from /\ Targets(req[o]) = {from, To(o)}
      /\ req[o].moved = {} /\ req'[o].moved = {}
  BY <1>1, <1>3, TargetsAre, FitsIs DEF MovedFits, FolderStep, Onward
<1>5. CASE folder.videos[To(o)] = None /\ folder' = folder
  BY <1>1, <1>2, <1>3, <1>4, <1>5, VideosStay
<1>6. CASE folder.videos[To(o)] # None
  <2>1. folder'.videos = [folder.videos EXCEPT ![from] = folder.videos[To(o)], ![To(o)] = None]
    BY <1>1, <1>2, <1>4, <1>6, MovedIs
  <2>2. folder'.videos[from] = folder.videos[To(o)]
    BY <1>2, <1>4, <2>1
  <2>3. \A n \in Numbers \ {from, To(o)} : folder'.videos[n] = folder.videos[n]
    BY <1>2, <1>4, <2>1
  <2>4. Frame(o)
    BY <1>2, <1>4, <2>3 DEF Frame
  <2>5. Own(o)
    <3> SUFFICES ASSUME NEW n \in Targets(req[o]) \ contested
                 PROVE  KeptIn(folder, n)'
      BY <1>2 DEF Own
    <3>1. Progress(o, n) /\ n \in {from, To(o)}
      BY <1>2, <1>4, Knows
    <3>2. /\ ~Listed(To(o)) /\ episodes[from] # None /\ episodes[from].video = req[o].video
          /\ Listed(from) => folder.videos[To(o)] = req[o].video
      BY <1>1, <1>3, <3>1 DEF Progress, At
    <3> QED
      BY <1>2, <2>2, <3>1, <3>2 DEF KeptIn, Listed
  <2> QED
    BY <1>2, <2>4, <2>5, TracedStays, EpisodesCarry
<1> QED
  BY <1>1, <1>5, <1>6

(* The steps that change rows.                                                       *)
LEMMA RegisterEpisodes ==
  ASSUME Basic, Episodic, NEW o \in Requests, Register(o)
  PROVE  Episodic'
<1>1. /\ Basic' /\ At(o, "register") /\ Onward(o) /\ req'[o].phase = "ok"
      /\ req[o].op \in {"upload", "create"}
      /\ folder' = Recovered(folder)
      /\ episodes' = [n \in Numbers |-> IF n \in req[o].plan
                 THEN [video |-> Video(o, n), on |-> TRUE] ELSE episodes[n]]
      /\ UNCHANGED <<kind, trash, history>>
  BY RegisterIs
<1>2. /\ Active(o) /\ ~Open(o)' /\ folder'.videos = folder.videos
      /\ Targets(req[o]) = req[o].plan
  BY <1>1, RecoveredIs, TargetsAre DEF Open, Active, Answers, Unsettled, At, Basic, Types
<1>3. Frame(o)
  BY <1>1, <1>2 DEF Frame
<1>4. Own(o)
  <2> SUFFICES ASSUME NEW n \in Targets(req[o]) \ contested
               PROVE  KeptIn(folder, n)'
    BY <1>2 DEF Own
  <2>1. Progress(o, n) /\ n \in Numbers /\ n \in req[o].plan
    BY <1>2, Knows
  <2>2. folder'.videos[n] = Video(o, n) /\ episodes'[n].video = Video(o, n)
    BY <1>1, <1>2, <2>1 DEF Progress, At
  <2> QED
    BY <2>2 DEF KeptIn
<1>5. Traced'
  <2> SUFFICES ASSUME NEW q \in Requests, Renumbering(q)', NEW n \in Numbers,
                      episodes'[n] # None, episodes'[n].video = req'[q].video
               PROVE  n = req'[q].from \/ {n, req'[q].from} \subseteq contested'
    BY DEF Traced
  <2>1. /\ q # o /\ Renumbering(q) /\ req'[q] = req[q] /\ contested' = contested
    BY <1>1, <1>2 DEF Renumbering, Onward, Open, Active, history
  <2>2. CASE n \in req[o].plan
    <3>1. req[q].video = Video(o, n)
      BY <1>1, <2>1, <2>2
    <3>2. req[q].video.by = o
      BY <3>1 DEF Video
    <3>3. o # First
      BY ConstantsAssumption
    <3> QED
      BY <1>1, <2>1, <3>2, <3>3 DEF Basic, VideoKnown, Renumbering, Open, At
  <2>3. CASE n \notin req[o].plan
    <3>1. episodes'[n] = episodes[n]
      BY <1>1, <2>3
    <3> QED
      BY <2>1, <3>1 DEF Episodic, Traced
  <2> QED
    BY <2>2, <2>3
<1> QED
  BY <1>1, <1>2, <1>3, <1>4, <1>5, EpisodesCarry

LEMMA RenumberEpisodes ==
  ASSUME Basic, Episodic, NEW o \in Requests, Renumber(o)
  PROVE  Episodic'
<1> DEFINE from == req[o].from
<1>1. /\ Basic' /\ At(o, "renamed") /\ Onward(o)
      /\ req'[o].phase = IF RowOf(o) # {} THEN "ok" ELSE "refused"
      /\ UNCHANGED <<kind, folder, trash, title, history>>
      /\ RowOf(o) = {} => episodes' = episodes
      /\ \A k \in RowOf(o) :
           /\ RowOf(o) = {k}
           /\ episodes' = [episodes EXCEPT ![k] = None, ![To(o)] = episodes[k]]
  BY RenumberIs
<1>2. /\ Active(o) /\ ~Open(o)' /\ req[o].op = "renumber"
      /\ episodes \in [Numbers -> EpisodeRow \cup {None}]
  BY <1>1, RenumbersIs DEF Open, Active, Answers, Unsettled, At, Basic, Types
<1>3. /\ from \in Numbers /\ To(o) \in Numbers /\ To(o) # from
      /\ Targets(req[o]) = {from, To(o)} /\ req[o].plan = {from, To(o)}
  BY <1>2, TargetsAre
<1>4. ASSUME NEW n \in Targets(req[o]) \ contested
      PROVE  /\ from \in RowOf(o) /\ ~Listed(To(o)) /\ n \in {from, To(o)}
             /\ Listed(from) => folder.videos[To(o)] = episodes[from].video
  BY <1>1, <1>2, <1>3, <1>4, Knows DEF Progress, RowOf, At
<1>5. CASE RowOf(o) = {}
  <2>1. Frame(o)
    BY <1>1, <1>5 DEF Frame
  <2>2. Own(o)
    BY <1>4, <1>5 DEF Own
  <2> QED
    BY <1>1, <1>2, <1>5, <2>1, <2>2, TracedStays, EpisodesCarry
<1>6. ASSUME NEW k \in RowOf(o)
      PROVE  Episodic'
  <2>1. /\ RowOf(o) = {k} /\ k \in Numbers
        /\ episodes' = [episodes EXCEPT ![k] = None, ![To(o)] = episodes[k]]
        /\ episodes[k] # None /\ episodes[k].video = req[o].video
    BY <1>1, <1>6 DEF RowOf
  <2>2. /\ episodes'[To(o)] = episodes[k] /\ (k # To(o) => episodes'[k] = None)
        /\ \A n \in Numbers \ {k, To(o)} : episodes'[n] = episodes[n]
    BY <1>2, <1>3, <2>1
  <2>3. k = from \/ {k, from} \subseteq contested
    BY <1>2, <2>1 DEF Episodic, Traced, Renumbering, Open
  <2>4. Frame(o)
    BY <1>1, <1>3, <2>2, <2>3 DEF Frame
  <2>5. Own(o)
    <3> SUFFICES ASSUME NEW n \in Targets(req[o]) \ contested
                 PROVE  KeptIn(folder, n)'
      BY <1>2 DEF Own
    <3>1. /\ k = from /\ n \in {from, To(o)}
          /\ Listed(from) => folder.videos[To(o)] = episodes[from].video
      BY <1>4, <2>1
    <3>2. CASE n = from
      BY <1>3, <2>2, <3>1, <3>2 DEF KeptIn, Listed
    <3>3. CASE n = To(o)
      BY <1>1, <2>2, <3>1, <3>3 DEF KeptIn, Listed
    <3> QED
      BY <3>1, <3>2, <3>3
  <2>6. Traced'
    <3> SUFFICES ASSUME NEW q \in Requests, Renumbering(q)', NEW n \in Numbers,
                        episodes'[n] # None, episodes'[n].video = req'[q].video
                 PROVE  n = req'[q].from \/ {n, req'[q].from} \subseteq contested'
      BY DEF Traced
    <3>1. /\ q # o /\ Renumbering(q) /\ Open(q) /\ req[q].op = "renumber"
          /\ req'[q] = req[q] /\ contested' = contested
      BY <1>1, <1>2 DEF Renumbering, Onward, Open, Active, history
    <3>2. CASE n # To(o)
      <4>1. episodes'[n] = episodes[n]
        BY <2>2, <3>2
      <4> QED
        BY <3>1, <4>1 DEF Episodic, Traced
    <3>3. CASE n = To(o)
      <4>1. k = req[q].from \/ {k, req[q].from} \subseteq contested
        BY <2>1, <2>2, <3>1, <3>3 DEF Episodic, Traced
      <4>2. Targets(req[q]) \cap {from, To(o)} \subseteq contested /\ req[q].from \in Targets(req[q])
        BY <1>2, <1>3, <3>1, TargetsAre DEF Episodic, Contention, Open
      <4>3. from \in contested => To(o) \in contested
        BY <1>2, <1>3 DEF Episodic, Together, Renumbering, Open
      <4> QED
        BY <2>3, <3>1, <3>3, <4>1, <4>2, <4>3
    <3> QED
      BY <3>2, <3>3
  <2> QED
    BY <1>1, <1>2, <2>4, <2>5, <2>6, EpisodesCarry
<1> QED
  BY <1>5, <1>6

LEMMA DeleteRowsEpisodes ==
  ASSUME Basic, Episodic, NEW o \in Requests, DeleteRows(o)
  PROVE  Episodic'
<1>1. /\ Basic' /\ At(o, "rows") /\ Onward(o) /\ req[o].op = "delete"
      /\ req'[o].phase = IF trash[o].here THEN "purge" ELSE "ok"
      /\ episodes' = [n \in Numbers |-> None]
      /\ UNCHANGED <<kind, folder, trash, history>>
  BY DeleteRowsIs
<1>2. Active(o) /\ req'[o].op = "delete" /\ Targets(req[o]) = Numbers
  BY <1>1, TargetsAre DEF Open, Active, Answers, Unsettled, At, Onward
<1>3. Frame(o)
  BY <1>2 DEF Frame
<1>4. \A n \in Numbers : ~Listed(n)'
  BY <1>1 DEF Listed
<1>5. Own(o)
  BY <1>1, <1>2, <1>4 DEF Own, Progress, KeptIn
<1>6. Traced'
  BY <1>1 DEF Traced
<1> QED
  BY <1>1, <1>2, <1>3, <1>5, <1>6, EpisodesCarry

(* The steps that move the folder away, or back.                                     *)
LEMMA TrashEpisodes ==
  ASSUME Basic, Episodic, NEW o \in Requests, TrashStep(o)
  PROVE  Episodic'
<1>1. /\ Basic' /\ Onward(o) /\ req[o].op = "delete" /\ UNCHANGED <<kind, title, episodes, history>>
      /\ Active(o) /\ \A p \in Requests \ {o} : trash'[p] = trash[p]
      /\ \/ At(o, "away") /\ req'[o].phase = "rows" /\ trash'[o] = folder
         \/ At(o, "back") /\ req'[o].phase = "refused" /\ folder' = trash[o]
         \/ At(o, "purge") /\ req'[o].phase = "ok" /\ folder' = folder
  <2>1. trash \in [Requests -> Trees]
    BY DEF Basic, Types
  <2>2. CASE Away(o)
    BY <2>1, <2>2, AwayIs DEF Open, Active, Answers, Unsettled, At
  <2>3. CASE Back(o)
    BY <2>1, <2>3, BackIs DEF Open, Active, Answers, Unsettled, At
  <2>4. CASE Purge(o)
    BY <2>1, <2>4, PurgeIs DEF Open, Active, Answers, Unsettled, At
  <2> QED
    BY <2>2, <2>3, <2>4 DEF TrashStep
<1>2. Targets(req[o]) = Numbers /\ req'[o].op = "delete"
  BY <1>1, TargetsAre DEF Onward
<1>3. Frame(o)
  BY <1>2 DEF Frame
<1>4. Own(o)
  <2> SUFFICES ASSUME NEW n \in Targets(req[o]) \ contested
               PROVE  IF Open(o)' THEN Progress(o, n)' ELSE KeptIn(folder, n)'
    BY DEF Own
  <2>1. Progress(o, n)
    BY <1>1, Knows
  <2>3. CASE req'[o].phase = "rows"
    <3>1. Open(o)' /\ At(o, "away") /\ trash'[o] = folder
      BY <1>1, <2>3 DEF Open, Active, Answers, Unsettled
    <3> QED
      BY <1>1, <1>2, <2>1, <2>3, <3>1 DEF Progress, KeptIn, Listed, At
  <2>4. CASE req'[o].phase \in {"refused", "ok"}
    <3>1. ~Open(o)'
      BY <2>4 DEF Open, Active, Answers, Unsettled
    <3> QED
      BY <1>1, <2>1, <2>4, <3>1 DEF Progress, KeptIn, Listed, At
  <2> QED
    BY <1>1, <2>3, <2>4
<1> QED
  BY <1>1, <1>3, <1>4, TracedStays, EpisodesCarry

LEMMA StepEpisodes ==
  ASSUME Basic, Episodic, NEW o \in Requests, Step(o)
  PROVE  Episodic'
<1>0. /\ Active(o) /\ Onward(o) /\ Basic' /\ UNCHANGED <<kind, history>>
      /\ req[o].op \in Ops
  BY StepIs, FitsIs
<1>1. CASE \/ StageFails(o) \/ RowFails(o) \/ RowTorn(o) \/ MoveFails(o) \/ InstallFails(o)
           \/ RenameFails(o) \/ RenameBackFails(o) \/ AwayFails(o) \/ DeleteRowsFail(o)
           \/ BackFails(o) \/ PurgeFails(o)
  <2>1. PICK phase \in {"refused", "undoDoc", "torn", "back", "broken", "ok"} : Quiet(o, phase)
    BY <1>1, QuietStepIs
  <2>2. phase \in Phases
    BY DEF Phases, Answers, Unsettled
  <2>3. /\ UNCHANGED <<kind, folder, trash, episodes, history>> /\ req'[o].phase = phase
        /\ req'[o].moved = req[o].moved
    BY <2>1, <2>2, GoIs DEF Quiet, disk, catalogue, Basic
  <2>4. req[o].op = "renumber" => RenameFails(o) \/ RenameBackFails(o)
    BY <1>1, FitsIs DEF PhaseFits, StageFails, RowFails, RowTorn, MoveFails, InstallFails, AwayFails,
       DeleteRowsFail, BackFails, PurgeFails, At, DocumentPhases, ApplyPhases
  <2>5. req[o].op = "delete" => AwayFails(o) \/ DeleteRowsFail(o) \/ BackFails(o) \/ PurgeFails(o)
    BY <1>1, FitsIs DEF PhaseFits, StageFails, RowFails, RowTorn, MoveFails, InstallFails, RenameFails,
       RenameBackFails, At, DocumentPhases, ApplyPhases
  <2>6. req[o].op = "renumber" =>
           \/ At(o, "rename") /\ req'[o].phase = "refused"
           \/ At(o, "renameBack") /\ req'[o].phase = "broken"
    BY <2>3, <2>4, QuietSteps, GoIs DEF Quiet, Basic, Phases, Answers, Unsettled
  <2>7. req[o].op = "delete" =>
           \/ At(o, "away") /\ req'[o].phase = "refused"
           \/ At(o, "rows") /\ req'[o].phase = "back"
           \/ At(o, "rows") /\ req'[o].phase = "refused" /\ ~trash[o].here
           \/ At(o, "back") /\ req'[o].phase = "broken"
           \/ At(o, "purge") /\ req'[o].phase = "ok"
    BY <2>3, <2>5, QuietSteps, GoIs DEF Quiet, Basic, Phases, Answers, Unsettled
  <2> QED
    BY <1>0, <2>1, <2>3, <2>6, <2>7, VideosStay
<1>2. CASE \/ StageContent(o) \/ StageSeries(o) \/ StageReading(o) \/ PrevOut(o) \/ PrevIn(o)
           \/ DocOut(o) \/ DocIn(o) \/ ApplyFails(o) \/ PosterFails(o)
           \/ Settle(o) \/ UndoDoc(o) \/ UndoAside(o) \/ RegisterFails(o) \/ RenumberFails(o)
  <2>1. /\ FolderStep(o) /\ req'[o].moved = req[o].moved /\ folder'.videos = folder.videos
        /\ \/ req[o].phase \in DocumentPhases
           \/ At(o, "register") /\ req'[o].phase # "register"
           \/ At(o, "renamed") /\ req'[o].phase = "renameBack"
    <3>1. folder \in Trees /\ Types
      BY DEF Basic, Types
    <3>2. CASE StageContent(o) \/ StageSeries(o) \/ StageReading(o)
      BY <3>2, StageIs DEF At, DocumentPhases
    <3>3. CASE PrevOut(o) \/ PrevIn(o) \/ DocOut(o) \/ DocIn(o) \/ UndoDoc(o)
      <4>1. CASE PrevOut(o) \/ PrevIn(o)
        BY <3>1, <4>1, PrevOutIs, PrevInIs DEF At, DocumentPhases, ApplyPhases, Trees, Folder
      <4>2. CASE DocOut(o) \/ DocIn(o)
        BY <3>1, <4>2, DocOutIs, DocInIs DEF At, DocumentPhases, ApplyPhases, Trees, Folder
      <4>3. CASE UndoDoc(o)
        BY <3>1, <4>3, UndoDocIs DEF At, DocumentPhases, ApplyPhases, Trees, Folder
      <4> QED
        BY <3>3, <4>1, <4>2, <4>3
    <3>4. CASE ApplyFails(o) \/ UndoAside(o) \/ Settle(o) \/ PosterFails(o)
      BY <3>1, <3>4, ApplyFailsIs, UndoAsideIs, SettleIs, PosterFailsIs, PutBackIs, SettledIs
      DEF At, DocumentPhases, ApplyPhases
    <3>5. CASE RegisterFails(o)
      <4>1. FolderStep(o) /\ MovedFits(o)' /\ MovedFits(o) /\ folder'.videos = folder.videos
        BY <3>1, <3>5, RegisterFailsIs, RecoveredIs, FitsIs DEF FolderStep
      <4> QED
        BY <3>1, <3>5, <4>1, RegisterFailsIs, GoIs DEF RegisterFails, Phases, Answers, Unsettled
    <3>6. CASE RenumberFails(o)
      <4>1. /\ At(o, "renamed") /\ FolderStep(o) /\ req'[o].phase = "renameBack"
            /\ folder' = Made(folder)
        BY <3>6, RenumberFailsIs
      <4>2. req'[o].moved = req[o].moved
        BY <3>1, <3>6, GoIs DEF RenumberFails, Phases
      <4> QED
        BY <3>1, <4>1, <4>2, MadeIs
    <3> QED
      BY <1>2, <3>2, <3>3, <3>4, <3>5, <3>6
  <2>2. /\ req[o].op = "create" => req'[o].phase # "register"
        /\ req[o].op = "renumber" => At(o, "renamed") /\ req'[o].phase = "renameBack"
        /\ req[o].op # "delete"
    BY <2>1, FitsIs DEF PhaseFits, At, DocumentPhases, ApplyPhases
  <2> QED
    BY <1>0, <2>1, <2>2, VideosStay DEF FolderStep, catalogue
<1>3. CASE UpdateMovie(o) \/ UpdateSeries(o) \/ UpdateReading(o)
  BY <1>0, <1>3, RowUpdatedIs, VideosStay
<1> QED
  BY <1>1, <1>2, <1>3, UndoMovesEpisodes, MoveEpisodes, InstallEpisodes, RegisterEpisodes,
     RenameEpisodes, RenumberEpisodes, RenameBackEpisodes, DeleteRowsEpisodes, TrashEpisodes
  DEF Step, DocumentStep, UploadStep, RenumberStep, DeleteStep, TrashStep

LEMMA InitEpisodes == ASSUME Init PROVE Episodic
<1>1. Basic /\ contested = {} /\ \A o \in Requests : ~Open(o) /\ req[o].phase = "idle"
  BY InitBasic DEF Init, Idle, Open, Active, Unsettled
<1>2. ASSUME NEW n \in Numbers
      PROVE  KeptIn(folder, n)
  <2>1. PICK there \in BOOLEAN, prev \in {None, First}, shown \in SUBSET Numbers,
             offline \in SUBSET Numbers :
       /\ shown \cap offline = {}
       /\ IF there
            THEN /\ kind # "series" => shown = {FirstNumber} /\ offline = {}
                 /\ title = First
            ELSE /\ shown = {} /\ offline = {} /\ prev = None
                 /\ title = None
       /\ folder = IF there
            THEN [Fresh EXCEPT !.doc = First, !.prev = prev,
                    !.videos = [k \in Numbers |-> IF k \in shown
                                  THEN [by |-> First, number |-> k] ELSE None]]
            ELSE NoFolder
       /\ episodes = [k \in Numbers |-> IF k \in shown \cup offline
            THEN [video |-> [by |-> First, number |-> k], on |-> k \in shown] ELSE None]
    BY DEF Init
  <2>2. ASSUME Listed(n)
        PROVE  n \in shown /\ episodes[n].video = [by |-> First, number |-> n]
    <3>1. episodes[n] # None
      BY <2>2 DEF Listed
    <3>2. n \in shown \cup offline
      BY <2>1, <3>1
    <3>3. episodes[n] = [video |-> [by |-> First, number |-> n], on |-> n \in shown]
      BY <2>1, <3>2
    <3>4. episodes[n].on = (n \in shown) /\ episodes[n].video = [by |-> First, number |-> n]
      BY <3>3
    <3> QED
      BY <2>2, <3>4 DEF Listed
  <2>3. ASSUME there
        PROVE  \A k \in Numbers : folder.videos[k] = IF k \in shown
                                  THEN [by |-> First, number |-> k] ELSE None
    BY <2>1, <2>3 DEF Fresh, NoFolder
  <2> QED
    BY <2>1, <2>2, <2>3 DEF KeptIn
<1>3. EpisodesInOrder
  BY <1>1, <1>2 DEF EpisodesInOrder
<1> QED
  BY <1>1, <1>3 DEF Episodic, Contention, Together, Traced, Renumbering, Open

LEMMA AskEpisodes ==
  ASSUME Basic, Episodic, NEW o \in Requests, Ask(o)
  PROVE  Episodic'
<1> DEFINE r == req'[o]
<1>1. Begun(o) /\ Passed(o) /\ Fits(o)' /\ Basic'
  BY AskIs, AskBasic
<1>2. /\ req' \in [Requests -> Request] /\ \A p \in Requests \ {o} : req'[p] = req[p]
      /\ UNCHANGED <<kind, folder, trash, title, episodes>>
      /\ contested' = contested \cup Met(r) \cup Led(r)
      /\ r.moved = {} /\ req[o].phase = "idle"
  BY <1>1 DEF Begun, At
<1>3. /\ ~Open(o)
      /\ \A p \in Requests \ {o} : /\ To(p)' = To(p) /\ Targets(req[p])' = Targets(req[p])
                                   /\ Open(p)' = Open(p)
  BY <1>2 DEF Open, Active, Unsettled, To, Targets
<1>4. /\ Targets(req[o])' = Targets(r) /\ r.op # "none"
      /\ r.phase \in {"stage", "install", "rename", "away", "refused"}
  BY <1>1 DEF Targets, Passed
<1>5. ASSUME NEW p \in Requests, Open(p), Targets(r) \cap Targets(req[p]) # {}
      PROVE  Targets(r) \cup Targets(req[p]) \subseteq contested'
  BY <1>2, <1>5 DEF Met, Common, Unfinished
<1>6. contested \subseteq contested'
  BY <1>2
<1>7. Contention'
  <2> SUFFICES ASSUME NEW p \in Requests, NEW q \in Requests, Open(p)', Open(q)', p # q
               PROVE  Targets(req[p])' \cap Targets(req[q])' \subseteq contested'
    BY DEF Contention
  <2>1. CASE p # o /\ q # o
    BY <1>3, <1>6, <2>1 DEF Episodic, Contention
  <2>2. CASE p = o
    <3>1. Open(q) /\ Targets(req[q])' = Targets(req[q])
      BY <1>3, <2>2
    <3> QED
      BY <1>4, <1>5, <2>2, <3>1
  <2>3. CASE q = o
    <3>1. Open(p) /\ Targets(req[p])' = Targets(req[p])
      BY <1>3, <2>3
    <3> QED
      BY <1>4, <1>5, <2>3, <3>1
  <2> QED
    BY <2>1, <2>2, <2>3
<1>8. Together'
  <2> SUFFICES ASSUME NEW p \in Requests, Renumbering(p)', NEW x \in req'[p].plan \cap contested'
               PROVE  req'[p].plan \subseteq contested'
    BY DEF Together
  <2>1. req'[p].op = "renumber" /\ Targets(req'[p]) = req'[p].plan
    BY DEF Renumbering, Open, Targets
  <2>2. CASE p = o
    <3>1. x \in contested => Led(r) = r.plan
      BY <2>1, <2>2 DEF Led
    <3>2. CASE x \in contested \/ x \in Led(r)
      <4>1. Led(r) = r.plan
        BY <2>2, <3>1, <3>2 DEF Led
      <4> QED
        BY <1>2, <2>2, <4>1
    <3>3. CASE x \in Met(r)
      <4>1. PICK s \in Requests : Open(s) /\ Targets(r) \cap Targets(req[s]) # {}
        BY <3>3 DEF Met, Common, Unfinished
      <4> QED
        BY <1>5, <2>1, <2>2, <4>1
    <3> QED
      BY <1>2, <3>2, <3>3
  <2>3. CASE p # o
    <3>1. req'[p] = req[p] /\ Open(p) /\ Renumbering(p) /\ Targets(req[p]) = req[p].plan
      BY <1>2, <1>3, <2>1, <2>3 DEF Renumbering, Open
    <3>2. CASE x \in contested
      BY <1>6, <3>1, <3>2 DEF Episodic, Together
    <3>3. CASE x \in Targets(r)
      BY <1>5, <3>1, <3>3
    <3>4. ASSUME NEW s \in Common(r), x \in Targets(req[s])
          PROVE  req'[p].plan \subseteq contested'
      <4>1. s \in Requests /\ Open(s) /\ Targets(r) \cap Targets(req[s]) # {}
        BY DEF Common, Unfinished
      <4>2. CASE s = p
        BY <1>5, <3>1, <4>1, <4>2
      <4>3. CASE s # p
        <5>1. x \in contested
          BY <3>1, <3>4, <4>1, <4>3 DEF Episodic, Contention
        <5> QED
          BY <3>2, <5>1
      <4> QED
        BY <4>2, <4>3
    <3>5. x \in contested \/ x \in Targets(r) \/ \E s \in Common(r) : x \in Targets(req[s])
      <4>1. CASE x \in Met(r)
        BY <4>1 DEF Met
      <4>2. CASE x \in Led(r)
        <5>1. x \in r.plan /\ r.op = "renumber"
          BY <4>2 DEF Led
        <5> QED
          BY <5>1 DEF Targets
      <4> QED
        BY <1>2, <4>1, <4>2
    <3> QED
      BY <3>2, <3>3, <3>4, <3>5
  <2> QED
    BY <2>2, <2>3
<1>9. Traced'
  <2> SUFFICES ASSUME NEW p \in Requests, Renumbering(p)', NEW n \in Numbers,
                      episodes'[n] # None, episodes'[n].video = req'[p].video
               PROVE  n = req'[p].from \/ {n, req'[p].from} \subseteq contested'
    BY DEF Traced
  <2>1. CASE p = o
    <3>1. req'[p].op = "renumber"
      BY DEF Renumbering, Open
    <3>2. /\ episodes[r.from] # None /\ r.video = episodes[r.from].video /\ r.from \in Numbers
      BY <1>1, <2>1, <3>1 DEF Passed, Fits, AskFits
    <3> QED
      BY <1>2, <2>1, <3>2 DEF Basic, RowsApart
  <2>2. CASE p # o
    <3>1. Renumbering(p) /\ req'[p] = req[p] /\ episodes' = episodes
      BY <1>2, <1>3, <2>2 DEF Renumbering, Open
    <3> QED
      BY <1>6, <3>1 DEF Episodic, Traced
  <2> QED
    BY <2>1, <2>2
<1>10. EpisodesInOrder'
  <2> SUFFICES ASSUME NEW n \in Numbers \ contested'
               PROVE  /\ ~Busy(n)' => KeptIn(folder, n)'
                      /\ \A p \in Requests : Open(p)' /\ n \in Targets(req[p])' => Progress(p, n)'
    BY DEF EpisodesInOrder
  <2>2. n \notin contested
    BY <1>6
  <2>3. ASSUME NEW m \in Numbers \ contested, ~Busy(m) PROVE KeptIn(folder, m)
    BY <2>3 DEF Episodic, EpisodesInOrder
  <2>4. ~Busy(n)' => KeptIn(folder, n)'
    <3>1. Busy(n) => Busy(n)'
      <4> SUFFICES ASSUME NEW p \in Requests, Open(p), req[p].op \in {"renumber", "delete"},
                          n \in Targets(req[p])
                   PROVE  Busy(n)'
        BY DEF Busy
      <4>1. p # o /\ Open(p)' /\ req'[p] = req[p] /\ n \in Targets(req[p])'
        BY <1>2, <1>3
      <4> QED
        BY <4>1 DEF Busy
    <3>2. KeptIn(folder, n)' = KeptIn(folder, n)
      BY <1>2 DEF KeptIn, Listed
    <3> QED
      BY <2>2, <2>3, <3>1, <3>2
  <2>5. ASSUME NEW p \in Requests \ {o}, Open(p)', n \in Targets(req[p])'
        PROVE  Progress(p, n)'
    <3>1. Open(p) /\ n \in Targets(req[p]) /\ req'[p] = req[p] /\ To(p)' = To(p)
      BY <1>2, <1>3, <2>5
    <3>2. Progress(p, n)
      BY <2>2, <3>1 DEF Episodic, EpisodesInOrder
    <3> QED
      BY <1>2, <3>1, <3>2 DEF Progress, Listed, KeptIn, Video
  <2>6. ASSUME Open(o)', n \in Targets(req[o])'
        PROVE  Progress(o, n)'
    <3>1. r.phase \in {"stage", "install", "rename", "away"}
      BY <1>4, <2>6 DEF Open, Active, Answers, Unsettled
    <3>2. Fits(o)' /\ Passed(o) /\ n \in Targets(r)
      BY <1>1, <1>4, <2>6
    <3>3. ASSUME NEW m \in Targets(r) \ contested', m \in Numbers
          PROVE  KeptIn(folder, m)
      <4>1. ~Busy(m)
        BY <1>5, <3>3 DEF Busy
      <4> QED
        BY <1>6, <2>3, <3>3, <4>1
    <3>4. CASE r.op = "upload"
      <4>1. ~Listed(n)
        BY <3>1, <3>2, <3>4 DEF Passed, NoConflict, Listed, Targets
      <4> QED
        BY <1>2, <3>1, <3>4, <4>1 DEF Progress, Listed
    <3>5. CASE r.op = "create"
      <4>1. folder = NoFolder
        BY <3>1, <3>2, <3>5 DEF Passed, Basic, Types, Trees
      <4>2. KeptIn(folder, n)
        BY <3>2, <3>3
      <4>3. NoFolder.videos[n] = None
        BY DEF NoFolder
      <4>4. episodes[n] # None => episodes[n].video # None
        BY NoneAssumption DEF Basic, Types, EpisodeRow
      <4>5. ~Listed(n)
        BY <4>1, <4>2, <4>3, <4>4 DEF KeptIn, Listed
      <4> QED
        BY <1>2, <3>1, <3>5, <4>5 DEF Progress, Listed
    <3>6. CASE r.op = "renumber"
      <4>1. /\ To(o)' \in Numbers /\ r.from \in Numbers /\ r.plan = {r.from, To(o)'}
            /\ Targets(r) = r.plan
        BY <3>2, <3>6 DEF Fits, AskFits, Targets
      <4>2. ~Listed(To(o)') /\ episodes[r.from] # None /\ episodes[r.from].video = r.video
        BY <3>1, <3>2, <3>6 DEF Passed, NoConflict, Listed
      <4>3. r.plan \cap contested' = {}
        <5>1. Renumbering(o)'
          BY <2>6, <3>6 DEF Renumbering, Open
        <5>2. r.plan \cap contested' = {} \/ r.plan \subseteq contested'
          BY <1>8, <5>1 DEF Together
        <5> QED
          BY <3>2, <4>1, <5>2
      <4>4. KeptIn(folder, r.from)
        BY <3>3, <4>1, <4>3
      <4>5. r.phase = "rename"
        BY <3>1, <3>2, <3>6 DEF Fits, PhaseFits
      <4>6. ~Listed(To(o))' /\ KeptIn(folder, req[o].from)'
        BY <1>2, <4>2, <4>4 DEF Listed, KeptIn
      <4> QED
        BY <1>2, <3>6, <4>2, <4>5, <4>6 DEF Progress, Unsettled
    <3>7. CASE r.op = "delete"
      <4>1. KeptIn(folder, n)
        BY <3>2, <3>3
      <4>2. KeptIn(folder, n)'
        BY <1>2, <4>1 DEF KeptIn, Listed
      <4> QED
        BY <3>1, <3>7, <4>2 DEF Progress, Unsettled
    <3>8. CASE r.op = "edit"
      BY <3>8 DEF Progress
    <3> QED
      BY <1>2, <1>4, <3>4, <3>5, <3>6, <3>7, <3>8 DEF Request, Ops
  <2> QED
    BY <2>4, <2>5, <2>6
<1> QED
  BY <1>7, <1>8, <1>9, <1>10 DEF Episodic

LEMMA StopEpisodes == ASSUME Basic, Episodic, Stop PROVE Episodic'
<1>1. /\ \A o \in Requests :
           /\ Active(o) => req'[o].phase =
                IF req[o].phase \in {"renamed", "renameBack", "rows", "back"}
                  THEN "caught" ELSE "stopped"
           /\ ~Active(o) => req'[o].phase = req[o].phase
           /\ ~Active(o)' /\ (Open(o)' => Open(o))
           /\ req'[o].op = req[o].op /\ req'[o].plan = req[o].plan
           /\ req'[o].from = req[o].from /\ req'[o].video = req[o].video
      /\ UNCHANGED <<kind, folder, trash, title, episodes, contested>>
  BY StopIs
<1>2. \A o \in Requests : To(o)' = To(o) /\ Targets(req[o])' = Targets(req[o])
  BY <1>1 DEF To, Targets
<1>3. Contention' /\ Together' /\ Traced'
  BY <1>1, <1>2 DEF Episodic, Contention, Together, Traced, Renumbering
<1>4. EpisodesInOrder'
  <2> SUFFICES ASSUME NEW n \in Numbers \ contested'
               PROVE  /\ ~Busy(n)' => KeptIn(folder, n)'
                      /\ \A p \in Requests : Open(p)' /\ n \in Targets(req[p])' => Progress(p, n)'
    BY DEF EpisodesInOrder
  <2>1. n \in Numbers \ contested
    BY <1>1
  <2>2. ASSUME NEW p \in Requests, Open(p)', n \in Targets(req[p])'
        PROVE  Progress(p, n)'
    <3>1. Open(p) /\ n \in Targets(req[p]) /\ Progress(p, n)
      BY <1>1, <1>2, <2>1, <2>2 DEF Episodic, EpisodesInOrder
    <3>2. CASE ~Active(p)
      <4>1. /\ req'[p].phase \in Unsettled /\ req'[p].phase = req[p].phase
            /\ req[p].op \in {"renumber", "delete"}
        BY <1>1, <2>2, <3>2, FitsIs DEF Open, Unsettled, PhaseFits, DocumentPhases, ApplyPhases, Ops
      <4>2. CASE req[p].op = "renumber"
        BY <1>1, <1>2, <3>1, <4>1, <4>2 DEF Progress, KeptIn, Listed
      <4>3. CASE req[p].op = "delete"
        BY <1>1, <1>2, <3>1, <4>1, <4>3 DEF Progress, KeptIn, Listed
      <4> QED
        BY <4>1, <4>2, <4>3
    <3>3. CASE Active(p)
      <4>1. /\ req'[p].phase = "caught"
            /\ req[p].phase \in {"renamed", "renameBack", "rows", "back"}
        BY <1>1, <2>2, <3>3 DEF Open, Unsettled
      <4>2. req[p].op \in {"renumber", "delete"}
        BY <4>1, FitsIs DEF PhaseFits, DocumentPhases, ApplyPhases, Ops
      <4>3. CASE req[p].op = "renumber"
        BY <1>1, <1>2, <3>1, <4>1, <4>3, FitsIs DEF PhaseFits, Progress, KeptIn, Listed
      <4>4. CASE req[p].op = "delete"
        BY <1>1, <1>2, <3>1, <4>1, <4>4, FitsIs DEF PhaseFits, Progress, KeptIn, Listed
      <4> QED
        BY <4>2, <4>3, <4>4
    <3> QED
      BY <3>2, <3>3
  <2>3. ASSUME ~Busy(n)'
        PROVE  KeptIn(folder, n)
    <3>1. CASE ~Busy(n)
      BY <2>1, <3>1 DEF Episodic, EpisodesInOrder
    <3>2. ASSUME NEW p \in Requests, Open(p), n \in Targets(req[p]),
                 req[p].op \in {"renumber", "delete"}
          PROVE  KeptIn(folder, n)
      <4>1. Progress(p, n) /\ ~Open(p)'
        BY <1>1, <1>2, <2>1, <2>3, <3>2 DEF Episodic, EpisodesInOrder, Busy
      <4>2. Active(p) /\ req[p].phase \notin {"renamed", "renameBack", "rows", "back"}
        BY <1>1, <3>2, <4>1 DEF Open, Unsettled
      <4>3. CASE req[p].op = "renumber"
        <5>1. req[p].phase = "rename" /\ n \in {req[p].from, To(p)}
          BY <3>2, <4>2, <4>3, FitsIs, TargetsAre DEF PhaseFits, Active, Answers, Unsettled
        <5> QED
          BY <4>1, <4>3, <5>1 DEF Progress, KeptIn
      <4>4. CASE req[p].op = "delete"
        <5>1. req[p].phase \in {"away", "purge"}
          BY <3>2, <4>2, <4>4, FitsIs DEF PhaseFits, Active, Answers, Unsettled
        <5> QED
          BY <4>1, <4>4, <5>1 DEF Progress
      <4> QED
        BY <3>2, <4>3, <4>4
    <3> QED
      BY <3>1, <3>2 DEF Busy
  <2>4. ~Busy(n)' => KeptIn(folder, n)'
    BY <1>1, <2>3 DEF KeptIn, Listed
  <2> QED
    BY <2>2, <2>4
<1> QED
  BY <1>3, <1>4 DEF Episodic

LEMMA EpisodesNext == ASSUME Basic, Episodic, [Next]_vars PROVE Episodic'
<1>1. CASE Next
  BY <1>1, StopEpisodes, AskEpisodes, StepEpisodes DEF Next
<1>2. CASE UNCHANGED vars
  <2>1. UNCHANGED <<kind, folder, trash, title, episodes, req, troubles, overlapped, contested>>
    BY <1>2 DEF vars, disk, catalogue, history
  <2>2. \A o \in Requests : /\ Open(o)' = Open(o) /\ Targets(req[o])' = Targets(req[o])
                            /\ To(o)' = To(o)
    BY <2>1 DEF Open, Active, Targets, To
  <2>3. Contention' /\ Together' /\ Traced'
    BY <2>1, <2>2 DEF Episodic, Contention, Together, Traced, Renumbering, Open
  <2>4. EpisodesInOrder'
    <3> SUFFICES ASSUME NEW n \in Numbers \ contested'
                 PROVE  /\ ~Busy(n)' => KeptIn(folder, n)'
                        /\ \A p \in Requests : Open(p)' /\ n \in Targets(req[p])' => Progress(p, n)'
      BY DEF EpisodesInOrder
    <3>1. /\ ~Busy(n) => KeptIn(folder, n)
          /\ \A p \in Requests : Open(p) /\ n \in Targets(req[p]) => Progress(p, n)
      BY <2>1 DEF Episodic, EpisodesInOrder
    <3>2. Busy(n)' = Busy(n) /\ KeptIn(folder, n)' = KeptIn(folder, n)
      BY <2>1, <2>2 DEF Busy, KeptIn, Listed
    <3>3. ASSUME NEW p \in Requests, Progress(p, n) PROVE Progress(p, n)'
      BY <2>1, <2>2, <3>3 DEF Progress, KeptIn, Listed, Video
    <3> QED
      BY <2>2, <3>1, <3>2, <3>3
  <2> QED
    BY <2>3, <2>4 DEF Episodic
<1> QED
  BY <1>1, <1>2

(* What keeps the videos accounts for each that is listed.                           *)
LEMMA InOrderIsKept == Basic /\ Episodic => EpisodesKept
<1> SUFFICES ASSUME Basic, Episodic, NEW n \in Numbers \ contested, Listed(n)
             PROVE  \/ folder.videos[n] = episodes[n].video
                    \/ \E o \in Requests : GivenAnotherNumber(o, n) \/ InTrash(o, n)
  BY DEF EpisodesKept, Listed
<1>1. CASE ~Busy(n)
  BY <1>1 DEF Episodic, EpisodesInOrder, KeptIn
<1>2. ASSUME NEW o \in Requests, Open(o), n \in Targets(req[o]), req[o].op \in {"renumber", "delete"}
      PROVE  \/ folder.videos[n] = episodes[n].video
             \/ GivenAnotherNumber(o, n) \/ InTrash(o, n)
  <2>1. Progress(o, n)
    BY <1>2 DEF Episodic, EpisodesInOrder
  <2>2. CASE req[o].op = "renumber"
    <3>1. n = req[o].from /\ req[o].video = episodes[n].video
      BY <1>2, <2>1, <2>2, TargetsAre DEF Progress
    <3>2. req[o].phase \in {"rename", "renamed", "renameBack"} \cup Unsettled
      BY <1>2, <2>2, FitsIs DEF PhaseFits, Open, Active, Answers, Unsettled
    <3> QED
      BY <2>1, <2>2, <3>1, <3>2 DEF Progress, KeptIn, GivenAnotherNumber
  <2>3. CASE req[o].op = "delete"
    <3>1. req[o].phase \in {"away", "rows", "back", "purge"} \cup Unsettled
      BY <1>2, <2>3, FitsIs DEF PhaseFits, Open, Active, Answers, Unsettled
    <3> QED
      BY <2>1, <2>3, <3>1 DEF Progress, KeptIn, InTrash
  <2> QED
    BY <1>2, <2>2, <2>3
<1> QED
  BY <1>1, <1>2 DEF Busy

(* Whatever requests cross, fail or stop, the video of an episode only one request at *)
(* a time was about is under its number, or where a renumbering or a deletion that is *)
(* not over, could not be undone or was caught by a stop has put it.                  *)
THEOREM EpisodesStay == Spec => []EpisodesKept
<1>1. Init => Basic /\ Episodic
  BY InitBasic, InitEpisodes
<1>2. Basic /\ Episodic /\ [Next]_vars => (Basic /\ Episodic)'
  BY NextBasic, EpisodesNext
<1>3. Basic /\ Episodic => EpisodesKept
  BY InOrderIsKept
<1> QED
  BY <1>1, <1>2, <1>3, PTL DEF Spec

-----------------------------------------------------------------------------------
(* The document of a series.                                                         *)
DocumentOwn(o) ==
  IF Active(o)' THEN DocumentProgress(o)' ELSE trash'[o].here \/ Readable(folder')

LEMMA DocumentCarry ==
  ASSUME Basic, Basic', DocumentKept, NEW o \in Requests, Active(o), Onward(o),
         UNCHANGED <<kind, history>>, \A p \in Requests \ {o} : trash'[p] = trash[p],
         kind = "series" /\ title' # None /\ (title # None => DocumentProgress(o)) => DocumentOwn(o)
  PROVE  DocumentKept'
<1> SUFFICES ASSUME kind' = "series", overlapped' = {}, title' # None
             PROVE  /\ (\A p \in Requests : ~Active(p)' /\ ~trash'[p].here) => Readable(folder')
                    /\ \A p \in Requests : Active(p)' /\ ~Binned(p)' => DocumentProgress(p)'
  BY DEF DocumentKept, Readable, ReadSeries
<1>1. kind = "series" /\ overlapped = {}
  BY DEF history
<1>2. \A p \in Requests : Active(p) => p = o
  BY <1>1 DEF Basic, Lonely
<1>3. \A p \in Requests : Active(p)' => p = o
  BY <1>2, OnwardKeeps
<1>4. Binned(o)' = Binned(o)
  BY DEF Binned
<1>5. ~Binned(o) => DocumentOwn(o)
  BY <1>1 DEF DocumentKept
<1>6. (\A p \in Requests : ~trash'[p].here) => ~Binned(o)'
  BY DEF Binned
<1> QED
  BY <1>3, <1>4, <1>5, <1>6 DEF DocumentOwn

(* A step that leaves the document and the one before as they are readable, where the *)
(* phases it leads to ask no more than the one it leaves.                            *)
Late == {"docOut", "docIn", "move", "row", "settle", "undoDoc", "undoAside", "undoMoves"}

LEMMA DocumentHolds ==
  ASSUME NEW o \in Requests,
         req'[o].phase \notin {"rows", "back", "purge", "prevOut", "prevIn"},
         Readable(folder'), req'[o].phase \in Late => folder'.prev # None
  PROVE  DocumentOwn(o)
<1>1. DocumentProgress(o)'
  BY DEF DocumentProgress, Readable, ReadSeries, Late
<1> QED
  BY <1>1 DEF DocumentOwn

LEMMA DocumentSteps ==
  ASSUME Basic, NEW o \in Requests, kind = "series", title # None, DocumentProgress(o),
         \/ StageContent(o) \/ StageSeries(o) \/ StageReading(o) \/ PrevOut(o) \/ PrevIn(o)
         \/ DocOut(o) \/ DocIn(o) \/ ApplyFails(o) \/ PosterFails(o)
         \/ Settle(o) \/ UndoDoc(o) \/ UndoAside(o) \/ UndoMoves(o)
  PROVE  DocumentOwn(o)
<1>1. folder \in Trees /\ Types
  BY DEF Basic, Types
<1>2. /\ Read(folder) = ReadSeries(folder)
      /\ folder.docAside \in [Requests -> Versions \cup {None}]
      /\ folder.prevAside \in [Requests -> Versions \cup {None}]
  BY <1>1, ReadIs DEF Trees, Folder
<1>3. CASE StageContent(o) \/ StageSeries(o) \/ StageReading(o)
  <2>1. /\ folder'.here /\ folder'.doc = Read(folder) /\ At(o, "stage")
        /\ req'[o].seen = Read(folder)
        /\ req'[o].phase = IF Read(folder) # None THEN "prevOut" ELSE "docOut"
    BY <1>3, StageIs
  <2>2. Read(folder) # None
    BY <1>2, <2>1 DEF DocumentProgress, Readable, At
  <2>3. Active(o)'
    BY <2>1, <2>2 DEF Active, Answers, Unsettled
  <2> QED
    BY <2>1, <2>2, <2>3 DEF DocumentOwn, DocumentProgress, Readable, ReadSeries
<1>4. CASE PrevOut(o)
  <2>1. /\ At(o, "prevOut") /\ req'[o].phase = "prevIn" /\ req'[o].seen = req[o].seen
        /\ folder'.doc = folder.doc /\ folder'.here = folder.here
    BY <1>1, <1>4, PrevOutIs DEF Trees, Folder
  <2>2. Active(o)'
    BY <2>1 DEF Active, Answers, Unsettled
  <2> QED
    BY <2>1, <2>2 DEF DocumentOwn, DocumentProgress, Readable, ReadSeries, At
<1>5. CASE PrevIn(o)
  <2>1. /\ At(o, "prevIn") /\ req'[o].phase = "docOut"
        /\ folder'.doc = folder.doc /\ folder'.here = folder.here /\ folder'.prev = req[o].seen
    BY <1>1, <1>5, PrevInIs DEF Trees, Folder
  <2> QED
    BY <2>1, DocumentHolds DEF DocumentProgress, Readable, ReadSeries, At
<1>6. CASE DocOut(o)
  <2>1. /\ At(o, "docOut") /\ req'[o].phase = "docIn"
        /\ folder'.doc = None /\ folder'.here = folder.here /\ folder'.prev = folder.prev
    BY <1>1, <1>6, DocOutIs DEF Trees, Folder
  <2> QED
    BY <2>1, DocumentHolds DEF DocumentProgress, Readable, ReadSeries, At
<1>7. CASE DocIn(o)
  <2>1. /\ At(o, "docIn") /\ req'[o].phase \in {"row", "move"}
        /\ folder'.here = folder.here /\ folder'.prev = folder.prev
    BY <1>1, <1>7, DocInIs DEF Trees, Folder
  <2> QED
    BY <2>1, DocumentHolds DEF DocumentProgress, Readable, ReadSeries, At
<1>8. CASE ApplyFails(o)
  <2>1. /\ req[o].phase \in ApplyPhases /\ req'[o].phase = "refused"
        /\ \E undos \in SUBSET Undos : folder' = PutBack(o, folder, undos)
    BY <1>8, ApplyFailsIs
  <2>2. /\ folder'.doc \in {OrAside(folder.docAside[o], folder.doc), folder.doc}
        /\ folder'.here = folder.here
        /\ folder'.prev \in {OrAside(folder.prevAside[o], folder.prev), folder.prev}
    BY <1>1, <2>1, PutBackIs
  <2>3. folder.doc # None \/ folder.prev # None
    BY <2>1 DEF DocumentProgress, ApplyPhases
  <2>4. Readable(folder')
    BY <2>1, <2>2, <2>3 DEF DocumentProgress, Readable, ReadSeries, OrAside, ApplyPhases
  <2> QED
    BY <2>1, <2>4, DocumentHolds DEF Late
<1>9. CASE PosterFails(o) \/ UndoMoves(o)
  <2>1. /\ At(o, "docIn") \/ At(o, "undoMoves")
        /\ req'[o].phase = "refused" /\ folder'.doc = folder.doc
        /\ folder'.prev = folder.prev /\ folder'.here = folder.here
    BY <1>9, PosterFailsIs, UndoMovesIs
  <2> QED
    BY <2>1, DocumentHolds DEF DocumentProgress, Readable, ReadSeries, At, Late
<1>10. CASE Settle(o)
  <2>1. /\ At(o, "settle") /\ req'[o].phase \in {"register", "ok", "refused"}
        /\ folder'.doc = folder.doc
        /\ folder'.prev = folder.prev /\ folder'.here = folder.here
    BY <1>1, <1>10, SettleIs, SettledIs
  <2> QED
    BY <2>1, DocumentHolds DEF DocumentProgress, Readable, ReadSeries, At, Late
<1>11. CASE UndoDoc(o)
  <2>1. /\ At(o, "undoDoc") /\ req'[o].phase = "undoAside"
        /\ folder'.prev = folder.prev /\ folder'.here = folder.here
    BY <1>1, <1>11, UndoDocIs DEF Trees, Folder
  <2> QED
    BY <2>1, DocumentHolds DEF DocumentProgress, Readable, ReadSeries, At, Late
<1>12. CASE UndoAside(o)
  <2>1. /\ At(o, "undoAside") /\ req'[o].phase = "undoMoves"
        /\ \E undos \in SUBSET Undos : folder' = PutBack(o, folder, undos)
    BY <1>12, UndoAsideIs
  <2>2. /\ folder'.here = folder.here
        /\ folder'.prev \in {OrAside(folder.prevAside[o], folder.prev), folder.prev}
    BY <1>1, <2>1, PutBackIs
  <2>3. folder.prev # None /\ folder.here
    BY <2>1 DEF DocumentProgress, Readable, At
  <2>4. folder'.prev # None /\ Readable(folder')
    BY <2>2, <2>3 DEF Readable, ReadSeries, OrAside
  <2> QED
    BY <2>1, <2>4, DocumentHolds
<1> QED
  BY <1>3, <1>4, <1>5, <1>6, <1>7, <1>8, <1>9, <1>10, <1>11, <1>12

(* The other steps that leave the rows alone.                                        *)
LEMMA FolderDocument ==
  ASSUME Basic, NEW o \in Requests, kind = "series", title # None, DocumentProgress(o),
         \/ \E n \in Numbers : Move(o, n)
         \/ Install(o) \/ RegisterFails(o) \/ Rename(o) \/ RenumberFails(o) \/ RenameBack(o)
  PROVE  DocumentOwn(o)
<1>1. folder \in Trees /\ Types
  BY DEF Basic, Types
<1>2. ASSUME NEW n \in Numbers, Move(o, n)
      PROVE  DocumentOwn(o)
  <2>1. /\ At(o, "move") /\ req'[o].phase \in {"settle", "move"}
        /\ folder'.here /\ folder'.doc = folder.doc /\ folder'.prev = folder.prev
    BY <1>2, MoveIs
  <2> QED
    BY <2>1, DocumentHolds DEF DocumentProgress, Readable, ReadSeries, At, Late
<1>3. CASE Install(o)
  <2>1. At(o, "install") /\ (folder.here => Empty(folder))
    BY <1>3, InstallIs
  <2>2. Readable(folder)
    BY <2>1 DEF DocumentProgress, At
  <2> QED
    BY <2>1, <2>2 DEF Readable, ReadSeries, Empty, Fresh, NoFolder
<1>4. CASE RegisterFails(o)
  <2>1. /\ At(o, "register") /\ req'[o].phase \in {"preserved", "refused"}
        /\ folder' = Recovered(folder)
    BY <1>4, RegisterFailsIs
  <2>2. folder'.here = folder.here /\ folder'.doc = Read(folder) /\ Read(folder) = ReadSeries(folder)
    BY <1>1, <2>1, RecoveredIs, ReadIs
  <2> QED
    BY <2>1, <2>2, DocumentHolds DEF DocumentProgress, Readable, ReadSeries, At, Late
<1>5. CASE Rename(o) \/ RenumberFails(o) \/ RenameBack(o)
  <2>1. /\ req[o].phase \in {"rename", "renamed", "renameBack"}
        /\ req'[o].phase \in {"refused", "renamed", "renameBack"}
    BY <1>5, RenameIs, RenumberFailsIs, RenameBackIs DEF At
  <2>2. Readable(folder)
    BY <2>1 DEF DocumentProgress
  <2>3. folder'.here = folder.here /\ folder'.doc = folder.doc /\ folder'.prev = folder.prev
    <3>1. /\ req[o].from \in Numbers /\ To(o) \in Numbers /\ To(o) # req[o].from
          /\ folder.here
      BY <2>1, <2>2, RenumbersIs DEF Readable
    <3>2. \/ folder' = folder \/ folder' = Made(folder)
          \/ folder' = Moved(folder, req[o].from, To(o))
          \/ folder' = Moved(folder, To(o), req[o].from)
      BY <1>5, RenameIs, RenumberFailsIs, RenameBackIs
    <3> DEFINE Same(f) == f.here = folder.here /\ f.doc = folder.doc /\ f.prev = folder.prev
    <3>3. Same(Made(folder)) /\ Same(folder)
      BY <1>1, <3>1, MadeIs
    <3>4. ASSUME NEW n \in Numbers, NEW m \in Numbers, m # n
          PROVE  Same(Moved(folder, n, m))
      BY <1>1, <3>1, <3>4, MovedIs, ZenonT(60)
    <3>5. Same(Moved(folder, req[o].from, To(o))) /\ Same(Moved(folder, To(o), req[o].from))
      BY <3>1, <3>4
    <3> QED
      BY <3>2, <3>3, <3>5
  <2> QED
    BY <2>1, <2>2, <2>3, DocumentHolds DEF Readable, ReadSeries, Late
<1> QED
  BY <1>2, <1>3, <1>4, <1>5

LEMMA QuietDocument ==
  ASSUME Basic, NEW o \in Requests, kind = "series", title # None, DocumentProgress(o),
         \/ StageFails(o) \/ RowFails(o) \/ RowTorn(o) \/ MoveFails(o) \/ InstallFails(o)
         \/ RenameFails(o) \/ RenameBackFails(o) \/ AwayFails(o) \/ DeleteRowsFail(o)
         \/ BackFails(o) \/ PurgeFails(o)
  PROVE  DocumentOwn(o)
<1> DEFINE Ends == {"refused", "undoDoc", "torn", "back", "broken", "ok"}
<1>1. PICK phase \in Ends : Quiet(o, phase)
  BY QuietStepIs
<1>2. /\ folder' = folder /\ trash' = trash /\ req'[o].phase = phase
  BY <1>1, GoIs DEF Quiet, disk, Basic, Phases, Answers, Unsettled
<1>3. \A other \in Ends : Quiet(o, other) => other = phase
  BY <1>2, GoIs DEF Quiet, Basic, Phases, Answers, Unsettled
<1>4. \/ req[o].phase \in {"stage", "install", "rename", "renameBack", "away", "row"}
           /\ phase \in {"refused", "broken", "torn"}
      \/ req[o].phase \in {"row", "move"} /\ phase = "undoDoc"
      \/ At(o, "rows") /\ phase = IF trash[o].here THEN "back" ELSE "refused"
      \/ At(o, "back") /\ phase = "broken"
      \/ At(o, "purge")
  BY <1>3, QuietSteps DEF At
<1>5. CASE req[o].phase \in {"stage", "install", "rename", "renameBack", "away", "row"}
             /\ phase \in {"refused", "broken", "torn"}
  BY <1>2, <1>5, DocumentHolds DEF DocumentProgress, Late
<1>6. CASE req[o].phase \in {"row", "move"} /\ phase = "undoDoc"
  BY <1>2, <1>6, DocumentHolds DEF DocumentProgress, Late
<1>7. CASE At(o, "rows") /\ phase = IF trash[o].here THEN "back" ELSE "refused"
  <2>1. Readable(trash[o])
    BY <1>7 DEF DocumentProgress, At
  <2>2. phase = "back" /\ Readable(trash'[o])
    BY <1>2, <1>7, <2>1 DEF Readable
  <2>3. Active(o)'
    BY <1>2, <2>2 DEF Active, Answers, Unsettled
  <2> QED
    BY <1>2, <2>2, <2>3 DEF DocumentOwn, DocumentProgress, Readable, ReadSeries
<1>8. CASE At(o, "back") /\ phase = "broken"
  <2>1. Readable(trash[o])
    BY <1>8 DEF DocumentProgress, At
  <2>2. ~Active(o)'
    BY <1>2, <1>8 DEF Active, Answers, Unsettled
  <2> QED
    BY <1>2, <2>1, <2>2 DEF DocumentOwn, Readable
<1>9. CASE At(o, "purge")
  BY <1>9 DEF DocumentProgress, At
<1> QED
  BY <1>4, <1>5, <1>6, <1>7, <1>8, <1>9

(* The steps that change rows, or move the folder away or back.                      *)
LEMMA RowsDocument ==
  ASSUME Basic, NEW o \in Requests, kind = "series", title' # None,
         title # None => DocumentProgress(o),
         RowsStep(o) \/ TrashStep(o)
  PROVE  DocumentOwn(o)
<1>1. folder \in Trees /\ Types /\ trash \in [Requests -> Trees]
  BY DEF Basic, Types
<1>2. CASE UpdateMovie(o) \/ UpdateSeries(o) \/ UpdateReading(o)
  <2>1. /\ At(o, "row") /\ req'[o].phase = "settle" /\ folder' = folder
        /\ title # None
    BY <1>2, RowUpdatedIs
  <2> QED
    BY <2>1, DocumentHolds DEF DocumentProgress, At
<1>3. CASE Register(o)
  <2>1. req'[o].phase = "ok" /\ Registrable(o) /\ folder' = Recovered(folder)
    BY <1>3, RegisterIs
  <2>2. Read(folder) = ReadSeries(folder) /\ Read(folder) # None
    BY <1>1, <2>1, ReadIs DEF Registrable
  <2>3. folder.here
    BY <1>1, <2>2 DEF Trees, ReadSeries, NoFolder
  <2>4. Readable(folder')
    BY <1>1, <2>1, <2>2, <2>3, RecoveredIs DEF Readable, ReadSeries
  <2> QED
    BY <2>1, <2>4, DocumentHolds DEF Late
<1>4. CASE Renumber(o)
  <2>1. /\ At(o, "renamed") /\ req'[o].phase \in {"ok", "refused"}
        /\ folder' = folder /\ title # None
    BY <1>4, RenumberIs
  <2> QED
    BY <2>1, DocumentHolds DEF DocumentProgress, At, Late
<1>5. CASE DeleteRows(o)
  BY <1>5, DeleteRowsIs
<1>6. CASE Away(o)
  <2>1. At(o, "away") /\ req'[o].phase = "rows" /\ trash'[o] = folder /\ title # None
    BY <1>1, <1>6, AwayIs
  <2>2. Readable(trash'[o]) /\ Active(o)'
    BY <2>1 DEF DocumentProgress, At, Active, Answers, Unsettled
  <2> QED
    BY <2>1, <2>2 DEF DocumentOwn, DocumentProgress, Readable, ReadSeries
<1>7. CASE Back(o)
  <2>1. /\ At(o, "back") /\ title # None
        /\ req'[o].phase = "refused" /\ folder' = trash[o]
    BY <1>7, BackIs
  <2>2. Readable(trash[o])
    BY <2>1 DEF DocumentProgress, At
  <2>3. ~Active(o)'
    BY <2>1 DEF Active, Answers, Unsettled
  <2> QED
    BY <2>1, <2>2, <2>3 DEF DocumentOwn, Readable
<1>8. CASE Purge(o)
  <2>1. At(o, "purge") /\ title # None
    BY <1>8, PurgeIs
  <2> QED
    BY <2>1 DEF DocumentProgress, At
<1> QED
  BY <1>2, <1>3, <1>4, <1>5, <1>6, <1>7, <1>8 DEF RowsStep, TrashStep

LEMMA StepDocument ==
  ASSUME Basic, DocumentKept, NEW o \in Requests, Step(o)
  PROVE  DocumentKept'
<1>1. /\ Active(o) /\ Onward(o) /\ Basic' /\ UNCHANGED <<kind, history>>
      /\ FolderStep(o) \/ RowsStep(o) \/ TrashStep(o)
  BY StepIs
<1>2. \A p \in Requests \ {o} : trash'[p] = trash[p]
  <2>1. CASE FolderStep(o)
    BY <2>1 DEF FolderStep
  <2>2. CASE RowsStep(o)
    BY <2>2, RowUpdatedIs, RegisterIs, RenumberIs, DeleteRowsIs DEF RowsStep
  <2>3. CASE TrashStep(o)
    <3>1. trash \in [Requests -> Trees]
      BY DEF Basic, Types
    <3> QED
      BY <2>3, <3>1, AwayIs, BackIs, PurgeIs DEF TrashStep
  <2> QED
    BY <1>1, <2>1, <2>2, <2>3
<1>3. ASSUME kind = "series", title' # None, title # None => DocumentProgress(o)
      PROVE  DocumentOwn(o)
  <2>1. CASE RowsStep(o) \/ TrashStep(o)
    BY <1>3, <2>1, RowsDocument
  <2>2. CASE ~(RowsStep(o) \/ TrashStep(o))
    <3>1. FolderStep(o)
      BY <1>1, <2>2
    <3>2. title # None /\ DocumentProgress(o)
      BY <1>3, <3>1 DEF FolderStep, catalogue
    <3> QED
      BY <1>3, <2>2, <3>2, DocumentSteps, FolderDocument, QuietDocument
      DEF Step, DocumentStep, UploadStep, RenumberStep, DeleteStep, RowsStep, TrashStep
  <2> QED
    BY <2>1, <2>2
<1> QED
  BY <1>1, <1>2, <1>3, DocumentCarry

LEMMA DocumentNext == ASSUME Basic, DocumentKept, [Next]_vars PROVE DocumentKept'
<1>1. ASSUME NEW o \in Requests, Ask(o)
      PROVE  DocumentKept'
  <2>1. Begun(o) /\ Passed(o)
    BY <1>1, AskIs
  <2>2. /\ \A p \in Requests \ {o} : req'[p] = req[p]
        /\ UNCHANGED <<kind, folder, trash, title>> /\ req[o].phase = "idle"
        /\ req'[o].phase \in {"stage", "install", "rename", "away", "refused"}
        /\ overlapped' = IF Others = {} THEN overlapped ELSE overlapped \cup Others \cup {o}
    BY <2>1 DEF Begun, Passed, At
  <2>3. ~trash[o].here
    BY <2>2, FitsIs DEF TrashFits
  <2> SUFFICES ASSUME kind' = "series", overlapped' = {}, title' # None
               PROVE  /\ (\A p \in Requests : ~Active(p)' /\ ~trash'[p].here) => Readable(folder')
                      /\ \A p \in Requests : Active(p)' /\ ~Binned(p)' => DocumentProgress(p)'
    BY DEF DocumentKept, Readable, ReadSeries
  <2>4. Others = {} /\ overlapped = {}
    BY <2>2
  <2>5. \A p \in Requests : ~Active(p)
    BY <2>4 DEF Others
  <2>6. (\A p \in Requests : ~trash[p].here) => Readable(folder)
    BY <2>2, <2>4, <2>5 DEF DocumentKept
  <2>7. ASSUME NEW p \in Requests, Active(p)', ~Binned(p)'
        PROVE  DocumentProgress(p)'
    <3>1. p = o
      BY <2>2, <2>5, <2>7 DEF Active
    <3>2. Readable(folder)
      BY <2>2, <2>3, <2>6, <2>7, <3>1 DEF Binned
    <3>3. Readable(folder)'
      BY <2>2, <3>2 DEF Readable, ReadSeries
    <3>4. req'[p].phase \in {"stage", "install", "rename", "away", "refused"}
      BY <2>2, <3>1
    <3> QED
      BY <3>3, <3>4 DEF DocumentProgress
  <2> QED
    BY <2>2, <2>6, <2>7
<1>2. CASE Stop
  <2>1. /\ \A o \in Requests : ~Active(o)'
        /\ UNCHANGED <<kind, folder, trash, title, overlapped>>
    BY <1>2, StopIs
  <2>2. PICK o \in Requests : Active(o)
    BY <1>2 DEF Stop
  <2>3. ASSUME kind = "series", overlapped = {}, title # None, \A p \in Requests : ~trash[p].here
        PROVE  Readable(folder)
    <3>1. DocumentProgress(o)
      BY <2>2, <2>3 DEF DocumentKept, Binned
    <3> QED
      BY <2>3, <3>1 DEF DocumentProgress, Readable
  <2> QED
    BY <2>1, <2>3 DEF DocumentKept, Readable, ReadSeries
<1>3. CASE UNCHANGED vars
  <2>1. UNCHANGED <<kind, folder, trash, title, req, overlapped>>
    BY <1>3 DEF vars, disk, catalogue, history
  <2>2. \A o \in Requests : Active(o)' = Active(o) /\ Binned(o)' = Binned(o)
    BY <2>1 DEF Active, Binned
  <2>3. ASSUME NEW o \in Requests, DocumentProgress(o) PROVE DocumentProgress(o)'
    BY <2>1, <2>3 DEF DocumentProgress, Readable, ReadSeries
  <2> QED
    BY <2>1, <2>2, <2>3 DEF DocumentKept, Readable, ReadSeries
<1> QED
  BY <1>1, <1>2, <1>3, StepDocument DEF Next

(* A document of a series that one request at a time changes can be read at every    *)
(* step, so also after a stop at any step.                                           *)
THEOREM DocumentStays == Spec => []DocumentSurvives
<1>1. ASSUME Init
      PROVE  DocumentKept
  <2>1. /\ \A o \in Requests : ~Active(o)
        /\ title # None => folder.here /\ folder.doc = First
    BY <1>1 DEF Init, Idle, Active, Fresh, NoFolder
  <2>2. First # None
    BY ConstantsAssumption
  <2> QED
    BY <2>1, <2>2 DEF DocumentKept, Readable, ReadSeries
<1>2. ASSUME Basic, DocumentKept, kind = "series", title # None, folder.here, overlapped = {},
             \A o \in Requests : ~trash[o].here
      PROVE  Read(folder) # None
  <2>1. Readable(folder)
    <3>1. CASE \E o \in Requests : Active(o)
      BY <1>2, <3>1 DEF DocumentKept, Binned, DocumentProgress, Readable
    <3>2. CASE \A o \in Requests : ~Active(o)
      BY <1>2, <3>2 DEF DocumentKept
    <3> QED
      BY <3>1, <3>2
  <2> QED
    BY <1>2, <2>1, ReadIs DEF Basic, Readable
<1>3. Basic /\ DocumentKept => DocumentSurvives
  BY <1>2 DEF DocumentSurvives
<1>4. Basic /\ DocumentKept /\ [Next]_vars => (Basic /\ DocumentKept)'
  BY NextBasic, DocumentNext
<1> QED
  BY <1>1, <1>3, <1>4, InitBasic, PTL DEF Spec

-----------------------------------------------------------------------------------
(* A request that no other overlaps.                                                 *)
Atomic(o) ==
  /\ req'[o].phase = "ok" => Asked(o)
  /\ req'[o].phase = "refused" /\ kind # "reading" /\ troubles' <= req[o].since + 1 =>
       Shown' = req[o].before
  /\ req'[o].phase = "torn" => Shown' = [req[o].before EXCEPT !.doc = req[o].want]

AloneOwn(o) == Atomic(o) /\ (Active(o)' => SoFar(o)')

LEMMA ReadNext ==
  ASSUME Basic, UNCHANGED kind
  PROVE  /\ Read(folder) = IF kind = "series" THEN ReadSeries(folder) ELSE folder.doc
         /\ Read(folder)' = IF kind = "series" THEN ReadSeries(folder') ELSE folder'.doc
         /\ \A f, g : f.doc = g.doc /\ f.prev = g.prev => ReadSeries(f) = ReadSeries(g)
BY DEF Basic, Types, Kinds, Read, ReadContent, ReadReading, ReadSeries

LEMMA ShownIs ==
  ASSUME Basic, NEW o \in Requests, req[o].op # "none"
  PROVE  LET b == req[o].before
         IN  /\ Shown = b => /\ Read(folder) = b.doc /\ folder.videos = b.videos
                             /\ title = b.title /\ episodes = b.episodes
             /\ Read(folder)' = b.doc /\ folder'.videos = b.videos /\ title' = b.title
                  /\ episodes' = b.episodes => Shown' = b
<1> DEFINE b == req[o].before
<1>1. b \in View
  BY FitsIs DEF AskFits
<1>2. b = [doc |-> b.doc, videos |-> b.videos, title |-> b.title, episodes |-> b.episodes]
  BY <1>1 DEF View
<1>3. Shown' = [doc |-> Read(folder)', videos |-> folder'.videos, title |-> title',
                episodes |-> episodes']
  BY DEF Shown
<1>4. Shown = [doc |-> Read(folder), videos |-> folder.videos, title |-> title,
               episodes |-> episodes]
  BY DEF Shown
<1> HIDE DEF b
<1>5. ASSUME Shown = b
      PROVE  /\ Read(folder) = b.doc /\ folder.videos = b.videos
             /\ title = b.title /\ episodes = b.episodes
  BY <1>4, <1>5
<1>6. ASSUME Read(folder)' = b.doc, folder'.videos = b.videos, title' = b.title,
             episodes' = b.episodes
      PROVE  Shown' = b
  BY <1>2, <1>3, <1>6, Zenon
<1> QED
  BY <1>5, <1>6 DEF b

(* What is left to show of a step, by the phase it leads to.                         *)
LEMMA AloneRefused ==
  ASSUME Basic, NEW o \in Requests, Active(o), req'[o].phase = "refused",
         kind # "reading" =>
           /\ Read(folder)' = req[o].before.doc /\ folder'.videos = req[o].before.videos
           /\ title' = req[o].before.title /\ episodes' = req[o].before.episodes
  PROVE  AloneOwn(o)
<1>1. req[o].op # "none"
  BY FitsIs DEF PhaseFits, Active
<1>2. ~Active(o)'
  BY DEF Active, Answers, Unsettled
<1> QED
  BY <1>1, <1>2, ShownIs DEF AloneOwn, Atomic

LEMMA AloneOk ==
  ASSUME NEW o \in Requests, req'[o].phase = "ok", Asked(o)
  PROVE  AloneOwn(o)
BY DEF AloneOwn, Atomic, Active, Answers, Unsettled

LEMMA AloneDocument ==
  ASSUME NEW o \in Requests, Onward(o), req[o].op \in {"edit", "upload"},
         req'[o].phase \notin {"stage", "install", "rename", "away", "ok", "refused", "torn"},
         DocumentAt(o)', EpisodesAt(o)'
  PROVE  AloneOwn(o)
<1>1. req'[o].op \in {"edit", "upload"}
  BY DEF Onward
<1>2. DocumentSoFar(o)'
  BY DEF DocumentSoFar
<1> QED
  BY <1>1, <1>2 DEF AloneOwn, Atomic, SoFar

(* The troubles only grow, and a request knows how many there were before it.         *)
LEMMA StepCounts ==
  ASSUME Basic, NEW o \in Requests, Step(o)
  PROVE  /\ req'[o].since = req[o].since /\ req[o].since \in Nat
         /\ troubles \in Nat /\ troubles' \in Nat /\ troubles <= troubles'
<1>1. Onward(o) /\ Basic' /\ (FolderStep(o) \/ RowsStep(o) \/ TrashStep(o))
  BY StepIs
<1>2. /\ req[o].since \in Nat /\ troubles \in Nat /\ troubles' \in Nat
  BY <1>1, StepIs, ConstantsAssumption DEF Basic, Types, Request
<1>3. ASSUME FolderStep(o)
      PROVE  troubles <= troubles'
  BY <1>3, SpentIs DEF FolderStep, Basic
<1>4. ASSUME RowsStep(o) \/ TrashStep(o)
      PROVE  troubles <= troubles'
  <2>1. troubles' = troubles
    BY <1>4 DEF RowsStep, TrashStep, UpdateMovie, UpdateSeries, UpdateReading, RowUpdated,
                Register, Renumber, DeleteRows, Away, Back, Purge
  <2> QED
    BY <1>2, <2>1
<1> QED
  BY <1>1, <1>2, <1>3, <1>4, StepIs DEF Onward

(* What has to be undone is told by a fault.                                          *)
LEMMA StepUndoes ==
  ASSUME Basic, NEW o \in Requests, Step(o), req'[o].phase \in Undoing
  PROVE  req[o].phase \in Undoing \/ RowFails(o) \/ MoveFails(o)
<1> SUFFICES ASSUME ~RowFails(o), ~MoveFails(o)
             PROVE  req[o].phase \in Undoing
  OBVIOUS
<1>1. CASE \/ StageFails(o) \/ RowTorn(o) \/ InstallFails(o) \/ RenameFails(o)
           \/ RenameBackFails(o) \/ AwayFails(o) \/ DeleteRowsFail(o)
           \/ BackFails(o) \/ PurgeFails(o)
  <2>1. \E phase \in {"refused", "torn", "back", "broken", "ok"} : Quiet(o, phase)
    BY <1>1, QuietSteps
  <2>2. req'[o].phase \in {"refused", "torn", "back", "broken", "ok"}
    BY <2>1, GoIs DEF Quiet, Basic, Phases, Answers, Unsettled
  <2> QED
    BY <2>2 DEF Undoing
<1>2. CASE UndoDoc(o) \/ UndoAside(o) \/ UndoMoves(o)
  BY <1>2, UndoDocIs, UndoAsideIs, UndoMovesIs DEF At, Undoing
<1>3. CASE \/ StageContent(o) \/ StageSeries(o) \/ StageReading(o) \/ PrevOut(o) \/ PrevIn(o)
           \/ DocOut(o) \/ DocIn(o) \/ ApplyFails(o) \/ PosterFails(o) \/ Settle(o)
           \/ UpdateMovie(o) \/ UpdateSeries(o) \/ UpdateReading(o)
  <2>1. CASE StageContent(o) \/ StageSeries(o) \/ StageReading(o)
    BY <2>1, StageIs DEF Undoing
  <2>2. CASE PrevOut(o) \/ PrevIn(o) \/ DocOut(o) \/ DocIn(o)
    BY <2>2, PrevOutIs, PrevInIs, DocOutIs, DocInIs DEF Undoing
  <2>3. CASE ApplyFails(o) \/ PosterFails(o) \/ Settle(o)
    BY <2>3, ApplyFailsIs, PosterFailsIs, SettleIs DEF Undoing
  <2>4. CASE UpdateMovie(o) \/ UpdateSeries(o) \/ UpdateReading(o)
    BY <2>4, RowUpdatedIs DEF Undoing
  <2> QED
    BY <1>3, <2>1, <2>2, <2>3, <2>4
<1>4. CASE \/ \E n \in Numbers : Move(o, n)
           \/ Install(o) \/ Register(o) \/ RegisterFails(o)
  BY <1>4, MoveIs, InstallIs, RegisterIs, RegisterFailsIs DEF Undoing
<1>5. CASE \/ Rename(o) \/ Renumber(o) \/ RenumberFails(o) \/ RenameBack(o)
           \/ Away(o) \/ DeleteRows(o) \/ Back(o) \/ Purge(o)
  BY <1>5, RenameIs, RenumberIs, RenumberFailsIs, RenameBackIs, AwayIs, DeleteRowsIs, BackIs,
     PurgeIs DEF Undoing
<1> QED
  BY <1>1, <1>2, <1>3, <1>4, <1>5 DEF Step, DocumentStep, UploadStep, RenumberStep, DeleteStep

LEMMA AloneCounts ==
  ASSUME Basic, NEW o \in Requests, Counted(o), SoFar(o), Step(o)
  PROVE  Counted(o)'
<1>1. /\ req'[o].since = req[o].since /\ req[o].since \in Nat
      /\ troubles \in Nat /\ troubles' \in Nat /\ troubles <= troubles'
  BY StepCounts
<1>2. req[o].since <= troubles'
  BY <1>1 DEF Counted
<1>3. ASSUME req'[o].phase \in Undoing
      PROVE  req[o].since < troubles'
  <2>1. CASE req[o].phase \in Undoing
    BY <1>1, <2>1 DEF Counted
  <2>2. CASE RowFails(o)
    <3>1. At(o, "row")
      BY <2>2, QuietSteps
    <3>2. req[o].op \in {"edit", "upload"}
      BY <3>1, FitsIs DEF PhaseFits, Ops, At
    <3>3. EpisodesAt(o)
      BY <3>1, <3>2 DEF SoFar, Spoiled, Undoing, DocumentSoFar, At
    <3>4. title # None
      BY <3>1, <3>3 DEF EpisodesAt, At
    <3>5. Trouble
      BY <2>2, <3>4 DEF RowFails
    <3> QED
      BY <1>1, <3>5 DEF Counted, Trouble, Troubles
  <2>3. CASE MoveFails(o)
    <3>1. Trouble
      BY <2>3 DEF MoveFails
    <3> QED
      BY <1>1, <3>1 DEF Counted, Trouble, Troubles
  <2> QED
    BY <1>3, <2>1, <2>2, <2>3, StepUndoes
<1> QED
  BY <1>1, <1>2, <1>3 DEF Counted

LEMMA EpisodesAtStays ==
  ASSUME NEW o \in Requests, Onward(o), UNCHANGED <<title, episodes>>,
         folder'.videos = folder.videos, req'[o].moved = req[o].moved,
         ~At(o, "settle"), req'[o].phase # "settle", EpisodesAt(o)
  PROVE  EpisodesAt(o)'
BY DEF EpisodesAt, Onward, At, Video

(* The document and the episodes of a refused request, as they were.                 *)
LEMMA DocumentRefused ==
  ASSUME Basic, NEW o \in Requests, Active(o), UNCHANGED <<kind, title, episodes>>,
         req'[o].phase = "refused", ~At(o, "settle"), EpisodesAt(o),
         \A n \in Numbers : folder'.videos[n] = IF n \in req[o].moved THEN None ELSE folder.videos[n],
         folder'.videos \in [Numbers -> Videos \cup {None}],
         kind # "reading" => Read(folder)' = req[o].before.doc
  PROVE  AloneOwn(o)
<1> DEFINE b == req[o].before
<1>1. b \in View /\ req[o].moved \subseteq req[o].plan
  BY FitsIs DEF AskFits, PhaseFits, Active, MovedFits
<1>2. b.videos \in [Numbers -> Videos \cup {None}]
  BY <1>1 DEF View
<1>3. title' = b.title /\ episodes' = b.episodes
  BY DEF EpisodesAt, At
<1>4. \A n \in Numbers : folder'.videos[n] = b.videos[n]
  BY <1>1 DEF EpisodesAt
<1>5. folder'.videos = b.videos
  BY <1>2, <1>4
<1> QED
  BY <1>3, <1>5, AloneRefused

(* The steps that change a document.                                                 *)
LEMMA AloneStage ==
  ASSUME Basic, NEW o \in Requests, SoFar(o), StageContent(o) \/ StageSeries(o) \/ StageReading(o)
  PROVE  AloneOwn(o)
<1> DEFINE b == req[o].before
<1>1. /\ At(o, "stage") /\ FolderStep(o)
      /\ folder'.here /\ folder'.doc = Read(folder) /\ folder'.prev = folder.prev
      /\ folder'.temps = folder.temps \cup {o}
      /\ folder'.docAside = folder.docAside /\ folder'.prevAside = folder.prevAside
      /\ folder'.videos = folder.videos
      /\ req'[o].seen = Read(folder) /\ req'[o].moved = req[o].moved
      /\ req'[o].phase = IF kind # "reading" /\ Read(folder) # None
                           THEN "prevOut" ELSE "docOut"
  BY StageIs
<1>2. /\ Active(o) /\ Onward(o) /\ UNCHANGED <<kind, title, episodes>>
      /\ req[o].op \in {"edit", "upload"} /\ req[o].moved = {}
  BY <1>1, FitsIs DEF FolderStep, catalogue, At, PhaseFits, Ops, MovedFits
<1>3. /\ Read(folder) = b.doc /\ folder.videos = b.videos /\ title = b.title
      /\ episodes = b.episodes /\ title # None /\ \A n \in req[o].plan : folder.videos[n] = None
  BY <1>1, <1>2, ShownIs DEF SoFar, At
<1>4. folder.docAside[o] = None /\ folder.prevAside[o] = None
  BY <1>1 DEF Basic, NotStarted, Untouched, At
<1>5. kind = "series" /\ Read(folder) = None => folder.prev = None
  BY <1>2, ReadNext DEF ReadSeries
<1>6. req'[o].before = b /\ req'[o].plan = req[o].plan /\ req'[o].op = req[o].op
  BY <1>2 DEF Onward
<1>7. EpisodesAt(o)'
  BY <1>1, <1>2, <1>3, <1>6 DEF EpisodesAt
<1>8. DocumentAt(o)'
  BY <1>1, <1>2, <1>3, <1>4, <1>5, <1>6 DEF DocumentAt, ApplyPhases
<1> QED
  BY <1>1, <1>2, <1>7, <1>8, AloneDocument

LEMMA AloneApply ==
  ASSUME Basic, NEW o \in Requests, SoFar(o),
         PrevOut(o) \/ PrevIn(o) \/ DocOut(o) \/ DocIn(o)
  PROVE  AloneOwn(o)
<1>1. folder \in Trees /\ Types /\ folder \in Folder
      /\ folder.docAside \in [Requests -> Versions \cup {None}]
      /\ folder.prevAside \in [Requests -> Versions \cup {None}]
  BY DEF Basic, Types, Trees, Folder
<1>2. /\ FolderStep(o) /\ folder'.videos = folder.videos /\ req'[o].moved = req[o].moved
      /\ req'[o].seen = req[o].seen
      /\ req[o].phase \in ApplyPhases
      /\ req'[o].phase \in {"prevIn", "docOut", "docIn", "row", "move"}
  <2>1. CASE PrevOut(o) \/ PrevIn(o) \/ DocOut(o)
    BY <1>1, <2>1, PrevOutIs, PrevInIs, DocOutIs DEF At, ApplyPhases, Trees, Folder
  <2>2. CASE DocIn(o)
    BY <1>1, <2>2, DocInIs DEF At, ApplyPhases, Trees, Folder
  <2> QED
    BY <2>1, <2>2
<1>3. /\ Active(o) /\ Onward(o) /\ UNCHANGED <<kind, title, episodes>>
      /\ req[o].op \in {"edit", "upload"} /\ ~At(o, "settle")
  BY <1>2, FitsIs DEF FolderStep, catalogue, At, PhaseFits, Ops, ApplyPhases
<1>4. DocumentAt(o) /\ EpisodesAt(o)
  BY <1>2, <1>3 DEF SoFar, Spoiled, Undoing, DocumentSoFar, ApplyPhases
<1>5. EpisodesAt(o)'
  BY <1>2, <1>3, <1>4, EpisodesAtStays
<1>6. req'[o].before = req[o].before /\ req'[o].want = req[o].want
  BY <1>3 DEF Onward
<1>7. CASE PrevOut(o)
  <2>1. /\ At(o, "prevOut") /\ req'[o].phase = "prevIn" /\ folder'.doc = folder.doc
        /\ folder'.docAside = folder.docAside /\ folder'.temps = folder.temps
    BY <1>1, <1>7, PrevOutIs DEF Folder
  <2>2. DocumentAt(o)'
    BY <1>2, <1>3, <1>4, <1>6, <2>1 DEF DocumentAt, ApplyPhases, At
  <2> QED
    BY <1>2, <1>3, <1>5, <2>2, AloneDocument
<1>8. CASE PrevIn(o)
  <2>1. /\ At(o, "prevIn") /\ req'[o].phase = "docOut" /\ folder'.doc = folder.doc
        /\ folder'.docAside = folder.docAside /\ folder'.temps = folder.temps
        /\ folder'.prev = req[o].seen
        /\ folder'.prevAside[o] = IF kind = "film" THEN folder.prevAside[o] ELSE None
    <3>1. /\ At(o, "prevIn") /\ req'[o].phase = "docOut"
          /\ folder' = [folder EXCEPT !.prev = req[o].seen,
                          !.prevAside[o] = IF kind = "film" THEN folder.prevAside[o] ELSE None]
      BY <1>8, PrevInIs
    <3>2. folder'.prevAside = [folder.prevAside EXCEPT ![o] =
                                 IF kind = "film" THEN folder.prevAside[o] ELSE None]
      BY <1>1, <3>1 DEF Folder
    <3>3. /\ folder'.doc = folder.doc /\ folder'.docAside = folder.docAside
          /\ folder'.temps = folder.temps /\ folder'.prev = req[o].seen
      BY <1>1, <3>1 DEF Folder
    <3> QED
      BY <1>1, <3>1, <3>2, <3>3
  <2>2. DocumentAt(o)'
    BY <1>2, <1>3, <1>4, <1>6, <2>1 DEF DocumentAt, ApplyPhases, At
  <2> QED
    BY <1>2, <1>3, <1>5, <2>2, AloneDocument
<1>9. CASE DocOut(o)
  <2>1. /\ At(o, "docOut") /\ req'[o].phase = "docIn" /\ folder'.doc = None
        /\ folder'.docAside[o] = folder.doc /\ folder'.temps = folder.temps
        /\ folder'.prev = folder.prev /\ folder'.prevAside = folder.prevAside
    <3>1. /\ At(o, "docOut") /\ req'[o].phase = "docIn"
          /\ folder' = [folder EXCEPT !.docAside[o] = folder.doc, !.doc = None]
      BY <1>9, DocOutIs
    <3>2. folder'.docAside = [folder.docAside EXCEPT ![o] = folder.doc]
      BY <1>1, <3>1 DEF Folder
    <3>3. /\ folder'.doc = None /\ folder'.temps = folder.temps
          /\ folder'.prev = folder.prev /\ folder'.prevAside = folder.prevAside
      BY <1>1, <3>1 DEF Folder
    <3> QED
      BY <1>1, <3>1, <3>2, <3>3
  <2>2. DocumentAt(o)'
    BY <1>2, <1>3, <1>4, <1>6, <2>1 DEF DocumentAt, ApplyPhases, At
  <2> QED
    BY <1>2, <1>3, <1>5, <2>2, AloneDocument
<1>10. CASE DocIn(o)
  <2>1. /\ At(o, "docIn") /\ req'[o].phase \in {"row", "move"} /\ folder'.doc = req[o].want
        /\ folder'.docAside = folder.docAside
        /\ folder'.prev = folder.prev /\ folder'.prevAside = folder.prevAside
    <3>1. /\ At(o, "docIn") /\ req'[o].phase \in {"row", "move"}
          /\ folder' = [folder EXCEPT !.doc = req[o].want, !.temps = folder.temps \ {o}]
      BY <1>10, DocInIs
    <3> QED
      BY <1>1, <3>1 DEF Folder
  <2>2. DocumentAt(o)'
    BY <1>2, <1>3, <1>4, <1>6, <2>1 DEF DocumentAt, ApplyPhases, At
  <2> QED
    BY <1>2, <1>3, <1>5, <2>2, AloneDocument
<1> QED
  BY <1>7, <1>8, <1>9, <1>10

(* One more fault, and what is undone need not be what was found.                     *)
LEMMA AloneUndo ==
  ASSUME Basic, NEW o \in Requests, Counted(o), SoFar(o), UndoDoc(o) \/ UndoAside(o)
  PROVE  AloneOwn(o)
<1>1. folder \in Trees /\ Types /\ folder \in Folder
      /\ folder.docAside \in [Requests -> Versions \cup {None}]
      /\ folder.prevAside \in [Requests -> Versions \cup {None}]
  BY DEF Basic, Types, Trees, Folder
<1>2. /\ FolderStep(o) /\ folder'.videos = folder.videos /\ req'[o].moved = req[o].moved
      /\ req'[o].seen = req[o].seen
      /\ req[o].phase \in {"undoDoc", "undoAside"}
      /\ req'[o].phase \in {"undoAside", "undoMoves"}
  <2>1. CASE UndoDoc(o)
    BY <1>1, <2>1, UndoDocIs DEF At, Trees, Folder
  <2>2. CASE UndoAside(o)
    BY <1>1, <2>2, UndoAsideIs, PutBackIs DEF At
  <2> QED
    BY <2>1, <2>2
<1>3. /\ Active(o) /\ Onward(o) /\ UNCHANGED <<kind, title, episodes>>
      /\ req[o].op \in {"edit", "upload"} /\ ~At(o, "settle")
  BY <1>2, FitsIs DEF FolderStep, catalogue, At, PhaseFits, Ops
<1>4. /\ req'[o].since = req[o].since /\ req[o].since \in Nat
      /\ troubles \in Nat /\ troubles' \in Nat /\ troubles <= troubles'
  BY StepCounts DEF Step, DocumentStep
<1>5. req[o].since < troubles
  BY <1>2 DEF Counted, Undoing
<1>6. CASE Spoiled(o) \/ troubles' # troubles
  <2>1. req'[o].since + 1 < troubles'
    BY <1>4, <1>5, <1>6 DEF Spoiled
  <2>2. Spoiled(o)'
    BY <1>2, <2>1 DEF Spoiled, Undoing
  <2>3. req'[o].op \in {"edit", "upload"}
    BY <1>3 DEF Onward
  <2> QED
    BY <1>2, <2>2, <2>3 DEF AloneOwn, Atomic, SoFar
<1>7. CASE ~Spoiled(o) /\ troubles' = troubles
  <2>1. DocumentAt(o) /\ EpisodesAt(o)
    BY <1>2, <1>3, <1>7 DEF SoFar, DocumentSoFar
  <2>2. EpisodesAt(o)'
    BY <1>2, <1>3, <2>1, EpisodesAtStays
  <2>3. req'[o].before = req[o].before /\ req'[o].want = req[o].want
    BY <1>3 DEF Onward
  <2>4. CASE UndoDoc(o)
    <3>1. /\ At(o, "undoDoc") /\ req'[o].phase = "undoAside"
          /\ folder' = [folder EXCEPT !.doc = None]
      BY <1>4, <1>7, <2>4, UndoDocIs
    <3>2. /\ folder'.doc = None /\ folder'.docAside = folder.docAside
          /\ folder'.prev = folder.prev /\ folder'.prevAside = folder.prevAside
      BY <1>1, <3>1 DEF Folder
    <3>3. DocumentAt(o)'
      BY <1>2, <1>3, <2>1, <2>3, <3>1, <3>2 DEF DocumentAt, ApplyPhases, At
    <3> QED
      BY <1>2, <1>3, <2>2, <3>3, AloneDocument
  <2>5. CASE UndoAside(o)
    <3>1. At(o, "undoAside") /\ req'[o].phase = "undoMoves" /\ folder' = PutBack(o, folder, Undos)
      BY <1>4, <1>7, <2>5, UndoAsideIs
    <3>2. /\ folder'.doc = OrAside(folder.docAside[o], folder.doc)
          /\ kind = "series" => folder'.prev = OrAside(folder.prevAside[o], folder.prev)
      BY <1>1, <3>1, PutBackIs DEF Undos
    <3>3. folder'.prevAside[o] = None
      BY <1>1, <3>1 DEF PutBack, Undos
    <3>4. folder'.doc = req[o].before.doc
      BY <2>1, <3>1, <3>2 DEF DocumentAt, OrAside, At
    <3>5. kind = "series" => folder'.prev = req[o].before.doc
      BY <2>1, <3>1, <3>2 DEF DocumentAt, OrAside, At
    <3>6. DocumentAt(o)'
      BY <1>2, <1>3, <2>1, <2>3, <3>1, <3>3, <3>4, <3>5 DEF DocumentAt, ApplyPhases
    <3> QED
      BY <1>2, <1>3, <2>2, <3>6, AloneDocument
  <2> QED
    BY <2>4, <2>5
<1> QED
  BY <1>6, <1>7

LEMMA AloneUndone ==
  ASSUME Basic, NEW o \in Requests, Counted(o), SoFar(o),
         ApplyFails(o) \/ PosterFails(o) \/ UndoMoves(o)
  PROVE  AloneOwn(o)
<1> DEFINE b == req[o].before
<1>1. folder \in Trees /\ Types /\ folder.videos \in [Numbers -> Videos \cup {None}]
  BY DEF Basic, Types, Trees, Folder
<1>2. /\ FolderStep(o) /\ req'[o].phase = "refused"
      /\ req[o].phase \in ApplyPhases \cup {"undoMoves"}
  BY ApplyFailsIs, PosterFailsIs, UndoMovesIs DEF At, ApplyPhases
<1>3. /\ Active(o) /\ Onward(o) /\ UNCHANGED <<kind, title, episodes>>
      /\ req[o].op \in {"edit", "upload"} /\ ~At(o, "settle") /\ Basic'
  BY <1>2, FitsIs, FolderStepBasic DEF FolderStep, catalogue, At, PhaseFits, Ops, ApplyPhases
<1>4. /\ req'[o].since = req[o].since /\ req[o].since \in Nat
      /\ troubles \in Nat /\ troubles' \in Nat /\ troubles <= troubles'
  BY StepCounts DEF Step, DocumentStep
<1>5. CASE req[o].since + 1 < troubles'
  <2>1. ~(troubles' <= req[o].since + 1)
    BY <1>4, <1>5
  <2> QED
    BY <1>2, <2>1 DEF AloneOwn, Atomic, Active, Answers
<1>6. CASE ~(req[o].since + 1 < troubles')
  <2>1. ~Spoiled(o)
    BY <1>4, <1>6 DEF Spoiled
  <2>2. DocumentAt(o) /\ EpisodesAt(o)
    BY <1>2, <1>3, <2>1 DEF SoFar, DocumentSoFar, ApplyPhases
  <2>3. ApplyFails(o) => folder' = PutBack(o, folder, Undos)
    <3> SUFFICES ASSUME ApplyFails(o) PROVE folder' = PutBack(o, folder, Undos)
      OBVIOUS
    <3>1. o \in folder.temps
      BY <2>2, ApplyFailsIs DEF DocumentAt
    <3>2. PICK undos \in SUBSET Undos :
             folder' = PutBack(o, folder, undos) /\ (undos # Undos => troubles' = troubles + 2)
      BY <3>1, ApplyFailsIs
    <3>3. req[o].since <= troubles
      BY DEF Counted
    <3> QED
      BY <1>4, <1>6, <3>2, <3>3
  <2>4. UndoMoves(o) => folder'.videos =
          [n \in Numbers |-> IF n \in req[o].moved THEN None ELSE folder.videos[n]]
    <3> SUFFICES ASSUME UndoMoves(o)
                 PROVE  folder'.videos =
                   [n \in Numbers |-> IF n \in req[o].moved THEN None ELSE folder.videos[n]]
      OBVIOUS
    <3>1. req[o].since < troubles
      BY UndoMovesIs DEF Counted, Undoing, At
    <3>2. PICK kept \in SUBSET req[o].moved :
            /\ folder'.videos = [n \in Numbers |->
                 IF n \in req[o].moved \ kept THEN None ELSE folder.videos[n]]
            /\ troubles' = IF kept = {} THEN troubles ELSE troubles + 1
      BY UndoMovesIs
    <3>3. kept = {}
      BY <1>4, <1>6, <3>1, <3>2
    <3> QED
      BY <3>2, <3>3
  <2>5. folder'.videos = [n \in Numbers |-> IF n \in req[o].moved THEN None ELSE folder.videos[n]]
    <3>1. req[o].phase \in ApplyPhases => req[o].moved = {}
      BY FitsIs DEF MovedFits
    <3>2. [n \in Numbers |-> IF n \in {} THEN None ELSE folder.videos[n]] = folder.videos
      BY <1>1
    <3>3. CASE ApplyFails(o)
      BY <1>1, <2>3, <3>1, <3>2, <3>3, ApplyFailsIs, PutBackIs
    <3>4. CASE PosterFails(o)
      BY <3>1, <3>2, <3>4, PosterFailsIs DEF At, ApplyPhases
    <3> QED
      BY <2>4, <3>3, <3>4
  <2>6. folder'.videos \in [Numbers -> Videos \cup {None}]
    BY <1>3 DEF Basic, Types, Trees, Folder
  <2>7. ASSUME kind # "reading"
        PROVE  Read(folder)' = b.doc
    <3>1. CASE ApplyFails(o)
      <4>1. req[o].phase \in ApplyPhases
        BY <3>1, ApplyFailsIs
      <4>2. /\ folder'.doc = OrAside(folder.docAside[o], folder.doc)
            /\ kind = "series" => folder'.prev = OrAside(folder.prevAside[o], folder.prev)
        BY <1>1, <2>3, <3>1, PutBackIs DEF Undos
      <4>3. folder'.doc = b.doc
        BY <2>2, <4>1, <4>2 DEF DocumentAt, OrAside, ApplyPhases
      <4>4. kind = "series" /\ b.doc = None => folder'.prev = None
        BY <2>2, <4>1, <4>2 DEF DocumentAt, OrAside, ApplyPhases
      <4> QED
        BY <1>3, <4>3, <4>4, ReadNext DEF ReadSeries
    <3>2. CASE PosterFails(o)
      <4>1. At(o, "docIn") /\ kind # "film" /\ folder'.doc = folder.doc /\ folder'.prev = folder.prev
        BY <3>2, PosterFailsIs
      <4>2. kind = "series"
        BY <1>1, <2>7, <4>1 DEF Types, Kinds
      <4>3. folder.doc = None /\ folder.prev = b.doc
        BY <2>2, <4>1, <4>2 DEF DocumentAt, At
      <4> QED
        BY <1>3, <4>1, <4>2, <4>3, ReadNext DEF ReadSeries
    <3>3. CASE UndoMoves(o)
      <4>1. At(o, "undoMoves") /\ folder'.doc = folder.doc /\ folder'.prev = folder.prev
        BY <3>3, UndoMovesIs
      <4>2. folder.doc = b.doc /\ (kind = "series" => folder.prev = b.doc)
        BY <2>2, <4>1 DEF DocumentAt, At
      <4> QED
        BY <1>3, <4>1, <4>2, ReadNext DEF ReadSeries
    <3> QED
      BY <3>1, <3>2, <3>3
  <2> QED
    BY <1>2, <1>3, <2>2, <2>5, <2>6, <2>7, DocumentRefused
<1> QED
  BY <1>5, <1>6

LEMMA AloneMove ==
  ASSUME Basic, NEW o \in Requests, SoFar(o), NEW m \in Numbers, Move(o, m)
  PROVE  AloneOwn(o)
<1>1. /\ At(o, "move") /\ FolderStep(o) /\ req[o].op = "upload"
      /\ m \in req[o].plan /\ req'[o].seen = req[o].seen
      /\ req'[o].moved = req[o].moved \cup {m}
      /\ req'[o].phase \in {"settle", "move"}
      /\ folder'.doc = folder.doc /\ folder'.prev = folder.prev
      /\ folder'.docAside = folder.docAside /\ folder'.prevAside = folder.prevAside
      /\ folder'.videos = [folder.videos EXCEPT ![m] = Video(o, m)]
  BY MoveIs
<1>2. /\ Onward(o) /\ UNCHANGED <<kind, title, episodes>>
      /\ folder.videos \in [Numbers -> Videos \cup {None}]
  BY <1>1 DEF FolderStep, catalogue, Basic, Types, Trees, Folder
<1>3. DocumentAt(o) /\ EpisodesAt(o)
  BY <1>1 DEF SoFar, Spoiled, Undoing, DocumentSoFar, At
<1>4. /\ req'[o].before = req[o].before /\ req'[o].want = req[o].want
      /\ req'[o].plan = req[o].plan /\ req'[o].op = req[o].op
  BY <1>2 DEF Onward
<1>5. DocumentAt(o)'
  BY <1>1, <1>2, <1>3, <1>4 DEF DocumentAt, ApplyPhases, At
<1>6. \A n \in Numbers : folder'.videos[n] = IF n = m THEN Video(o, m) ELSE folder.videos[n]
  BY <1>1, <1>2
<1>7. EpisodesAt(o)'
  BY <1>1, <1>2, <1>3, <1>4, <1>6 DEF EpisodesAt, Video, At
<1> QED
  BY <1>1, <1>2, <1>5, <1>7, AloneDocument

LEMMA AloneSettle ==
  ASSUME Basic, NEW o \in Requests, SoFar(o), Settle(o)
  PROVE  AloneOwn(o)
<1>1. /\ At(o, "settle") /\ FolderStep(o)
      /\ req'[o].phase = IF req[o].op = "upload" THEN "register"
                         ELSE IF title # None THEN "ok" ELSE "refused"
      /\ req[o].op \in {"edit", "upload"}
      /\ req'[o].seen = req[o].seen /\ req'[o].moved = req[o].moved
      /\ folder' = Settled(o, folder)
  BY SettleIs
<1>2. /\ Onward(o) /\ UNCHANGED <<kind, title, episodes>>
      /\ folder \in Trees
  BY <1>1 DEF FolderStep, catalogue, Basic, Types
<1>3. folder'.doc = folder.doc /\ folder'.videos = folder.videos
  BY <1>1, <1>2, SettledIs
<1>4. DocumentAt(o) /\ EpisodesAt(o)
  BY <1>1 DEF SoFar, Spoiled, Undoing, DocumentSoFar, At
<1>5. /\ req'[o].before = req[o].before /\ req'[o].want = req[o].want
      /\ req'[o].plan = req[o].plan /\ req'[o].op = req[o].op
  BY <1>2 DEF Onward
<1>6. folder.doc = req[o].want
  BY <1>1, <1>4 DEF DocumentAt, At
<1>7. CASE req[o].op = "upload"
  <2>1. DocumentAt(o)'
    BY <1>1, <1>2, <1>3, <1>4, <1>5, <1>6, <1>7 DEF DocumentAt, ApplyPhases
  <2>2. EpisodesAt(o)'
    BY <1>1, <1>2, <1>3, <1>4, <1>5, <1>7 DEF EpisodesAt, Video
  <2> QED
    BY <1>1, <1>2, <1>7, <2>1, <2>2, AloneDocument
<1>8. CASE req[o].op = "edit"
  <2>1. req[o].want # None
    BY <1>8, FitsIs, ConstantsAssumption DEF AskFits
  <2>2. title = req[o].want /\ title' = title
    BY <1>1, <1>2, <1>4, <1>8 DEF EpisodesAt, At
  <2>3. Read(folder)' = req[o].want
    BY <1>2, <1>3, <1>6, <2>1, ReadNext DEF ReadSeries
  <2>4. Asked(o)
    BY <1>8, <2>2, <2>3 DEF Asked
  <2> QED
    BY <1>1, <1>8, <2>1, <2>2, <2>4, AloneOk
<1> QED
  BY <1>1, <1>7, <1>8

(* The other steps of a request.                                                     *)
LEMMA AloneQuiet ==
  ASSUME Basic, NEW o \in Requests, SoFar(o),
         \/ StageFails(o) \/ RowFails(o) \/ RowTorn(o) \/ MoveFails(o) \/ InstallFails(o)
         \/ RenameFails(o) \/ RenameBackFails(o) \/ AwayFails(o) \/ DeleteRowsFail(o)
         \/ BackFails(o) \/ PurgeFails(o)
  PROVE  AloneOwn(o)
<1> DEFINE Ends == {"refused", "undoDoc", "torn", "back", "broken", "ok"}
<1>0. Ends \subseteq Phases /\ trash \in [Requests -> Trees]
  BY DEF Phases, Answers, Unsettled, Basic, Types
<1>1. PICK phase \in Ends : Quiet(o, phase)
  BY QuietStepIs
<1>2. /\ UNCHANGED <<kind, folder, trash, title, episodes>> /\ req'[o].phase = phase
      /\ Onward(o) /\ req'[o].seen = req[o].seen /\ req'[o].moved = req[o].moved
  BY <1>0, <1>1, GoIs DEF Quiet, disk, catalogue, Basic
<1>3. \A other \in Ends : Quiet(o, other) => other = phase
  BY <1>0, <1>2, GoIs DEF Quiet, Basic
<1>4. Active(o)
  BY QuietStepIs DEF FolderStep
<1>5. req[o].op # "none" /\ req'[o].before = req[o].before /\ req'[o].op = req[o].op
  BY <1>2, <1>4, FitsIs DEF PhaseFits, Active, Onward
<1>6. Read(folder)' = Read(folder)
  BY <1>2, ReadNext
<1>7. CASE StageFails(o) \/ InstallFails(o) \/ RenameFails(o) \/ AwayFails(o)
  <2>1. phase = "refused" /\ req[o].phase \in {"stage", "install", "rename", "away"}
    BY <1>3, <1>7, QuietSteps DEF At
  <2>2. Shown = req[o].before
    BY <2>1 DEF SoFar
  <2> QED
    BY <1>2, <1>4, <1>5, <1>6, <2>1, <2>2, ShownIs, AloneRefused
<1>8. CASE RowFails(o) \/ MoveFails(o)
  <2>1. phase = "undoDoc" /\ req[o].phase \in {"row", "move"}
    BY <1>3, <1>8, QuietSteps DEF At
  <2>2. req[o].op \in {"edit", "upload"}
    BY <2>1, FitsIs DEF PhaseFits, Ops
  <2>3. DocumentAt(o) /\ EpisodesAt(o)
    BY <2>1, <2>2 DEF SoFar, Spoiled, Undoing, DocumentSoFar
  <2>4. DocumentAt(o)'
    BY <1>2, <1>5, <2>1, <2>3 DEF DocumentAt, ApplyPhases
  <2>5. EpisodesAt(o)'
    BY <1>2, <2>1, <2>3, EpisodesAtStays DEF At
  <2> QED
    BY <1>2, <2>1, <2>2, <2>4, <2>5, AloneDocument
<1>9. CASE DeleteRowsFail(o)
  <2>1. phase = (IF trash[o].here THEN "back" ELSE "refused") /\ At(o, "rows")
    BY <1>3, <1>9, QuietSteps
  <2>2. req[o].op = "delete"
    BY <2>1, FitsIs DEF PhaseFits, At, Ops, DocumentPhases, ApplyPhases
  <2>3. DeleteSoFar(o)
    BY <2>2 DEF SoFar
  <2>4. CASE trash[o].here
    <3>1. Read(trash[o])' = Read(trash[o])
      BY <1>2 DEF Read, ReadContent, ReadSeries, ReadReading
    <3>2. DeleteSoFar(o)'
      BY <1>2, <1>5, <2>1, <2>3, <2>4, <3>1 DEF DeleteSoFar, At
    <3> QED
      BY <1>2, <1>5, <2>1, <2>2, <2>4, <3>2 DEF AloneOwn, Atomic, SoFar
  <2>5. CASE ~trash[o].here
    <3>1. trash[o] = NoFolder /\ folder = trash[o]
      BY <1>0, <2>1, <2>3, <2>5 DEF Trees, DeleteSoFar, At
    <3>2. /\ Read(folder) = req[o].before.doc /\ folder.videos = req[o].before.videos
          /\ title = req[o].before.title /\ episodes = req[o].before.episodes
      BY <2>1, <2>3, <3>1 DEF DeleteSoFar, At
    <3> QED
      BY <1>2, <1>4, <1>6, <2>1, <2>5, <3>2, AloneRefused
  <2> QED
    BY <2>4, <2>5
<1>10. CASE PurgeFails(o)
  <2>1. phase = "ok" /\ At(o, "purge")
    BY <1>3, <1>10, QuietSteps
  <2>2. req[o].op = "delete"
    BY <2>1, FitsIs DEF PhaseFits, At, Ops, DocumentPhases, ApplyPhases
  <2>3. title' = None /\ ~folder'.here
    BY <1>2, <2>1, <2>2 DEF SoFar, DeleteSoFar, At
  <2> QED
    BY <1>2, <2>1, <2>2, <2>3, AloneOk DEF Asked
<1>11. CASE RowTorn(o)
  <2>1. phase = "torn" /\ At(o, "row") /\ kind # "reading"
    BY <1>3, <1>11, QuietSteps DEF RowTorn
  <2>2. req[o].op = "edit"
    BY <2>1, FitsIs DEF PhaseFits, At, Ops, DocumentPhases, ApplyPhases
  <2>3. DocumentAt(o) /\ EpisodesAt(o)
    BY <2>1, <2>2 DEF SoFar, Spoiled, Undoing, DocumentSoFar, At
  <2>4. folder.doc = req[o].want /\ req[o].want # None
    BY <2>1, <2>2, <2>3, FitsIs, ConstantsAssumption DEF DocumentAt, AskFits, At
  <2>5. Read(folder)' = req[o].want
    BY <1>2, <2>4, ReadNext DEF ReadSeries
  <2>6. req[o].before \in View /\ req[o].moved = {}
    BY <1>5, <2>2, FitsIs DEF AskFits, MovedFits
  <2>7. title' = req[o].before.title /\ episodes' = req[o].before.episodes
    BY <1>2, <2>1, <2>3 DEF EpisodesAt, At
  <2>8. folder'.videos = req[o].before.videos
    <3>1. \A n \in Numbers : folder.videos[n] = req[o].before.videos[n]
      BY <2>3, <2>6 DEF EpisodesAt
    <3> QED
      BY <1>2, <2>6, <3>1 DEF View, Basic, Types, Trees, Folder
  <2>9. Shown' = [req[o].before EXCEPT !.doc = req[o].want]
    <3>1. Shown' = [doc |-> req[o].want, videos |-> req[o].before.videos,
                    title |-> req[o].before.title, episodes |-> req[o].before.episodes]
      BY <2>5, <2>7, <2>8 DEF Shown
    <3> QED
      BY <2>6, <3>1 DEF View
  <2>10. ~Active(o)'
    BY <1>2, <2>1 DEF Active, Answers
  <2> QED
    BY <1>2, <2>1, <2>9, <2>10 DEF AloneOwn, Atomic
<1>12. CASE RenameBackFails(o) \/ BackFails(o)
  <2>1. phase = "broken"
    BY <1>3, <1>12, QuietSteps
  <2> QED
    BY <1>2, <2>1 DEF AloneOwn, Atomic, Active, Answers, Unsettled
<1> QED
  BY <1>7, <1>8, <1>9, <1>10, <1>11, <1>12

LEMMA AloneRow ==
  ASSUME Basic, NEW o \in Requests, SoFar(o), UpdateMovie(o) \/ UpdateSeries(o) \/ UpdateReading(o)
  PROVE  AloneOwn(o)
<1>1. /\ At(o, "row") /\ Onward(o) /\ req[o].op = "edit" /\ req'[o].phase = "settle"
      /\ req'[o].seen = req[o].seen /\ req'[o].moved = req[o].moved
      /\ title' = IF title = None THEN None ELSE req[o].want
      /\ UNCHANGED <<kind, folder, episodes>>
  BY RowUpdatedIs
<1>2. DocumentAt(o) /\ EpisodesAt(o)
  BY <1>1 DEF SoFar, Spoiled, Undoing, DocumentSoFar, At
<1>3. /\ req'[o].before = req[o].before /\ req'[o].want = req[o].want
      /\ req'[o].plan = req[o].plan /\ req'[o].op = req[o].op
  BY <1>1 DEF Onward
<1>4. DocumentAt(o)'
  BY <1>1, <1>2, <1>3 DEF DocumentAt, ApplyPhases, At
<1>5. EpisodesAt(o)'
  BY <1>1, <1>2, <1>3 DEF EpisodesAt, Video, At
<1> QED
  BY <1>1, <1>4, <1>5, AloneDocument

LEMMA AloneRegister ==
  ASSUME Basic, NEW o \in Requests, SoFar(o), Install(o) \/ RegisterFails(o) \/ Register(o)
  PROVE  AloneOwn(o)
<1>1. CASE Install(o)
  <2>1. /\ req'[o].phase = "register" /\ req[o].op = "create" /\ folder'.doc = req[o].want
        /\ folder'.videos = [n \in Numbers |-> IF n \in req[o].plan THEN Video(o, n) ELSE None]
        /\ Onward(o) /\ req[o].plan \subseteq Numbers
    BY <1>1, InstallIs DEF FolderStep, Basic, Types, Request
  <2>2. req'[o].op = "create" /\ req'[o].want = req[o].want /\ req'[o].plan = req[o].plan
    BY <2>1 DEF Onward
  <2>3. \A n \in req[o].plan : folder'.videos[n] = Video(o, n)
    BY <2>1
  <2>4. SoFar(o)'
    BY <2>1, <2>2, <2>3 DEF SoFar, Video
  <2> QED
    BY <2>1, <2>4 DEF AloneOwn, Atomic
<1>2. CASE RegisterFails(o)
  <2>1. \/ req'[o].phase = "preserved"
        \/ req'[o].phase = "refused" /\ kind = "reading"
    BY <1>2, RegisterFailsIs
  <2>2. ~Active(o)'
    BY <2>1 DEF Active, Answers, Unsettled
  <2> QED
    BY <2>1, <2>2 DEF AloneOwn, Atomic
<1>3. CASE Register(o)
  <2>1. /\ At(o, "register") /\ req'[o].phase = "ok" /\ Basic'
        /\ req[o].op \in {"upload", "create"} /\ req[o].want \in Versions
        /\ folder' = Recovered(folder) /\ title' = req[o].want /\ UNCHANGED kind
        /\ episodes' = [n \in Numbers |-> IF n \in req[o].plan
                   THEN [video |-> Video(o, n), on |-> TRUE] ELSE episodes[n]]
    BY <1>3, RegisterIs
  <2>2. /\ folder \in Trees /\ Types /\ req[o].want # None /\ req[o].plan \subseteq Numbers
    BY <2>1, ConstantsAssumption DEF Basic, Types, Versions, Request
  <2>3. folder.doc = req[o].want /\ \A n \in req[o].plan : folder.videos[n] = Video(o, n)
    <3>1. CASE req[o].op = "upload"
      <4>1. DocumentAt(o) /\ EpisodesAt(o)
        BY <2>1, <3>1 DEF SoFar, Spoiled, Undoing, DocumentSoFar, At
      <4>2. req[o].moved = req[o].plan
        BY <2>1, <3>1, FitsIs DEF MovedFits, At
      <4> QED
        BY <2>1, <2>2, <4>1, <4>2 DEF DocumentAt, EpisodesAt, At
    <3>2. CASE req[o].op = "create"
      BY <2>1, <3>2 DEF SoFar, At
    <3> QED
      BY <2>1, <3>1, <3>2
  <2>4. Read(folder) = req[o].want
    BY <2>1, <2>2, <2>3, ReadNext DEF ReadSeries
  <2>5. folder'.doc = req[o].want /\ folder'.videos = folder.videos
    BY <2>1, <2>2, <2>4, RecoveredIs
  <2>6. Read(folder)' = req[o].want
    BY <2>1, <2>2, <2>5, ReadNext DEF ReadSeries
  <2>7. \A n \in req[o].plan : /\ folder'.videos[n] = Video(o, n)
                               /\ episodes'[n] = [video |-> Video(o, n), on |-> TRUE]
    BY <2>1, <2>2, <2>3, <2>5
  <2>8. Asked(o)
    BY <2>1, <2>6, <2>7 DEF Asked
  <2> QED
    BY <2>1, <2>8, AloneOk
<1> QED
  BY <1>1, <1>2, <1>3

LEMMA AloneRenumber ==
  ASSUME Basic, NEW o \in Requests, SoFar(o),
         Rename(o) \/ Renumber(o) \/ RenumberFails(o) \/ RenameBack(o)
  PROVE  AloneOwn(o)
<1> DEFINE b == req[o].before
           from == req[o].from
<1>1. /\ req[o].phase \in {"rename", "renamed", "renameBack"}
      /\ Onward(o) /\ UNCHANGED kind
  BY RenameIs, RenumberIs, RenumberFailsIs, RenameBackIs DEF At, FolderStep
<1>2. /\ Active(o) /\ req[o].op = "renumber" /\ kind = "series"
      /\ from \in Numbers /\ To(o) \in Numbers /\ To(o) # from
  BY <1>1, RenumbersIs
<1>3. /\ RenumberSoFar(o) /\ b \in View /\ b.videos \in [Numbers -> Videos \cup {None}]
      /\ folder \in Trees /\ folder.videos \in [Numbers -> Videos \cup {None}]
  BY <1>2, FitsIs DEF SoFar, AskFits, View, Basic, Types, Trees, Folder
<1>4. /\ req'[o].before = b /\ req'[o].from = from /\ To(o)' = To(o)
      /\ req'[o].op = "renumber" /\ req'[o].video = req[o].video
  BY <1>1, <1>2, OnwardKeeps DEF Onward
<1>5. CASE Rename(o)
  <2>1. /\ At(o, "rename") /\ UNCHANGED <<title, episodes>>
        /\ \/ /\ folder.videos[from] = None /\ req'[o].phase = "refused"
              /\ folder' = Made(folder)
           \/ /\ folder.videos[from] # None /\ req'[o].phase = "renamed" /\ folder.here
              /\ folder' = Moved(folder, from, To(o))
    BY <1>5, RenameIs DEF FolderStep, catalogue
  <2>2. /\ Read(folder) = b.doc /\ folder.videos = b.videos /\ title = b.title
        /\ episodes = b.episodes
    BY <1>2, <2>1, ShownIs DEF SoFar, At
  <2>3. CASE req'[o].phase = "refused"
    <3>1. folder'.doc = folder.doc /\ folder'.prev = folder.prev /\ folder'.videos = folder.videos
      BY <1>3, <2>1, <2>3, MadeIs
    <3>2. Read(folder)' = Read(folder)
      BY <1>1, <3>1, ReadNext
    <3> QED
      BY <1>2, <2>1, <2>2, <2>3, <3>1, <3>2, AloneRefused
  <2>4. CASE req'[o].phase = "renamed"
    <3>1. /\ folder'.doc = folder.doc /\ folder'.prev = folder.prev /\ folder'.here
          /\ folder'.videos = [folder.videos EXCEPT ![To(o)] = folder.videos[from], ![from] = None]
      BY <1>2, <1>3, <2>1, <2>4, MovedIs
    <3>2. Read(folder)' = Read(folder)
      BY <1>1, <3>1, ReadNext
    <3>3. RenumberSoFar(o)'
      BY <1>3, <1>4, <2>1, <2>2, <2>4, <3>1, <3>2 DEF RenumberSoFar
    <3> QED
      BY <1>4, <2>4, <3>3 DEF AloneOwn, Atomic, SoFar
  <2> QED
    BY <2>1, <2>3, <2>4
<1>6. CASE RenumberFails(o)
  <2>1. /\ At(o, "renamed") /\ req'[o].phase = "renameBack" /\ folder' = Made(folder)
        /\ UNCHANGED <<title, episodes>>
    BY <1>6, RenumberFailsIs DEF FolderStep, catalogue
  <2>2. /\ folder'.doc = folder.doc /\ folder'.prev = folder.prev /\ folder'.videos = folder.videos
        /\ folder'.here
    BY <1>3, <2>1, MadeIs
  <2>3. Read(folder)' = Read(folder)
    BY <1>1, <2>2, ReadNext
  <2>4. RenumberSoFar(o)'
    BY <1>3, <1>4, <2>1, <2>2, <2>3 DEF RenumberSoFar, At
  <2> QED
    BY <1>4, <2>1, <2>4 DEF AloneOwn, Atomic, SoFar
<1>7. CASE Renumber(o)
  <2>1. /\ At(o, "renamed") /\ req'[o].phase = IF RowOf(o) # {} THEN "ok" ELSE "refused"
        /\ folder' = folder
        /\ \A k \in RowOf(o) :
             /\ RowOf(o) = {k}
             /\ episodes' = [episodes EXCEPT ![k] = None, ![To(o)] = episodes[k]]
    BY <1>7, RenumberIs
  <2>2. /\ b.episodes[from] # None /\ b.episodes[from].video = req[o].video
        /\ episodes = b.episodes
        /\ folder.videos = [b.videos EXCEPT ![To(o)] = b.videos[from], ![from] = None]
    BY <1>3, <2>1 DEF RenumberSoFar, At
  <2>3. from \in RowOf(o)
    BY <1>2, <2>2 DEF RowOf
  <2>4. episodes'[To(o)] = b.episodes[from]
    BY <1>2, <2>1, <2>2, <2>3 DEF Basic, Types
  <2>5. folder'.videos[To(o)] = b.videos[from]
    BY <1>2, <1>3, <2>1, <2>2
  <2>6. Asked(o)
    BY <1>2, <2>4, <2>5 DEF Asked
  <2> QED
    BY <2>1, <2>3, <2>6, AloneOk
<1>8. CASE RenameBack(o)
  <2>1. /\ At(o, "renameBack") /\ req'[o].phase = "refused" /\ UNCHANGED <<title, episodes>>
        /\ \/ folder.videos[To(o)] = None /\ folder' = folder
           \/ /\ folder.videos[To(o)] # None /\ folder.here
              /\ folder' = Moved(folder, To(o), from)
    BY <1>8, RenameBackIs DEF FolderStep, catalogue
  <2>2. /\ b.videos[To(o)] = None /\ b.videos[from] # None /\ Read(folder) = b.doc
        /\ title = b.title /\ episodes = b.episodes
        /\ folder.videos = [b.videos EXCEPT ![To(o)] = b.videos[from], ![from] = None]
    BY <1>3, <2>1 DEF RenumberSoFar, At
  <2>3. folder.videos[To(o)] = b.videos[from]
    BY <1>2, <1>3, <2>2
  <2>4. /\ folder'.doc = folder.doc /\ folder'.prev = folder.prev
        /\ folder'.videos = [folder.videos EXCEPT ![from] = folder.videos[To(o)], ![To(o)] = None]
    <3>1. folder \in Trees /\ folder.here /\ folder' = Moved(folder, To(o), from)
      BY <1>2, <1>3, <2>1, <2>2, <2>3
    <3> QED
      BY <1>2, <1>3, <3>1, MovedIs
  <2>5. Read(folder)' = b.doc
    BY <1>1, <2>2, <2>4, ReadNext
  <2>6. folder'.videos = b.videos
    <3>1. \A n \in Numbers : folder'.videos[n] = b.videos[n]
      BY <1>2, <1>3, <2>2, <2>3, <2>4, ZenonT(60)
    <3> QED
      BY <1>3, <2>4, <3>1
  <2> QED
    BY <1>2, <2>1, <2>2, <2>5, <2>6, AloneRefused
<1> QED
  BY <1>5, <1>6, <1>7, <1>8

LEMMA AloneDelete ==
  ASSUME Basic, NEW o \in Requests, SoFar(o), Away(o) \/ DeleteRows(o) \/ Back(o) \/ Purge(o)
  PROVE  AloneOwn(o)
<1> DEFINE b == req[o].before
<1>1. /\ req[o].op = "delete" /\ Onward(o) /\ UNCHANGED kind /\ req'[o].op = "delete"
      /\ req'[o].before = b /\ Active(o)
  BY AwayIs, DeleteRowsIs, BackIs, PurgeIs DEF Onward, Active, Answers, Unsettled, At
<1>2. DeleteSoFar(o) /\ trash \in [Requests -> Trees]
  BY <1>1 DEF SoFar, Basic, Types
<1>3. CASE Away(o)
  <2>1. /\ At(o, "away") /\ req'[o].phase = "rows" /\ trash'[o] = folder /\ folder' = NoFolder
        /\ UNCHANGED <<title, episodes>>
    BY <1>2, <1>3, AwayIs
  <2>2. /\ Read(folder) = b.doc /\ folder.videos = b.videos /\ title = b.title
        /\ episodes = b.episodes
    BY <1>1, <2>1, ShownIs DEF SoFar, At
  <2>3. Read(trash[o])' = Read(folder)
    BY <1>1, <2>1 DEF Read, ReadContent, ReadSeries, ReadReading
  <2>4. NoFolder' = NoFolder
    BY DEF NoFolder, NoneAside
  <2>5. DeleteSoFar(o)'
    BY <1>1, <2>1, <2>2, <2>3, <2>4 DEF DeleteSoFar
  <2> QED
    BY <1>1, <2>1, <2>5 DEF AloneOwn, Atomic, SoFar
<1>4. CASE DeleteRows(o)
  <2>1. /\ At(o, "rows") /\ req'[o].phase \in {"purge", "ok"} /\ title' = None /\ folder' = folder
    BY <1>4, DeleteRowsIs
  <2>2. ~folder'.here
    BY <1>2, <2>1 DEF DeleteSoFar, At, NoFolder
  <2>3. CASE req'[o].phase = "ok"
    BY <1>1, <2>1, <2>2, <2>3, AloneOk DEF Asked
  <2>4. CASE req'[o].phase = "purge"
    BY <1>1, <2>1, <2>2, <2>4 DEF AloneOwn, Atomic, SoFar, DeleteSoFar
  <2> QED
    BY <2>1, <2>3, <2>4
<1>5. CASE Back(o)
  <2>1. /\ At(o, "back") /\ UNCHANGED <<title, episodes>>
        /\ req'[o].phase = "refused" /\ folder' = trash[o]
    BY <1>5, BackIs
  <2>2. /\ Read(trash[o]) = b.doc /\ trash[o].videos = b.videos
        /\ title = b.title /\ episodes = b.episodes
    BY <1>2, <2>1 DEF DeleteSoFar, At
  <2>3. Read(folder)' = Read(trash[o])
    BY <1>1, <2>1 DEF Read, ReadContent, ReadSeries, ReadReading
  <2> QED
    BY <1>1, <2>1, <2>2, <2>3, AloneRefused
<1>6. CASE Purge(o)
  <2>1. At(o, "purge") /\ req'[o].phase = "ok" /\ UNCHANGED <<folder, title>>
    BY <1>6, PurgeIs
  <2>2. title' = None /\ ~folder'.here
    BY <1>2, <2>1 DEF DeleteSoFar, At
  <2> QED
    BY <1>1, <2>1, <2>2, AloneOk DEF Asked
<1> QED
  BY <1>3, <1>4, <1>5, <1>6

LEMMA StepAlone ==
  ASSUME Basic, NEW o \in Requests, Counted(o), SoFar(o), Step(o)
  PROVE  AloneOwn(o)
BY AloneStage, AloneApply, AloneUndo, AloneUndone, AloneMove, AloneSettle, AloneQuiet, AloneRow,
   AloneRegister, AloneRenumber, AloneDelete
DEF Step, DocumentStep, UploadStep, RenumberStep, DeleteStep

LEMMA AskAlone ==
  ASSUME Basic, NEW p \in Requests, Ask(p)
  PROVE  Alone' /\ \A o \in Requests : Active(o) => req'[o] = req[o]
<1>1. Begun(p) /\ Passed(p) /\ Fits(p)'
  BY AskIs
<1>2. /\ \A o \in Requests \ {p} : req'[o] = req[o]
      /\ UNCHANGED <<kind, folder, trash, title, episodes>> /\ req[p].phase = "idle"
      /\ req'[p].phase \in {"stage", "install", "rename", "away", "refused"}
      /\ overlapped' = IF Others = {} THEN overlapped ELSE overlapped \cup Others \cup {p}
      /\ req'[p].before = Shown /\ req'[p].moved = {}
  BY <1>1 DEF Begun, Passed, At
<1>3. ~Active(p)
  BY <1>2 DEF Active
<1>4. ASSUME NEW o \in Requests, Active(o)', o \notin overlapped'
      PROVE  Counted(o)' /\ SoFar(o)'
  <2>1. o = p
    <3> SUFFICES ASSUME o # p PROVE FALSE
      OBVIOUS
    <3>1. o \in Others
      BY <1>2, <1>4 DEF Others, Active
    <3> QED
      BY <1>2, <1>4, <3>1
  <2>2. req'[p].phase \in {"stage", "install", "rename", "away"}
    BY <1>2, <1>4, <2>1 DEF Active, Answers, Unsettled
  <2>3. Shown' = req'[p].before
    BY <1>2 DEF Shown, Read, ReadContent, ReadSeries, ReadReading
  <2>4. ASSUME req'[p].phase = "stage"
        PROVE  title' # None /\ \A n \in req'[p].plan : folder'.videos[n] = None
    <3>1. req'[p].op \in {"edit", "upload"}
      BY <1>1, <2>4 DEF Fits, PhaseFits, Passed, Request, Ops, Begun
    <3> QED
      BY <1>1, <1>2, <2>4, <3>1 DEF Passed, NoConflict, Fits, AskFits
  <2>5. ASSUME req'[p].op \in {"edit", "upload"}
        PROVE  req'[p].phase = "stage"
    BY <1>1, <2>2, <2>5 DEF Fits, PhaseFits, DocumentPhases, ApplyPhases
  <2>6. ASSUME req'[p].op = "renumber"
        PROVE  RenumberSoFar(p)'
    <3>1. /\ Shown.episodes = episodes /\ Shown.videos = folder.videos
          /\ req'[p].phase = "rename"
      BY <1>1, <2>2, <2>6 DEF Shown, Fits, PhaseFits
    <3>2. /\ episodes[req'[p].from] # None /\ req'[p].video = episodes[req'[p].from].video
          /\ folder.videos[To(p)'] = None
      BY <1>1, <2>6, <3>1 DEF Passed, NoConflict
    <3> QED
      BY <1>2, <3>1, <3>2 DEF RenumberSoFar
  <2>7. ASSUME req'[p].op = "delete"
        PROVE  DeleteSoFar(p)'
    BY <2>2, <2>7 DEF DeleteSoFar
  <2>8. req'[p].phase # "register"
    BY <2>2
  <2>9. Counted(p)'
    <3>1. req'[p].since = troubles /\ troubles' = troubles /\ troubles \in Nat
      BY <1>1, ConstantsAssumption DEF Begun, Basic, Types
    <3> QED
      BY <2>2, <3>1 DEF Counted, Undoing
  <2> QED
    BY <2>1, <2>3, <2>4, <2>5, <2>6, <2>7, <2>8, <2>9 DEF SoFar
<1> QED
  BY <1>2, <1>3, <1>4 DEF Alone

LEMMA AloneNext ==
  ASSUME Basic, Alone, Next
  PROVE  /\ Alone'
         /\ \A o \in Requests : Active(o) /\ o \notin overlapped => Atomic(o)
<1>1. ASSUME NEW p \in Requests, Ask(p)
      PROVE  /\ Alone'
             /\ \A o \in Requests : Active(o) /\ o \notin overlapped => Atomic(o)
  BY <1>1, AskAlone DEF Atomic, Active, Answers, Unsettled
<1>2. ASSUME NEW p \in Requests, Step(p)
      PROVE  /\ Alone'
             /\ \A o \in Requests : Active(o) /\ o \notin overlapped => Atomic(o)
  <2>1. /\ Active(p) /\ Onward(p) /\ overlapped' = overlapped
    BY <1>2, StepIs DEF history
  <2>2. \A o \in Requests : Active(o) /\ o \notin overlapped => o = p
    BY <2>1 DEF Basic, Lonely
  <2>3. \A o \in Requests : Active(o)' => Active(o)
    BY <2>1, OnwardKeeps
  <2>4. p \notin overlapped => AloneOwn(p) /\ Counted(p)'
    BY <1>2, <2>1, StepAlone, AloneCounts DEF Alone
  <2> QED
    BY <2>1, <2>2, <2>3, <2>4 DEF Alone, AloneOwn
<1>3. CASE Stop
  <2>1. \A o \in Requests : /\ ~Active(o)'
                            /\ Active(o) => req'[o].phase \in {"caught", "stopped"}
    BY <1>3, StopIs
  <2> QED
    BY <2>1 DEF Alone, Atomic
<1> QED
  BY <1>1, <1>2, <1>3 DEF Next

(* A request no other overlaps does all it was asked and says so, or is refused and  *)
(* leaves the folder and the rows showing what they did before, unless a second      *)
(* fault meets the undoing of the first; after an edit whose ROLLBACK throws they    *)
(* show the new document and nothing else that is new.                               *)
THEOREM AloneAtomic == Spec => AloneIsAtomic
<1>1. ASSUME Init PROVE Alone
  BY <1>1 DEF Init, Idle, Alone, Active
<1>2. ASSUME Basic, Alone, UNCHANGED vars
      PROVE  Alone'
  <2>1. UNCHANGED <<kind, folder, trash, title, episodes, req, troubles, overlapped>>
    BY <1>2 DEF vars, disk, catalogue, history
  <2> SUFFICES ASSUME NEW o \in Requests, Active(o)', o \notin overlapped'
               PROVE  Counted(o)' /\ SoFar(o)'
    BY DEF Alone
  <2>2. Counted(o) /\ SoFar(o)
    BY <1>2, <2>1 DEF Alone, Active
  <2>3. /\ Shown' = Shown /\ To(o)' = To(o) /\ Read(folder)' = Read(folder)
        /\ Read(trash[o])' = Read(trash[o])
    BY <2>1 DEF Shown, To, Read, ReadContent, ReadSeries, ReadReading
  <2>4. DocumentSoFar(o) => DocumentSoFar(o)'
    BY <2>1 DEF DocumentSoFar, DocumentAt, EpisodesAt, Video
  <2>5. RenumberSoFar(o) => RenumberSoFar(o)'
    BY <2>1, <2>3 DEF RenumberSoFar
  <2>6. DeleteSoFar(o) => DeleteSoFar(o)'
    BY <2>1, <2>3 DEF DeleteSoFar, NoFolder, NoneAside
  <2> QED
    BY <2>1, <2>2, <2>3, <2>4, <2>5, <2>6 DEF SoFar, Counted, Spoiled, Undoing, Video
<1>3. Basic /\ Alone /\ [Next]_vars => Basic' /\ Alone'
  BY <1>2, NextBasic, AloneNext
<1>4. Basic /\ Alone /\ [Next]_vars =>
        [\A o \in Requests : Active(o) /\ o \notin overlapped =>
           /\ req'[o].phase = "ok" => Asked(o)
           /\ req'[o].phase = "refused" /\ kind # "reading" /\ troubles' <= req[o].since + 1 =>
                Shown' = req[o].before
           /\ req'[o].phase = "torn" => Shown' = [req[o].before EXCEPT !.doc = req[o].want]]_vars
  BY AloneNext DEF Atomic
<1> QED
  BY <1>1, <1>3, <1>4, InitBasic, PTL DEF Spec, AloneIsAtomic
===============================================================================
