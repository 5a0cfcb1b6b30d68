---------------------------- MODULE MusicLibrary ----------------------------
(***************************************************************************)
(* The music in the library and its rows, changed by edits of a track      *)
(* (music-metadata-edit-service.js) and of an album                        *)
(* (music-album-metadata-edit-service.js), by the scan                     *)
(* (music-library-scan-service.js) and the deletion of an album            *)
(* (content-delete-service.js), one at a time in the queue of              *)
(* music-metadata-edit-lock.js; and by the availability check              *)
(* (library-reconciliation-service.js), which takes no lock.               *)
(*                                                                         *)
(* The tags of a file determine the directory and the name it should have  *)
(* (buildMusicStoragePlan), so a file is its audio and that place.  Every  *)
(* action is the code between two awaits.                                  *)
(***************************************************************************)
EXTENDS Naturals, Sequences, FiniteSets, Functions

CONSTANTS
  Dirs,        \* directories of albums
  Names,       \* names of files in them
  Audios,      \* recordings
  Rows,        \* rows of music_tracks
  Albums,      \* rows of music_albums
  Requests,    \* requests waiting or at work
  None,        \* no file, no row, no album
  MaxAsked,    \* bound on requests
  MaxTroubles  \* bound on faults, stops, changes by hand and checks, together

ASSUME ConstantsAssumption ==
  /\ IsFiniteSet(Rows)
  /\ None \notin (Dirs \X Names) \cup Dirs \cup Rows \cup Albums
  /\ MaxAsked \in Nat /\ MaxTroubles \in Nat

VARIABLES
  at,        \* at[p]: the file at place p
  left,      \* recordings under the name of a backup nothing refers to
  rows,      \* rows[r]: a row of music_tracks
  albums,    \* albums[a]: the directory of a row of music_albums
  requests,  \* requests[c]: what request c asks for
  queue,     \* editQueue: the requests that hold or await the lock
  job,       \* the state of the operation that holds the lock
  check,     \* the availability check, looking at one row
  asked,     \* how many requests there have been
  troubles,  \* how many faults, stops, changes by hand and checks
  gone       \* history: recordings not in the library, deleted by a user or
             \* admitted to be lost (contentPreserved: false)

disk == <<at, left>>
catalogue == <<rows, albums>>
vars == <<disk, catalogue, requests, queue, job, check, asked, troubles, gone>>

Places == Dirs \X Names
File == [audio : Audios, home : Places]

\* tags is the file the columns of metadata were read from, stat the one of
\* size_bytes and modified_at.
Row == [place : Places, album : Albums, shown : BOOLEAN, tags : File, stat : File]

ASSUME NoneAssumption == None \notin File /\ None \notin Row

Idle == [op |-> "none", target |-> None, dest |-> None]

\* An entry is a file an edit has a staged copy of; old is the file found.
Entry == [from : Places, to : Places, old : File]

EditPhases == {"staged", "aside", "install", "rows", "clean", "remove", "restore"}
ScanPhases == {"scan", "missing"}
DeletePhases == {"folder", "unlist", "unfolder", "purge"}
Answers == {"ok", "refused", "broken"}
Phases == {"free"} \cup EditPhases \cup ScanPhases \cup DeletePhases \cup Answers

NoEntries == [r \in {} |-> None]
Free == [phase |-> "free", entries |-> NoEntries, moved |-> {}, installed |-> {},
         todo |-> {}, seen |-> {}, trash |-> {}, before |-> <<>>, clean |-> TRUE]

Unchecked == [row |-> None, place |-> None, file |-> None, phase |-> "idle"]

TypeOK ==
  /\ at \in [Places -> File \cup {None}]
  /\ left \subseteq Audios
  /\ rows \in [Rows -> Row \cup {None}]
  /\ albums \in [Albums -> Dirs \cup {None}]
  /\ \A r \in Rows : rows[r] # None => albums[rows[r].album] # None
  /\ \A r, s \in Rows : rows[r] # None /\ rows[s] # None /\ r # s =>
       rows[r].place # rows[s].place
  /\ requests \in [Requests ->
       [op : {"none", "track", "album", "scan", "delete"},
        target : Rows \cup Albums \cup {None}, dest : Places \cup Dirs \cup {None}]]
  /\ queue \in Seq(Requests)
  /\ job.phase \in Phases
  /\ job.moved \subseteq DOMAIN job.entries /\ job.installed \subseteq DOMAIN job.entries
  /\ \A r \in DOMAIN job.entries : r \in Rows /\ job.entries[r] \in Entry
  /\ check.phase \in {"idle", "listed", "seen"}
  /\ asked \in 0..MaxAsked /\ troubles \in 0..MaxTroubles
  /\ gone \subseteq Audios

\* A library in order: every file where its tags say, shown in its album's row.
Init ==
  /\ at \in [Places -> File \cup {None}]
  /\ \A p \in Places : at[p] # None => at[p].home = p
  /\ \A p, q \in Places : at[p] # None /\ at[q] # None /\ p # q => at[p].audio # at[q].audio
  /\ LET files == {p \in Places : at[p] # None}
         dirs == {p[1] : p \in files}
         rowOf == CHOOSE f \in Injection(files, Rows) : TRUE
         albumOf == CHOOSE f \in Injection(dirs, Albums) : TRUE
         rowAt(p) == [place |-> p, album |-> albumOf[p[1]], shown |-> TRUE,
                      tags |-> at[p], stat |-> at[p]]
     IN  /\ ExistsInjection(files, Rows) /\ ExistsInjection(dirs, Albums)
         /\ rows = [r \in Rows |->
              IF \E p \in files : rowOf[p] = r
                THEN rowAt(CHOOSE p \in files : rowOf[p] = r) ELSE None]
         /\ albums = [a \in Albums |->
              IF \E d \in dirs : albumOf[d] = a
                THEN CHOOSE d \in dirs : albumOf[d] = a ELSE None]
  /\ left = {}
  /\ requests = [c \in Requests |-> Idle]
  /\ queue = <<>>
  /\ job = Free
  /\ check = Unchecked
  /\ asked = 0 /\ troubles = 0
  /\ gone = {t \in Audios : \A p \in Places : at[p] = None \/ at[p].audio # t}

-----------------------------------------------------------------------------
(* The queue. *)

NextRequest == CHOOSE c \in Requests : requests[c] = Idle

Ask(op, target, dest) ==
  /\ asked < MaxAsked /\ asked' = asked + 1
  /\ \E c \in Requests : requests[c] = Idle
  /\ requests' = [requests EXCEPT ![NextRequest] =
                   [op |-> op, target |-> target, dest |-> dest]]
  /\ queue' = Append(queue, NextRequest)
  /\ UNCHANGED <<disk, catalogue, job, check, troubles, gone>>

AskTrackEdit(r, p) == rows[r] # None /\ Ask("track", r, p)
AskAlbumEdit(a, d) == albums[a] # None /\ Ask("album", a, d)
AskScan == Ask("scan", None, None)
AskDelete(a) == albums[a] # None /\ Ask("delete", a, None)

Request == requests[Head(queue)]
Running(phase) == queue # <<>> /\ job.phase = phase
Trouble == troubles < MaxTroubles /\ troubles' = troubles + 1

GoTo(phase) == job' = [job EXCEPT !.phase = phase]

Starts(op) == Running("free") /\ Request.op = op

\* The operation's first step; before is what it found.
Begin(started) ==
  job' = [started EXCEPT !.before = [at |-> at, rows |-> rows, albums |-> albums]]

Refused == [Free EXCEPT !.phase = "refused"]

\* The operation has ended, and the next in the queue may start.
Release ==
  /\ queue # <<>>
  /\ job.phase \in Answers
  /\ requests' = [requests EXCEPT ![Head(queue)] = Idle]
  /\ queue' = Tail(queue)
  /\ job' = Free
  /\ UNCHANGED <<disk, catalogue, check, asked, troubles, gone>>

-----------------------------------------------------------------------------
(* Edits of a track or of an album. *)

At(p) == at[p] # None
RowsAt(p) == {r \in Rows : rows[r] # None /\ rows[r].place = p}
RowsOf(a) == {r \in Rows : rows[r] # None /\ rows[r].album = a}
AlbumsIn(d) == {a \in Albums : albums[a] = d}

\* The rows to edit: the track, or the available tracks of the album.
Edited == IF Request.op = "track" THEN {Request.target} \ {r \in Rows : rows[r] = None}
          ELSE {r \in RowsOf(Request.target) : rows[r].shown}

\* An album's edit sets the directory and the totals; the names follow from the
\* totals and from the number, disc and title in the tags of each file, which may
\* have been changed by hand.  So a file may get any name, that of another too.
Destination(r, names) == IF Request.op = "track" THEN Request.dest
                         ELSE <<Request.dest, names[r]>>

Staged(names) ==
  [Free EXCEPT !.phase = "staged",
     !.entries = [r \in Edited |->
       [from |-> rows[r].place, to |-> Destination(r, names), old |-> at[rows[r].place]]]]

\* Every file is copied, and the copy given its new tags.
BeginEdit ==
  /\ Running("free") /\ Request.op \in {"track", "album"}
  /\ IF Edited # {} /\ \A r \in Edited : At(rows[r].place)
       THEN \E names \in [Edited -> Names] : Begin(Staged(names))
       ELSE Begin(Refused)
  /\ UNCHANGED <<disk, catalogue, requests, queue, check, asked, troubles, gone>>

Entries == DOMAIN job.entries
From(r) == job.entries[r].from
To(r) == job.entries[r].to
Copy(r) == [job.entries[r].old EXCEPT !.home = To(r)]

\* Mutant: only the catalogue is looked at.
UnlistedDestinations ==
  /\ \A r, s \in Entries : r # s => To(r) # To(s)
  /\ \A r \in Entries : \A s \in RowsAt(To(r)) :
       IF Request.op = "track" THEN s = r ELSE rows[s].album = Request.target
  /\ Request.op = "album" => AlbumsIn(Request.dest) \subseteq {Request.target}

\* Nothing else is, on disk or in the catalogue, where the entries are to go.
DestinationsFree ==
  /\ \A r, s \in Entries : r # s => To(r) # To(s)
  /\ \A r \in Entries : At(To(r)) => \E s \in Entries : From(s) = To(r)
  /\ \A r \in Entries : \A s \in RowsAt(To(r)) :
       IF Request.op = "track" THEN s = r ELSE rows[s].album = Request.target
  /\ Request.op = "album" => AlbumsIn(Request.dest) \subseteq {Request.target}

\* A copy that cannot take the tags is refused too, with nothing moved.
CheckDestinations ==
  /\ Running("staged")
  /\ \/ DestinationsFree /\ GoTo("aside")
     \/ GoTo("refused")
  /\ UNCHANGED <<disk, catalogue, requests, queue, check, asked, troubles, gone>>

\* An original is renamed to its backup; all of them, before any copy moves.
MoveAside(r) ==
  /\ Running("aside")
  /\ r \in Entries \ job.moved
  /\ at' = [at EXCEPT ![From(r)] = None]
  /\ job' = [job EXCEPT !.moved = @ \cup {r},
                        !.phase = IF job.moved \cup {r} = Entries THEN "install" ELSE @]
  /\ UNCHANGED <<left, catalogue, requests, queue, check, asked, troubles, gone>>

Install(r) ==
  /\ Running("install")
  /\ r \in Entries \ job.installed
  /\ at' = [at EXCEPT ![To(r)] = Copy(r)]
  /\ job' = [job EXCEPT !.installed = @ \cup {r},
                        !.phase = IF job.installed \cup {r} = Entries THEN "rows" ELSE @]
  /\ UNCHANGED <<left, catalogue, requests, queue, check, asked, troubles, gone>>

MoveFails ==
  /\ Running("aside") \/ Running("install")
  /\ Trouble
  /\ GoTo("remove")
  /\ UNCHANGED <<disk, catalogue, requests, queue, check, asked, gone>>

RowAfterEdit(r, a) ==
  [place |-> To(r), album |-> a, shown |-> TRUE, tags |-> Copy(r), stat |-> Copy(r)]

RowsAfterEdit(a) ==
  [r \in Rows |-> IF r \in Entries THEN RowAfterEdit(r, a) ELSE rows[r]]

\* The UNIQUE constraint on relative_path.
PathsUnique == \A r \in Entries : RowsAt(To(r)) \subseteq Entries

\* The rows are updated one by one, so a path must be given up before another row
\* takes it: rows that exchange their paths cannot be updated at all.
InTurn ==
  \E turn \in [Entries -> 1..Cardinality(Entries)] :
    \A r, s \in Entries : r # s /\ To(r) = From(s) => turn[s] < turn[r]

\* Album b loses its last track.
LeavesEmpty(r, b) == b = rows[r].album /\ RowsOf(b) = {r}

\* updateCatalog of a track: it joins the album of its directory, or opens one;
\* an album without tracks is deleted.
CommitTrack(r, a) ==
  /\ Running("rows") /\ Request.op = "track" /\ r \in Entries
  /\ PathsUnique
  /\ IF AlbumsIn(To(r)[1]) # {} THEN a \in AlbumsIn(To(r)[1])
     ELSE albums[a] = None /\ a = CHOOSE b \in Albums : albums[b] = None
  /\ rows' = RowsAfterEdit(a)
  /\ albums' = [b \in Albums |->
       IF b = a THEN To(r)[1]
       ELSE IF LeavesEmpty(r, b) THEN None ELSE albums[b]]
  /\ GoTo("clean")
  /\ UNCHANGED <<disk, requests, queue, check, asked, troubles, gone>>

\* updateCatalog of an album: the album's row moves with its tracks.
CommitAlbum ==
  /\ Running("rows") /\ Request.op = "album"
  /\ PathsUnique /\ InTurn
  /\ rows' = RowsAfterEdit(Request.target)
  /\ albums' = [albums EXCEPT ![Request.target] = Request.dest]
  /\ GoTo("clean")
  /\ UNCHANGED <<disk, requests, queue, check, asked, troubles, gone>>

\* An album of another title or artist owns the track's directory (its own album
\* only if others share it), or a path is taken, be it by a track of the album that
\* is updated later: the transaction rolls back.
Collision ==
  \/ ~PathsUnique
  \/ \E r, s \in Entries : r # s /\ To(r) = From(s)
  \/ /\ Request.op = "track"
     /\ \E r \in Entries : \E a \in AlbumsIn(To(r)[1]) :
          a = rows[r].album => RowsOf(a) # {r}

CommitRefused ==
  /\ Running("rows")
  /\ Collision
  /\ GoTo("remove")
  /\ UNCHANGED <<disk, catalogue, requests, queue, check, asked, troubles, gone>>

CommitFails ==
  /\ Running("rows")
  /\ Trouble
  /\ GoTo("remove")
  /\ UNCHANGED <<disk, catalogue, requests, queue, check, asked, gone>>

OldAudios(R) == {job.entries[r].old.audio : r \in R}

\* The backups are removed; a failure is ignored and leaves one.
RemoveBackups ==
  /\ Running("clean")
  /\ \/ UNCHANGED <<left, troubles>>
     \/ \E r \in Entries : Trouble /\ left' = left \cup OldAudios({r})
  /\ job' = [job EXCEPT !.phase = "ok", !.moved = {}]
  /\ UNCHANGED <<at, catalogue, requests, queue, check, asked, gone>>

\* Rolling back: the installed copies are removed; a failure is ignored.
RemoveInstalled ==
  /\ Running("remove")
  /\ \E kept \in SUBSET job.installed :
       /\ IF kept = {} THEN UNCHANGED troubles ELSE Cardinality(kept) = 1 /\ Trouble
       /\ at' = [p \in Places |->
                  IF \E r \in job.installed \ kept : To(r) = p THEN None ELSE at[p]]
  /\ GoTo(IF job.moved = {} THEN "refused" ELSE "restore")
  /\ UNCHANGED <<left, catalogue, requests, queue, check, asked, gone>>

\* Mutant: only the failures before the last one count.
AfterRestoreOfOthers(r, broken) ==
  job' = [job EXCEPT !.moved = @ \ {r}, !.clean = @ /\ ~broken,
                     !.phase = IF job.moved # {r} THEN @
                               ELSE IF job.clean THEN "refused" ELSE "broken"]

\* What the rollback answers when the last original is back, or not.
AfterRestore(r, broken) ==
  job' = [job EXCEPT !.moved = @ \ {r}, !.clean = @ /\ ~broken,
                     !.phase = IF job.moved # {r} THEN @
                               ELSE IF job.clean /\ ~broken THEN "refused" ELSE "broken"]

Restore(r) ==
  /\ Running("restore") /\ r \in job.moved
  /\ at' = [at EXCEPT ![From(r)] = job.entries[r].old]
  /\ AfterRestore(r, FALSE)
  /\ UNCHANGED <<left, catalogue, requests, queue, check, asked, troubles, gone>>

\* The error says contentPreserved: false.  A track keeps its backup; the
\* rollback of an album removes the backups it could not restore.
RestoreFails(r) ==
  /\ Running("restore") /\ r \in job.moved
  /\ Trouble
  /\ left' = IF Request.op = "track" THEN left \cup OldAudios({r}) ELSE left
  /\ gone' = gone \cup OldAudios({r})
  /\ AfterRestore(r, TRUE)
  /\ UNCHANGED <<at, catalogue, requests, queue, check, asked>>

-----------------------------------------------------------------------------
(* The scan. *)

\* collectFiles.
BeginScan ==
  /\ Starts("scan")
  /\ Begin([Free EXCEPT !.phase = "scan", !.todo = {p \in Places : At(p)}])
  /\ UNCHANGED <<disk, catalogue, requests, queue, check, asked, troubles, gone>>

Scanned(p) == [job EXCEPT !.todo = @ \ {p}, !.seen = @ \cup {p}]

\* Mutant: a file is known by its size alone, wherever it is.
UnmodifiedAnywhere(p) == \E r \in Rows :
  rows[r] # None /\ rows[r].shown /\ rows[r].stat.audio = at[p].audio

\* Size and time of the file at p are those of an available row.
Unmodified(p) == \E r \in RowsAt(p) : rows[r].shown /\ rows[r].stat = at[p]

\* A file of an available row is unchanged; one that has vanished, or is not
\* where its tags say, is passed over.
ScanPasses(p) ==
  /\ Running("scan") /\ p \in job.todo
  /\ At(p) => Unmodified(p) \/ at[p].home # p
  /\ job' = Scanned(p)
  /\ UNCHANGED <<disk, catalogue, requests, queue, check, asked, troubles, gone>>

\* saveMusicTrackIndex: the row with this path, or a new one, in the album of the
\* directory.
ScanIndexes(p, r, a) ==
  /\ Running("scan") /\ p \in job.todo
  /\ At(p) /\ ~Unmodified(p) /\ at[p].home = p
  /\ IF RowsAt(p) # {} THEN r \in RowsAt(p)
     ELSE rows[r] = None /\ r = CHOOSE s \in Rows : rows[s] = None
  /\ IF AlbumsIn(p[1]) # {} THEN a \in AlbumsIn(p[1])
     ELSE albums[a] = None /\ a = CHOOSE b \in Albums : albums[b] = None
  /\ rows' = [rows EXCEPT ![r] =
       [place |-> p, album |-> a, shown |-> TRUE, tags |-> at[p], stat |-> at[p]]]
  /\ albums' = [albums EXCEPT ![a] = p[1]]
  /\ job' = Scanned(p)
  /\ UNCHANGED <<disk, requests, queue, check, asked, troubles, gone>>

\* An album of another title owns the directory, or a fault, or the bound on
\* rows: an error in the report, and the scan goes on.
ScanRefuses(p) ==
  /\ Running("scan") /\ p \in job.todo
  /\ At(p) /\ ~Unmodified(p) /\ at[p].home = p
  /\ IF AlbumsIn(p[1]) # {} \/ \A r \in Rows : rows[r] # None
       THEN UNCHANGED troubles ELSE Trouble
  /\ job' = [Scanned(p) EXCEPT !.clean = FALSE]
  /\ UNCHANGED <<disk, catalogue, requests, queue, check, asked, gone>>

\* listIndexedTracks, when all files are done.
BeginMissing ==
  /\ Running("scan") /\ job.todo = {}
  /\ job' = [job EXCEPT !.phase = "missing", !.todo = {r \in Rows : rows[r] # None}]
  /\ UNCHANGED <<disk, catalogue, requests, queue, check, asked, troubles, gone>>

\* A row whose path was not seen and is not there.
Vanished(r) == rows[r].place \notin job.seen /\ ~At(rows[r].place)

MarkMissing(r) ==
  /\ Running("missing") /\ r \in job.todo
  /\ rows' = IF Vanished(r) THEN [rows EXCEPT ![r].shown = FALSE] ELSE rows
  /\ job' = [job EXCEPT !.todo = @ \ {r}]
  /\ UNCHANGED <<disk, albums, requests, queue, check, asked, troubles, gone>>

EndScan ==
  /\ Running("missing") /\ job.todo = {}
  /\ GoTo("ok")
  /\ UNCHANGED <<disk, catalogue, requests, queue, check, asked, troubles, gone>>

-----------------------------------------------------------------------------
(* The deletion of an album. *)

BeginDelete ==
  /\ Starts("delete")
  /\ Begin(IF albums[Request.target] # None THEN [Free EXCEPT !.phase = "folder"]
           ELSE Refused)
  /\ UNCHANGED <<disk, catalogue, requests, queue, check, asked, troubles, gone>>

FilesIn(d) == {<<p, at[p]>> : p \in {p \in Places : p[1] = d /\ At(p)}}

\* The directory, if it is there, moves to .baia-delete-staging.
StageFolder ==
  LET d == albums[Request.target] IN
  /\ Running("folder")
  /\ at' = [p \in Places |-> IF p[1] = d THEN None ELSE at[p]]
  /\ job' = [job EXCEPT !.phase = "unlist", !.trash = FilesIn(d)]
  /\ UNCHANGED <<left, catalogue, requests, queue, check, asked, troubles, gone>>

StageFails ==
  /\ Running("folder")
  /\ Trouble
  /\ GoTo("refused")
  /\ UNCHANGED <<disk, catalogue, requests, queue, check, asked, gone>>

DeleteRows ==
  /\ Running("unlist")
  /\ rows' = [r \in Rows |-> IF r \in RowsOf(Request.target) THEN None ELSE rows[r]]
  /\ albums' = [albums EXCEPT ![Request.target] = None]
  /\ GoTo("purge")
  /\ UNCHANGED <<disk, requests, queue, check, asked, troubles, gone>>

DeleteFails ==
  /\ Running("unlist")
  /\ Trouble
  /\ GoTo("unfolder")
  /\ UNCHANGED <<disk, catalogue, requests, queue, check, asked, gone>>

Trashed == {f[2].audio : f \in job.trash}

\* A directory made again in the meantime is not replaced.
RestoreFolder ==
  /\ Running("unfolder")
  /\ \A f \in job.trash, n \in Names : at[<<f[1][1], n>>] = None
  /\ at' = [p \in Places |->
             IF \E f \in job.trash : f[1] = p
               THEN (CHOOSE f \in job.trash : f[1] = p)[2] ELSE at[p]]
  /\ job' = [job EXCEPT !.phase = "refused", !.trash = {}]
  /\ UNCHANGED <<left, catalogue, requests, queue, check, asked, troubles, gone>>

\* The trouble that undid the deletion may stop this too: it is not counted again.
RestoreFolderFails ==
  /\ Running("unfolder")
  /\ left' = left \cup Trashed
  /\ job' = [job EXCEPT !.phase = "broken", !.trash = {}]
  /\ UNCHANGED <<at, catalogue, requests, queue, check, asked, troubles, gone>>

Purge ==
  /\ Running("purge")
  /\ gone' = gone \cup Trashed
  /\ job' = [job EXCEPT !.phase = "ok", !.trash = {}]
  /\ UNCHANGED <<disk, catalogue, requests, queue, check, asked, troubles>>

-----------------------------------------------------------------------------
(* The availability check, one row at a time, without the lock. *)

CheckReads(r) ==
  /\ Trouble
  /\ check.phase = "idle" /\ rows[r] # None
  /\ check' = [row |-> r, place |-> rows[r].place, file |-> None, phase |-> "listed"]
  /\ UNCHANGED <<disk, catalogue, requests, queue, job, asked, gone>>

CheckStats ==
  /\ check.phase = "listed"
  /\ check' = [check EXCEPT !.phase = "seen", !.file = at[check.place]]
  /\ UNCHANGED <<disk, catalogue, requests, queue, job, asked, troubles, gone>>

Marked(row) ==
  IF check.file = None THEN [row EXCEPT !.shown = FALSE]
  ELSE [row EXCEPT !.shown = TRUE, !.stat = check.file]

CheckMarks ==
  /\ check.phase = "seen"
  /\ rows' = [r \in Rows |-> IF r = check.row /\ rows[r] # None THEN Marked(rows[r])
                             ELSE rows[r]]
  /\ check' = Unchecked
  /\ job' = [job EXCEPT !.clean = @ /\ job.phase \notin ScanPhases \cup {"ok"}]
  /\ UNCHANGED <<disk, albums, requests, queue, asked, troubles, gone>>

-----------------------------------------------------------------------------
(* Changes by hand, and the process. *)

\* Nobody touches the files while they are edited or deleted.
ByHand ==
  /\ Trouble
  /\ job.phase \in {"free"} \cup ScanPhases
  /\ job' = [job EXCEPT !.clean = job.phase = "free"]

RemoveByHand(p) ==
  /\ At(p)
  /\ ByHand
  /\ at' = [at EXCEPT ![p] = None]
  /\ gone' = gone \cup {at[p].audio}
  /\ UNCHANGED <<left, catalogue, requests, queue, check, asked>>

\* A file appears, or takes the place of another.
PutByHand(p, file) ==
  /\ at[p] # file
  /\ ByHand
  /\ at' = [at EXCEPT ![p] = file]
  /\ gone' = (gone \cup (IF At(p) THEN {at[p].audio} ELSE {})) \ {file.audio}
  /\ UNCHANGED <<left, catalogue, requests, queue, check, asked>>

Restart ==
  /\ Trouble
  /\ left' = left \cup OldAudios(job.moved) \cup Trashed
  /\ requests' = [c \in Requests |-> Idle]
  /\ queue' = <<>>
  /\ job' = Free
  /\ check' = Unchecked
  /\ UNCHANGED <<at, catalogue, asked, gone>>

-----------------------------------------------------------------------------

EditStep ==
  \/ BeginEdit \/ CheckDestinations
  \/ \E r \in Rows : MoveAside(r) \/ Install(r) \/ Restore(r) \/ RestoreFails(r)
  \/ \E r \in Rows, a \in Albums : CommitTrack(r, a)
  \/ CommitAlbum \/ CommitRefused \/ CommitFails \/ MoveFails
  \/ RemoveBackups \/ RemoveInstalled

ScanStep ==
  \/ BeginScan \/ BeginMissing \/ EndScan
  \/ \E p \in Places : ScanPasses(p) \/ ScanRefuses(p)
  \/ \E p \in Places, r \in Rows, a \in Albums : ScanIndexes(p, r, a)
  \/ \E r \in Rows : MarkMissing(r)

DeleteStep ==
  \/ BeginDelete \/ StageFolder \/ StageFails \/ DeleteRows \/ DeleteFails
  \/ RestoreFolder \/ RestoreFolderFails \/ Purge

\* The operation that holds the lock goes on.
Step == EditStep \/ ScanStep \/ DeleteStep \/ Release

Users ==
  \/ \E r \in Rows, p \in Places : AskTrackEdit(r, p)
  \/ \E a \in Albums : AskDelete(a) \/ \E d \in Dirs : AskAlbumEdit(a, d)
  \/ AskScan

Check == CheckStats \/ CheckMarks \/ \E r \in Rows : CheckReads(r)

Hands == \E p \in Places : RemoveByHand(p) \/ \E file \in File : PutByHand(p, file)

Next == Step \/ Users \/ Check \/ Hands \/ Restart

Spec == Init /\ [][Next]_vars

-----------------------------------------------------------------------------
(* Properties. *)

Before == job.before

\* An edit or deletion is all or nothing: "ok" with every file and row where the
\* edit sends it, "refused" with every file and row as it was.  Only a second
\* fault, while rolling back, may end otherwise (test/
\* music-album-metadata-edit-service.test.js: a SQLite error restores all files).
EditsAreAtomic ==
  /\ job.phase = "ok" /\ Request.op \in {"track", "album"} =>
       \A r \in Entries :
         /\ at[To(r)] = Copy(r)
         /\ From(r) \notin {To(s) : s \in Entries} => at[From(r)] = None
         /\ rows[r].place = To(r) /\ albums[rows[r].album] = To(r)[1]
  /\ job.phase = "refused" =>
       /\ \A p \in Places : Before.at[p] # None => at[p] = Before.at[p]
       /\ \A r \in Rows : rows[r] # None => rows[r].place = Before.rows[r].place
       /\ {r \in Rows : rows[r] = None} = {r \in Rows : Before.rows[r] = None}
       /\ albums = Before.albums

\* No edit, scan, fault or stop loses a recording, unless the answer says so.
Kept(t) ==
  \/ \E p \in Places : At(p) /\ at[p].audio = t
  \/ t \in left \cup OldAudios(job.moved) \cup Trashed

NothingLost == \A t \in Audios : t \in gone \/ Kept(t)

\* A scan nothing disturbed leaves the rows true: what is shown is there, and
\* what is where its tags say is shown.
ScanHeals ==
  job.phase = "ok" /\ Request.op = "scan" /\ job.clean =>
    /\ \A r \in Rows : rows[r] # None /\ rows[r].shown => At(rows[r].place)
    /\ \A p \in Places : At(p) /\ at[p].home = p => \E r \in RowsAt(p) : rows[r].shown
=============================================================================
