---------------------------- MODULE MovieLibrary ----------------------------
(***************************************************************************)
(* One film of the library: its folder on disk and its rows in the table   *)
(* movies, changed by uploads (movie-upload-service.js), deletions         *)
(* (content-delete-service.js) and the availability check                  *)
(* (library-reconciliation-service.js).                                    *)
(*                                                                         *)
(* The folder of a film is named by its title and year, so uploads of one  *)
(* film meet in one folder.  Disk and database are changed by separate     *)
(* steps with awaits between them, and no lock joins them: every action    *)
(* below is the code between two awaits, and actions of different requests *)
(* alternate freely.  The check also runs as a process of its own.         *)
(***************************************************************************)
EXTENDS Naturals

CONSTANTS
  Uploads,     \* upload requests, each naming the copy it brings
  Original,    \* a copy in the library from the start
  Deletes,     \* deletion requests
  Extensions,  \* extensions of a video file, the part of its path that varies
  NoDir,       \* the folder is absent
  Bare,        \* the folder is there without a video, but not empty
  NoRow,       \* no row of movies
  Checker,     \* the availability check
  Nobody,      \* nobody works alone
  MaxFaults    \* bound on faults of the disk and the database

Copies == Uploads \cup {Original}

\* Copies, requests and what is not one of them have names of their own.
ASSUME ConstantsAssumption ==
  /\ {NoDir, Bare, NoRow} \cap Copies = {}
  /\ Original \notin Uploads
  /\ Uploads \cap Deletes = {}
  /\ {Checker, Nobody} \cap (Uploads \cup Deletes) = {}
  /\ Checker # Nobody
  /\ MaxFaults \in Nat

\* A row is named for the copy whose upload inserted it; ids are never reused.
Rows == Copies

VARIABLES
  folder,   \* what is under the film's final path
  rows,     \* rows[i]: the row of movies i
  ext,      \* ext[c]: the extension of copy c
  uploads,  \* uploads[u]: how far request u is, and its local variables
  deletes,  \* deletes[d]: likewise
  check,    \* likewise, of the availability check
  faults,   \* how many faults there have been
  alone     \* history: the request with nothing else going on, what it found, and
            \* how many faults there had been

vars == <<folder, rows, ext, uploads, deletes, check, faults, alone>>

Contents == Copies \cup {NoDir, Bare}

\* by is history: the copy the row was last written for.
Row == [status : {"none", "available", "offline", "deleted"},
        ext : Extensions,
        by : Copies]

UploadSteps == {"stat", "present", "absent", "staged", "displace", "install",
                "undo", "verify", "save"}
UploadAnswers == {"created", "refused", "failed", "preserved", "lost"}
DeleteSteps == {"look", "stage", "rows", "restore", "purge"}
DeleteAnswers == {"ok", "failed", "stranded", "lost"}

\* row is reusableRecord, or activeDuplicate until it is known to be missing.
Upload == [phase : {"new"} \cup UploadSteps \cup UploadAnswers,
           row : Rows \cup {NoRow},
           ext : Extensions,
           displaced : Contents]

Delete == [phase : {"new"} \cup DeleteSteps \cup DeleteAnswers,
           row : Rows \cup {NoRow},
           staged : Contents]

\* todo holds the rows read and not yet looked at, with the path they had.
Check == [phase : {"idle", "scan", "mark"},
          todo : SUBSET (Rows \X Extensions),
          row : Rows \cup {NoRow},
          seen : BOOLEAN]

IdleCheck == [phase |-> "idle", todo |-> {}, row |-> NoRow, seen |-> FALSE]

Stopped == [who |-> Nobody, folder |-> NoDir, rows |-> <<>>, faults |-> 0]

\* A library with the film in it, without, or with all of it but the video, which a
\* check has found.
Init ==
  /\ ext \in [Copies -> Extensions]
  /\ folder \in {NoDir, Bare, Original}
  /\ rows = [i \in Rows |->
               [status |-> CASE i = folder -> "available"
                             [] i = Original /\ folder = Bare -> "offline"
                             [] OTHER -> "none",
                ext |-> ext[i], by |-> i]]
  /\ uploads = [u \in Uploads |-> [phase |-> "new", row |-> NoRow, ext |-> ext[u],
                                   displaced |-> NoDir]]
  /\ deletes = [d \in Deletes |-> [phase |-> "new", row |-> NoRow, staged |-> NoDir]]
  /\ check = IdleCheck
  /\ faults = 0
  /\ alone = Stopped

-----------------------------------------------------------------------------
Exists(i) == rows[i].status \in {"available", "offline"}

\* fs.stat of the video with extension e in the film's folder finds a file.
FileAt(e) == folder \in Copies /\ ext[folder] = e

\* The UNIQUE constraint on movies.file_path, were i to be at extension e.
PathFree(i, e) == \A j \in Rows \ {i} : Exists(j) => rows[j].ext # e

\* Copy c is in the hands of a request, out of the film's folder.
HeldByUpload(u, c) == uploads[u].displaced = c
HeldByDelete(d, c) == deletes[d].staged = c
Held(c) == (\E u \in Uploads : HeldByUpload(u, c)) \/ (\E d \in Deletes : HeldByDelete(d, c))

InFlight ==
  \/ \E u \in Uploads : uploads[u].phase \in UploadSteps
  \/ \E d \in Deletes : deletes[d].phase \in DeleteSteps
  \/ check.phase # "idle"

\* w starts: alone, if nothing else is in flight; else nobody is alone any more.
Begin(w) == alone' = IF InFlight THEN Stopped
                     ELSE [who |-> w, folder |-> folder, rows |-> rows, faults |-> faults]

Disturb == alone' = Stopped

Fault == faults < MaxFaults /\ faults' = faults + 1

GoTo(u, phase) == uploads' = [uploads EXCEPT ![u].phase = phase]

\* The answer to upload u; its local variables are gone.
Answer(u, phase) ==
  /\ uploads' = [uploads EXCEPT ![u] = [phase |-> phase, row |-> NoRow, ext |-> ext[u],
                                        displaced |-> NoDir]]
  /\ alone' = Stopped

Respond(d, phase) ==
  /\ deletes' = [deletes EXCEPT ![d].phase = phase, ![d].staged = NoDir]
  /\ alone' = Stopped

-----------------------------------------------------------------------------
(* POST /api/uploads/movies: createMovieFromUpload.                          *)

\* The queries before the first await.  An active film of this title and year is
\* looked up on disk; else an offline one is reused.
StartUpload(u) ==
  LET active == {i \in Rows : rows[i].status = "available"}
      offline == {i \in Rows : rows[i].status = "offline"}
  IN  /\ uploads[u].phase = "new"
      /\ \/ \E i \in active :
              uploads' = [uploads EXCEPT ![u].phase = "stat", ![u].row = i,
                                         ![u].ext = rows[i].ext]
         \/ /\ active = {}
            /\ \E i \in offline :
                 uploads' = [uploads EXCEPT ![u].phase = "staged", ![u].row = i]
         \/ /\ active \cup offline = {}
            /\ GoTo(u, "staged")
      /\ Begin(u)
      /\ UNCHANGED <<folder, rows, ext, deletes, check, faults>>

StatDuplicate(u) ==
  /\ uploads[u].phase = "stat"
  /\ uploads' = [uploads EXCEPT
                   ![u].phase = IF FileAt(uploads[u].ext) THEN "present" ELSE "absent",
                   ![u].ext = ext[u]]
  /\ UNCHANGED <<folder, rows, ext, deletes, check, faults, alone>>

\* 409: the film is already there.
RefuseDuplicate(u) ==
  /\ uploads[u].phase = "present"
  /\ Answer(u, "refused")
  /\ UNCHANGED <<folder, rows, ext, deletes, check, faults>>

\* Mutant of MarkedOffline: the row is dropped instead.
MarkedDeleted(i) == [rows EXCEPT ![i].status = IF Exists(i) THEN "deleted" ELSE @]

\* UPDATE movies SET available = 0 WHERE id = i
MarkedOffline(i) == [rows EXCEPT ![i].status = IF Exists(i) THEN "offline" ELSE @]

MarkDuplicateMissing(u) ==
  /\ uploads[u].phase = "absent"
  /\ rows' = MarkedOffline(uploads[u].row)
  /\ GoTo(u, "staged")
  /\ UNCHANGED <<folder, ext, deletes, check, faults, alone>>

\* What may fail before anything has moved: the stat of the duplicate, its update, the
\* filling of the staging directory, a cover that is no image, the look at the folder and
\* the rename that displaces it.
FailEarly(u) ==
  /\ uploads[u].phase \in {"stat", "absent", "staged", "displace"}
  /\ Fault
  /\ Answer(u, "failed")
  /\ UNCHANGED <<folder, rows, ext, deletes, check>>

\* Mutant of AfterRename: the folder is copied instead.
AfterCopy(contents) == contents

\* What a rename leaves in the place of the folder it moved.
AfterRename(contents) == NoDir

\* displaceStaleDirectory up to its rename.  What it sees in several calls is what
\* the last of them sees.
CheckFolder(u) ==
  /\ uploads[u].phase = "staged"
  /\ CASE folder = NoDir -> GoTo(u, "install") /\ UNCHANGED alone
       [] folder = Bare /\ uploads[u].row # NoRow -> GoTo(u, "displace") /\ UNCHANGED alone
       [] OTHER -> Answer(u, "refused")
  /\ UNCHANGED <<folder, rows, ext, deletes, check, faults>>

\* The rename moves away whatever is in the folder by now.
Displace(u) ==
  /\ uploads[u].phase = "displace"
  /\ IF folder = NoDir
     THEN Answer(u, "failed") /\ UNCHANGED folder
     ELSE /\ uploads' = [uploads EXCEPT ![u].phase = "install", ![u].displaced = folder]
          /\ folder' = AfterRename(folder)
          /\ UNCHANGED alone
  /\ UNCHANGED <<rows, ext, deletes, check, faults>>

\* The rename into place, and the removal of what was displaced.
Install(u) ==
  /\ uploads[u].phase = "install"
  /\ folder = NoDir
  /\ folder' = u
  /\ uploads' = [uploads EXCEPT ![u].phase = "verify", ![u].displaced = NoDir]
  /\ UNCHANGED <<rows, ext, deletes, check, faults, alone>>

\* ENOTEMPTY, or the disk refuses the rename.
InstallFails(u) ==
  /\ uploads[u].phase = "install"
  /\ IF folder = NoDir THEN Fault ELSE UNCHANGED faults
  /\ IF uploads[u].displaced = NoDir
     THEN Answer(u, "failed")
     ELSE GoTo(u, "undo") /\ UNCHANGED alone
  /\ UNCHANGED <<folder, rows, ext, deletes, check>>

\* Mutant of RestoreDisplaced: the displaced folder stays in the upload directory.
LeaveDisplaced(u) == folder

\* The displaced folder goes back unless another one is there by now.
RestoreDisplaced(u) == IF folder = NoDir THEN uploads[u].displaced ELSE folder

\* The rename back; when the disk refuses it, nobody is told.
Undo(u) ==
  /\ uploads[u].phase = "undo"
  /\ \/ folder' = RestoreDisplaced(u) /\ UNCHANGED faults
     \/ Fault /\ UNCHANGED folder
  /\ Answer(u, "failed")
  /\ UNCHANGED <<rows, ext, deletes, check>>

\* fs.stat of the video in its final place.  When it fails, the folder stays there.
VerifyInstalled(u) ==
  /\ uploads[u].phase = "verify"
  /\ \/ FileAt(ext[u]) /\ GoTo(u, "save") /\ UNCHANGED <<alone, faults>>
     \/ ~FileAt(ext[u]) /\ Answer(u, "failed") /\ UNCHANGED faults
     \/ Fault /\ Answer(u, "failed")
  /\ UNCHANGED <<folder, rows, ext, deletes, check>>

\* saveMovieRow finds what it needs: a free path, and a row still offline.
CanSave(u) ==
  LET i == uploads[u].row
  IN  IF i = NoRow
      THEN PathFree(u, ext[u])
      ELSE rows[i].status = "offline" /\ PathFree(i, ext[u])

Save(u) ==
  LET i == IF uploads[u].row = NoRow THEN u ELSE uploads[u].row
  IN  /\ uploads[u].phase = "save"
      /\ CanSave(u)
      /\ rows' = [rows EXCEPT ![i] = [status |-> "available", ext |-> ext[u], by |-> u]]
      /\ Answer(u, "created")
      /\ UNCHANGED <<folder, ext, deletes, check, faults>>

\* contentPreserved: the folder is kept, SQLite is not updated.
SaveFails(u) ==
  /\ uploads[u].phase = "save"
  /\ IF CanSave(u) THEN Fault ELSE UNCHANGED faults
  /\ Answer(u, "preserved")
  /\ UNCHANGED <<folder, rows, ext, deletes, check>>

-----------------------------------------------------------------------------
(* DELETE of a film: deleteMovie and withStagedDirectoryDeletion.            *)

StartDelete(d, i) ==
  /\ deletes[d].phase = "new"
  /\ Exists(i)
  /\ deletes' = [deletes EXCEPT ![d].phase = "look", ![d].row = i]
  /\ Begin(d)
  /\ UNCHANGED <<folder, rows, ext, uploads, check, faults>>

\* pathState: a folder already missing needs no staging.
LookForFolder(d) ==
  /\ deletes[d].phase = "look"
  /\ deletes' = [deletes EXCEPT ![d].phase = IF folder = NoDir THEN "rows" ELSE "stage"]
  /\ UNCHANGED <<folder, rows, ext, uploads, check, faults, alone>>

\* The rename into .baia-delete-staging; DELETE_DIRECTORY_STAGE_FAILED if the folder
\* has gone.
StageFolder(d) ==
  /\ deletes[d].phase = "stage"
  /\ IF folder = NoDir
     THEN Respond(d, "failed") /\ UNCHANGED folder
     ELSE /\ deletes' = [deletes EXCEPT ![d].phase = "rows", ![d].staged = folder]
          /\ folder' = AfterRename(folder)
          /\ UNCHANGED alone
  /\ UNCHANGED <<rows, ext, uploads, check, faults>>

\* What may fail before anything has moved: the look at the folder, the staging
\* directory, the rename.
FailEarlyDelete(d) ==
  /\ deletes[d].phase \in {"look", "stage"}
  /\ Fault
  /\ Respond(d, "failed")
  /\ UNCHANGED <<folder, rows, ext, uploads, check>>

\* The transaction.
DeleteRow(d) ==
  LET i == deletes[d].row
  IN  /\ deletes[d].phase = "rows"
      /\ Exists(i)
      /\ rows' = [rows EXCEPT ![i].status = "deleted"]
      /\ IF deletes[d].staged = NoDir
         THEN Respond(d, "ok")
         ELSE deletes' = [deletes EXCEPT ![d].phase = "purge"] /\ UNCHANGED alone
      /\ UNCHANGED <<folder, ext, uploads, check, faults>>

\* MOVIE_DELETE_CONFLICT, or the database refuses the transaction.
DeleteRowFails(d) ==
  /\ deletes[d].phase = "rows"
  /\ IF Exists(deletes[d].row) THEN Fault ELSE UNCHANGED faults
  /\ IF deletes[d].staged = NoDir
     THEN Respond(d, "failed")
     ELSE deletes' = [deletes EXCEPT ![d].phase = "restore"] /\ UNCHANGED alone
  /\ UNCHANGED <<folder, rows, ext, uploads, check>>

\* Mutant of RestoredFolder: the staged folder stays in .baia-delete-staging.
StagedForGood(d) == folder

RestoredFolder(d) == IF folder = NoDir THEN deletes[d].staged ELSE folder

\* The rename back; DELETE_ROLLBACK_FAILED over another folder, or when the disk refuses.
RestoreFolder(d) ==
  /\ deletes[d].phase = "restore"
  /\ \/ /\ folder' = RestoredFolder(d) /\ UNCHANGED faults
        /\ Respond(d, IF folder = NoDir THEN "failed" ELSE "stranded")
     \/ Fault /\ Respond(d, "stranded") /\ UNCHANGED folder
  /\ UNCHANGED <<rows, ext, uploads, check>>

PurgeStaged(d) ==
  /\ deletes[d].phase = "purge"
  /\ Respond(d, "ok")
  /\ UNCHANGED <<folder, rows, ext, uploads, check, faults>>

-----------------------------------------------------------------------------
(* reconcileLibraryAvailability, at startup or from scan-once.js.            *)

StartCheck ==
  /\ check.phase = "idle"
  /\ check' = [IdleCheck EXCEPT !.phase = "scan",
                                !.todo = {<<i, rows[i].ext>> : i \in {j \in Rows : Exists(j)}}]
  /\ Begin(Checker)
  /\ UNCHANGED <<folder, rows, ext, uploads, deletes, faults>>

\* The stat, at the path the row had when the check began.
StatRow(known) ==
  /\ check.phase = "scan"
  /\ check' = [phase |-> "mark", todo |-> check.todo \ {known}, row |-> known[1],
               seen |-> FileAt(known[2])]
  /\ UNCHANGED <<folder, rows, ext, uploads, deletes, faults, alone>>

\* Mutant of Marked: a film that is back is not shown again.
MarkedOnlyMissing(i, seen) ==
  [rows EXCEPT ![i].status = IF Exists(i) /\ ~seen THEN "offline" ELSE @]

\* setContentAvailable or setContentUnavailable, WHERE id = i
Marked(i, seen) ==
  [rows EXCEPT ![i].status = CASE ~Exists(i) -> @
                               [] Exists(i) /\ seen -> "available"
                               [] OTHER -> "offline"]

MarkRow ==
  /\ check.phase = "mark"
  /\ rows' = Marked(check.row, check.seen)
  /\ check' = [check EXCEPT !.phase = "scan", !.row = NoRow, !.seen = FALSE]
  /\ UNCHANGED <<folder, ext, uploads, deletes, faults, alone>>

FinishCheck ==
  /\ check.phase = "scan"
  /\ check.todo = {}
  /\ check' = IdleCheck
  /\ alone' = Stopped
  /\ UNCHANGED <<folder, rows, ext, uploads, deletes, faults>>

\* A stat or an update that fails ends the check.
FailCheck ==
  /\ check.phase = "mark" \/ check.todo # {}
  /\ Fault
  /\ check' = IdleCheck
  /\ alone' = Stopped
  /\ UNCHANGED <<folder, rows, ext, uploads, deletes>>

-----------------------------------------------------------------------------
(* The world.                                                                *)

\* The video, or its whole folder, disappears behind the server's back.
TakeAway ==
  /\ folder \in Copies
  /\ folder' \in {NoDir, Bare}
  /\ Fault
  /\ Disturb
  /\ UNCHANGED <<rows, ext, uploads, deletes, check>>

\* The copy a row was written for is put back where it was.
PutBack ==
  /\ folder \in {NoDir, Bare}
  /\ \E i \in Rows : Exists(i) /\ ~Held(rows[i].by) /\ folder' = rows[i].by
  /\ Fault
  /\ Disturb
  /\ UNCHANGED <<rows, ext, uploads, deletes, check>>

\* The server stops and starts again.  Requests in flight are never answered, and
\* nothing looks into the two staging directories.
Crash ==
  /\ InFlight
  /\ Fault
  /\ uploads' = [u \in Uploads |->
                   IF uploads[u].phase \in UploadSteps
                   THEN [phase |-> "lost", row |-> NoRow, ext |-> ext[u], displaced |-> NoDir]
                   ELSE uploads[u]]
  /\ deletes' = [d \in Deletes |->
                   IF deletes[d].phase \in DeleteSteps
                   THEN [deletes[d] EXCEPT !.phase = "lost", !.staged = NoDir]
                   ELSE deletes[d]]
  /\ check' = IdleCheck
  /\ Disturb
  /\ UNCHANGED <<folder, rows, ext>>

UploadStep(u) ==
  \/ StartUpload(u) \/ StatDuplicate(u) \/ RefuseDuplicate(u) \/ MarkDuplicateMissing(u)
  \/ FailEarly(u) \/ CheckFolder(u) \/ Displace(u) \/ Install(u) \/ InstallFails(u)
  \/ Undo(u) \/ VerifyInstalled(u) \/ Save(u) \/ SaveFails(u)

DeleteStep(d) ==
  \/ \E i \in Rows : StartDelete(d, i)
  \/ LookForFolder(d) \/ StageFolder(d) \/ FailEarlyDelete(d) \/ DeleteRow(d) \/ DeleteRowFails(d)
  \/ RestoreFolder(d) \/ PurgeStaged(d)

CheckStep ==
  \/ StartCheck
  \/ \E known \in check.todo : StatRow(known)
  \/ MarkRow
  \/ FinishCheck
  \/ FailCheck

WorldStep == TakeAway \/ PutBack \/ Crash

Next ==
  \/ \E u \in Uploads : UploadStep(u)
  \/ \E d \in Deletes : DeleteStep(d)
  \/ CheckStep
  \/ WorldStep

Spec == Init /\ [][Next]_vars

-----------------------------------------------------------------------------
(* Properties.                                                               *)

\* Values have their types, and what is in a staging directory is nowhere else: no
\* copy is both in the film's folder and staged, or staged by two requests.
TypeOK ==
  /\ folder \in Contents
  /\ rows \in [Rows -> Row]
  /\ ext \in [Copies -> Extensions]
  /\ uploads \in [Uploads -> Upload]
  /\ deletes \in [Deletes -> Delete]
  /\ check \in Check
  /\ faults \in 0 .. MaxFaults
  /\ alone.who \in Uploads \cup Deletes \cup {Checker, Nobody}
  /\ \A c \in Copies :
       /\ Held(c) => folder # c
       /\ \A u, v \in Uploads : HeldByUpload(u, c) /\ HeldByUpload(v, c) => u = v
       /\ \A d, e \in Deletes : HeldByDelete(d, c) /\ HeldByDelete(e, c) => d = e
       /\ ~\E u \in Uploads, d \in Deletes : HeldByUpload(u, c) /\ HeldByDelete(d, c)

\* Rows as alone.rows, but for available ones found missing and marked offline.
OnlyMissingMarked(after) ==
  \A i \in Rows :
    \/ after[i] = alone.rows[i]
    \/ /\ alone.rows[i].status = "available"
       /\ ~(alone.folder \in Copies /\ ext[alone.folder] = alone.rows[i].ext)
       /\ after[i] = [alone.rows[i] EXCEPT !.status = "offline"]

\* The copy is in place, but neither the catalogue nor the answer says so.
Unregistered(u) ==
  uploads[u].phase = "verify" /\ folder' = u /\ faults' > alone.faults

\* The request has failed, and so has putting back what it had set aside.
Stranded(aside) ==
  folder' = NoDir /\ aside = alone.folder /\ faults' >= alone.faults + 2

UploadOutcome(u) ==
  CASE uploads'[u].phase = "created" ->
         /\ folder' = u
         /\ \E i \in Rows :
              /\ rows'[i] = [status |-> "available", ext |-> ext[u], by |-> u]
              /\ \A j \in Rows \ {i} : rows'[j] = alone.rows[j]
    [] uploads'[u].phase = "refused" ->
         folder' = alone.folder /\ OnlyMissingMarked(rows')
    [] uploads'[u].phase = "preserved" ->
         folder' = u /\ OnlyMissingMarked(rows')
    [] uploads'[u].phase = "failed" ->
         /\ OnlyMissingMarked(rows')
         /\ \/ folder' = alone.folder
            \/ Unregistered(u)
            \/ Stranded(uploads[u].displaced)
    [] OTHER -> TRUE

DeleteOutcome(d) ==
  CASE deletes'[d].phase = "ok" ->
         /\ folder' = NoDir
         /\ rows' = [alone.rows EXCEPT ![deletes[d].row].status = "deleted"]
    [] deletes'[d].phase = "failed" ->
         folder' = alone.folder /\ rows' = alone.rows
    [] deletes'[d].phase = "stranded" ->
         Stranded(deletes[d].staged) /\ rows' = alone.rows
    [] OTHER -> TRUE

\* A request that nothing else meets changes the disk and the catalogue together or
\* not at all, whichever of its steps fails: what a refused or failed upload had
\* displaced is back in place, a failed deletion has put its folder back.  It is left
\* half-way in three cases: contentPreserved, which the answer names; an upload whose
\* stat failed once the folder was in place, which is there without a row
\* (movie-upload-service.js:366); and a folder whose rename back is itself refused, which
\* takes a second fault and leaves it where it was set aside, as the answer of a deletion
\* says and that of an upload does not (content-delete-service.js:182,
\* movie-upload-service.js:420).
AllOrNothing ==
  [][/\ \A u \in Uploads : alone.who = u => UploadOutcome(u)
     /\ \A d \in Deletes : alone.who = d => DeleteOutcome(d)]_vars

\* The check that nothing else meets leaves every row available exactly when its
\* video is there, whatever happened to disk and rows before it.
CheckHeals ==
  [][FinishCheck /\ alone.who = Checker =>
       \A i \in Rows : Exists(i) => (rows[i].status = "available" <=> FileAt(rows[i].ext))]_vars

\* Il pulsante Elimina rimuove il contenuto dal catalogo e cancella la relativa
\* cartella dalla libreria: once a deletion was answered with success, the folder
\* does not hold the film it deleted.
DeletedIsGone ==
  \A d \in Deletes : deletes[d].phase = "ok" => folder # rows[deletes[d].row].by

\* Se un file registrato non e' raggiungibile, il catalogo puo' mostrarlo come non
\* disponibile finche' non torna accessibile: with no check running, a film whose
\* own copy is in its folder is not shown as unavailable.
ReachableIsShown ==
  check.phase = "idle" =>
    \A i \in Rows : rows[i].status = "offline" => folder # rows[i].by
=============================================================================
