---------------------------- MODULE MusicUpload ----------------------------
(***************************************************************************)
(* Uploading music: the page (public/js/music-upload-manager.js), the      *)
(* sessions of the server (music-upload-session-service.js), the import of *)
(* a track into the library (music-import-service.js).                     *)
(*                                                                         *)
(* A session is a directory with the audio files and a manifest, replaced  *)
(* by two renames.  Requests about one session take turns in a queue of    *)
(* promises (withSessionLock); imports of all sessions take turns in       *)
(* another (withMusicMetadataEditLock), which also serves edits, scans and *)
(* deletions of music (module MusicLibrary).  Every action is the code     *)
(* between two awaits.  An answer may be lost while its handler runs on,   *)
(* the process may stop, and what is older than a day is swept at a start. *)
(***************************************************************************)
EXTENDS Naturals, Sequences

CONSTANTS
  Tracks,    \* audio files the users upload
  Places,    \* paths of the library a track's tags may give it
  Sessions,  \* identifiers of sessions
  Requests,  \* handlers that may be in flight at once
  Pages,     \* upload pages
  None,      \* no session, no track, no tags, no request, no page
  MaxFaults  \* bound on faults of the disk and stops of the process

ASSUME ConstantsAssumption ==
  /\ None \notin Tracks \cup Places \cup Sessions \cup Requests \cup Pages
  /\ Sessions \cap (Places \cup {"outside", "incoming", "gone"}) = {}
  /\ Places \cap {"outside", "incoming", "gone", "away", "waiting", "discarded"} = {}
  /\ MaxFaults \in Nat

VARIABLES
  spot,      \* spot[t]: where the audio of t is
  aside,     \* tracks whose file is under the name of its backup
  tags,      \* tags[t]: the place the tags of t give it, None if incomplete
  rows,      \* rows[p]: the track of the row of music_tracks with path p
  sessions,  \* sessions[s]: the directory of s and its manifest
  stale,     \* sessions untouched for a day at the last start
  requests,  \* requests[r]: a handler in flight
  queue,     \* queue[s]: sessionQueues, the requests that hold or await s
  edits,     \* editQueue: the commits that hold or await the library
  pages,     \* pages[c]: the state of page c
  faults,    \* how many faults there have been
  hurt       \* history: sessions that met a fault or a stop

disk == <<spot, aside, tags, rows, sessions, stale>>
vars == <<disk, requests, queue, edits, pages, faults, hurt>>

Manifest == [pending : SUBSET Tracks, imported : SUBSET Tracks]
Blank == [pending |-> {}, imported |-> {}]

\* unlisted: the directory exists without a manifest.
Directory == [dir : {"new", "listed", "unlisted", "absent"}, manifest : Manifest]

Answers == {"ok", "complete", "refused"}
Phases == {"idle", "received", "moved", "queued", "write", "install",
           "edit", "move", "index", "undo", "record", "list"} \cup Answers

\* read is the manifest as the handler read it, ready the answer's tracks with
\* complete tags, batch the tracks of an upload.
Request == [op : {"none", "create", "tags", "commit", "cancel"},
            phase : Phases,
            page : Pages \cup {None},
            session : Sessions \cup {None},
            track : Tracks \cup {None},
            tag : Places \cup {None},
            batch : SUBSET Tracks,
            read : Manifest,
            ready : SUBSET Tracks]

Idle == [op |-> "none", phase |-> "idle", page |-> None, session |-> None,
         track |-> None, tag |-> None, batch |-> {}, read |-> Blank, ready |-> {}]

Page == [session : Sessions \cup {None},
         pending : SUBSET Tracks,
         ready : SUBSET Tracks,
         batch : SUBSET Tracks,
         request : Requests \cup {None}]

FreshPage == [session |-> None, pending |-> {}, ready |-> {}, batch |-> {},
              request |-> None]

TypeOK ==
  /\ spot \in [Tracks -> {"outside", "incoming", "gone"} \cup Sessions \cup Places]
  /\ aside \subseteq Tracks
  /\ tags \in [Tracks -> Places \cup {None}]
  /\ rows \in [Places -> Tracks \cup {None}]
  /\ sessions \in [Sessions -> Directory]
  /\ stale \subseteq Sessions
  /\ requests \in [Requests -> Request]
  /\ queue \in [Sessions -> Seq(Requests)]
  /\ edits \in Seq(Requests)
  /\ pages \in [Pages -> Page]
  /\ \A c \in Pages : pages[c].ready \subseteq pages[c].pending
  /\ faults \in 0..MaxFaults
  /\ hurt \subseteq Sessions

Init ==
  /\ spot = [t \in Tracks |-> "outside"]
  /\ aside = {}
  /\ tags \in [Tracks -> Places \cup {None}]
  /\ rows = [p \in Places |-> None]
  /\ sessions = [s \in Sessions |-> [dir |-> "new", manifest |-> Blank]]
  /\ stale = {}
  /\ requests = [r \in Requests |-> Idle]
  /\ queue = [s \in Sessions |-> <<>>]
  /\ edits = <<>>
  /\ pages = [c \in Pages |-> FreshPage]
  /\ faults = 0
  /\ hurt = {}

-----------------------------------------------------------------------------
(* The page. *)

Busy(c) == pages[c].request # None \/ pages[c].batch # {}

\* Names of handlers and sessions mean nothing: which free one is taken is fixed.
NextHandler == CHOOSE r \in Requests : requests[r] = Idle
NextSession == CHOOSE s \in Sessions : sessions[s].dir = "new"

Send(c, r, request) ==
  /\ requests[r] = Idle /\ r = NextHandler
  /\ requests' = [requests EXCEPT ![r] = [request EXCEPT !.page = c]]
  /\ pages' = [pages EXCEPT ![c].request = r]

\* A request about the page's session takes its place in the session's queue
\* (withSessionLock).
Ask(c, r, op, t, p) ==
  LET s == pages[c].session IN
  /\ s # None
  /\ Send(c, r, [Idle EXCEPT !.op = op, !.phase = "queued", !.session = s,
                             !.track = t, !.tag = p])
  /\ queue' = [queue EXCEPT ![s] = Append(@, r)]
  /\ UNCHANGED <<disk, edits, faults, hurt>>

\* Files are chosen and sent; the server receives them into its upload folder.
PageUpload(c, r, T) ==
  /\ ~Busy(c)
  /\ pages[c].session = None
  /\ T # {}
  /\ \A t \in T : spot[t] = "outside"
  /\ Send(c, r, [Idle EXCEPT !.op = "create", !.phase = "received", !.batch = T])
  /\ spot' = [t \in Tracks |-> IF t \in T THEN "incoming" ELSE spot[t]]
  /\ UNCHANGED <<aside, tags, rows, sessions, stale, queue, edits, faults, hurt>>

PageSaveTags(c, r, t, p) ==
  /\ ~Busy(c)
  /\ t \in pages[c].pending
  /\ Ask(c, r, "tags", t, p)

\* One ready track, or all of them, are going to be imported.
PageImport(c, T) ==
  /\ ~Busy(c)
  /\ T # {}
  /\ \/ T = pages[c].ready
     \/ \E t \in pages[c].ready : T = {t}
  /\ pages' = [pages EXCEPT ![c].batch = T]
  /\ UNCHANGED <<disk, requests, queue, edits, faults, hurt>>

\* The next track of the batch.
PageCommit(c, r, t) ==
  /\ pages[c].request = None
  /\ t \in pages[c].batch
  /\ Ask(c, r, "commit", t, None)

PageCancel(c, r) ==
  /\ ~Busy(c)
  /\ Ask(c, r, "cancel", None, None)

\* What the page makes of the answer to its request r.
AfterAnswer(page, r) ==
  LET q == requests[r] IN
  IF q.phase = "refused" THEN [page EXCEPT !.request = None, !.batch = {}]
  ELSE IF q.phase = "complete" \/ q.op = "cancel" THEN FreshPage
  ELSE IF q.op = "create"
    THEN [FreshPage EXCEPT !.session = q.session, !.pending = q.batch, !.ready = q.ready]
  ELSE IF q.op = "tags"
    THEN [page EXCEPT !.request = None, !.ready = (@ \ {q.track}) \cup q.ready]
  ELSE [page EXCEPT !.request = None, !.pending = @ \ {q.track},
                    !.ready = @ \ {q.track}, !.batch = @ \ {q.track}]

Deliver(r) ==
  /\ requests[r].phase \in Answers
  /\ requests' = [requests EXCEPT ![r] = Idle]
  /\ pages' = [pages EXCEPT ![requests[r].page] = AfterAnswer(@, r)]
  /\ UNCHANGED <<disk, queue, edits, faults, hurt>>

Unheard(q) == IF q.phase \in Answers THEN Idle ELSE [q EXCEPT !.page = None]

\* The connection breaks: the page sees an error, the handler runs on.
LoseAnswer(c) ==
  /\ pages[c].request # None
  /\ requests' = [requests EXCEPT ![pages[c].request] = Unheard(@)]
  /\ pages' = [pages EXCEPT ![c].request = None, ![c].batch = {}]
  /\ UNCHANGED <<disk, queue, edits, faults, hurt>>

\* The page is closed or loaded again: what it knew is lost.
PageReload(c) ==
  /\ pages[c] # FreshPage
  /\ pages' = [pages EXCEPT ![c] = FreshPage]
  /\ requests' = [r \in Requests |->
                   IF requests[r].page = c THEN Unheard(requests[r]) ELSE requests[r]]
  /\ UNCHANGED <<disk, queue, edits, faults, hurt>>

-----------------------------------------------------------------------------
(* Creating a session. *)

GoTo(r, phase) == requests' = [requests EXCEPT ![r].phase = phase]

\* The handler ends; its answer goes to the page that still waits, or nowhere.
Reply(r, answer, ready) ==
  requests' = [requests EXCEPT ![r] =
    IF @.page = None THEN Idle
    ELSE [@ EXCEPT !.phase = answer, !.ready = ready, !.tag = None, !.read = Blank]]

\* mkdir, then every file is renamed into the directory.
MoveIntoSession(r, s) ==
  /\ requests[r].op = "create" /\ requests[r].phase = "received"
  /\ sessions[s].dir = "new" /\ s = NextSession
  /\ sessions' = [sessions EXCEPT ![s].dir = "unlisted"]
  /\ spot' = [t \in Tracks |-> IF t \in requests[r].batch THEN s ELSE spot[t]]
  /\ requests' = [requests EXCEPT ![r].phase = "moved", ![r].session = s]
  /\ UNCHANGED <<aside, tags, rows, stale, queue, edits, pages, faults, hurt>>

\* The first manifest is written and the session answered with its tags.
PublishSession(r) ==
  LET s == requests[r].session
      T == requests[r].batch
  IN
  /\ requests[r].op = "create" /\ requests[r].phase = "moved"
  /\ sessions' = [sessions EXCEPT ![s] =
                   [dir |-> "listed", manifest |-> [pending |-> T, imported |-> {}]]]
  /\ Reply(r, "ok", {t \in T : tags[t] # None})
  /\ UNCHANGED <<spot, aside, tags, rows, stale, queue, edits, pages, faults, hurt>>

\* An unreadable file, or the disk: directory and received files are removed.
CreateFails(r) ==
  /\ requests[r].op = "create"
  /\ requests[r].phase \in {"received", "moved"}
  /\ spot' = [t \in Tracks |-> IF t \in requests[r].batch THEN "gone" ELSE spot[t]]
  /\ sessions' = IF requests[r].session = None THEN sessions
                 ELSE [sessions EXCEPT ![requests[r].session].dir = "absent"]
  /\ Reply(r, "refused", {})
  /\ UNCHANGED <<aside, tags, rows, stale, queue, edits, pages, faults, hurt>>

-----------------------------------------------------------------------------
(* Requests about a session, one at a time. *)

\* Mutant: requests of a session do not wait for each other.
AnyTurn(r) == queue[requests[r].session] # <<>>

MyTurn(r) ==
  /\ queue[requests[r].session] # <<>>
  /\ Head(queue[requests[r].session]) = r

LeaveSession(r) == queue' = [queue EXCEPT ![requests[r].session] = Tail(@)]

\* Mutant: a failed operation keeps the lock.
AnswerHoldsOn(r, answer) ==
  /\ Reply(r, answer, {})
  /\ IF answer = "refused" THEN UNCHANGED queue ELSE LeaveSession(r)

\* The operation ends, well or badly, and the next one of the session may start.
Answer(r, answer) == Reply(r, answer, {}) /\ LeaveSession(r)

\* readOwnedManifest and findTrack (pendingOnly).
MayProceed(r) ==
  LET directory == sessions[requests[r].session] IN
  /\ directory.dir = "listed"
  /\ requests[r].op = "cancel" \/ requests[r].track \in directory.manifest.pending

FirstPhase == [tags |-> "write", commit |-> "edit", cancel |-> "record"]

ReadManifest(r) ==
  /\ requests[r].phase = "queued"
  /\ MyTurn(r)
  /\ MayProceed(r)
  /\ requests' = [requests EXCEPT
                   ![r].phase = FirstPhase[requests[r].op],
                   ![r].read = sessions[requests[r].session].manifest]
  /\ edits' = IF requests[r].op = "commit" THEN Append(edits, r) ELSE edits
  /\ UNCHANGED <<disk, queue, pages, faults, hurt>>

\* 404 or 409: no such session, no such track, or a track already imported.
RefuseRequest(r) ==
  /\ requests[r].phase = "queued"
  /\ MyTurn(r)
  /\ ~MayProceed(r)
  /\ Answer(r, "refused")
  /\ UNCHANGED <<disk, edits, pages, faults, hurt>>

FileThere(r) ==
  /\ spot[requests[r].track] = requests[r].session
  /\ requests[r].track \notin aside

Touch(r) == stale' = stale \ {requests[r].session}

\* Tags: a copy is edited and verified, then the file moves to its backup name.
SetAside(r) ==
  /\ requests[r].phase = "write"
  /\ FileThere(r)
  /\ aside' = aside \cup {requests[r].track}
  /\ Touch(r)
  /\ GoTo(r, "install")
  /\ UNCHANGED <<spot, tags, rows, sessions, queue, edits, pages, faults, hurt>>

\* The file is missing, or its tags are invalid: nothing has changed.
RefuseTags(r) ==
  /\ requests[r].phase = "write"
  /\ Answer(r, "refused")
  /\ UNCHANGED <<disk, edits, pages, faults, hurt>>

InstallTagged(r) ==
  /\ requests[r].phase = "install"
  /\ aside' = aside \ {requests[r].track}
  /\ tags' = [tags EXCEPT ![requests[r].track] = requests[r].tag]
  /\ GoTo(r, "record")
  /\ UNCHANGED <<spot, rows, sessions, stale, queue, edits, pages, faults, hurt>>

\* The rename fails and the backup goes back.
InstallTaggedFails(r) ==
  /\ requests[r].phase = "install"
  /\ faults < MaxFaults
  /\ faults' = faults + 1
  /\ aside' = aside \ {requests[r].track}
  /\ Answer(r, "refused")
  /\ UNCHANGED <<spot, tags, rows, sessions, stale, edits, pages, hurt>>
-----------------------------------------------------------------------------
(* Importing a track, under the lock of the library. *)

LibraryTurn(r) == edits # <<>> /\ Head(edits) = r

PlaceTaken(p) == \E t \in Tracks : spot[t] = p

\* Mutant: the destination is not looked at.
ImportableAnywhere(r) == FileThere(r) /\ tags[requests[r].track] # None

\* assertUploadSource, buildMusicStoragePlan and pathExists.
Importable(r) ==
  LET p == tags[requests[r].track] IN FileThere(r) /\ p # None /\ ~PlaceTaken(p)

CheckImport(r) ==
  /\ requests[r].phase = "edit"
  /\ LibraryTurn(r)
  /\ Importable(r)
  /\ requests' = [requests EXCEPT ![r].phase = "move", ![r].tag = tags[requests[r].track]]
  /\ UNCHANGED <<disk, queue, edits, pages, faults, hurt>>

RefuseImport(r) ==
  /\ requests[r].phase = "edit"
  /\ LibraryTurn(r)
  /\ ~Importable(r)
  /\ Answer(r, "refused")
  /\ edits' = Tail(edits)
  /\ UNCHANGED <<disk, pages, faults, hurt>>

\* fs.rename, which would replace whatever the destination holds.
MovedTo(t, p) ==
  [u \in Tracks |-> IF u = t THEN p ELSE IF spot[u] = p THEN "gone" ELSE spot[u]]

MoveIntoLibrary(r) ==
  /\ requests[r].phase = "move"
  /\ FileThere(r)
  /\ spot' = MovedTo(requests[r].track, requests[r].tag)
  /\ Touch(r)
  /\ GoTo(r, "index")
  /\ UNCHANGED <<aside, tags, rows, sessions, queue, edits, pages, faults, hurt>>

\* The session has been swept since, or the disk refuses the rename.
MoveFails(r) ==
  /\ requests[r].phase = "move"
  /\ IF FileThere(r) THEN faults < MaxFaults /\ faults' = faults + 1
                     ELSE UNCHANGED faults
  /\ Answer(r, "refused")
  /\ edits' = Tail(edits)
  /\ UNCHANGED <<disk, pages, hurt>>

\* saveMusicTrackIndex commits, and the lock of the library is free.
IndexTrack(r) ==
  /\ requests[r].phase = "index"
  /\ rows' = [rows EXCEPT ![requests[r].tag] = requests[r].track]
  /\ edits' = Tail(edits)
  /\ GoTo(r, "record")
  /\ UNCHANGED <<spot, aside, tags, sessions, stale, queue, pages, faults, hurt>>

\* An album of another title or artist owns the folder, or SQLite fails.
IndexFails(r) ==
  /\ requests[r].phase = "index"
  /\ GoTo(r, "undo")
  /\ UNCHANGED <<disk, queue, edits, pages, faults, hurt>>

\* The file moves back to the session.
UndoMove(r) ==
  /\ requests[r].phase = "undo"
  /\ spot' = [spot EXCEPT ![requests[r].track] = requests[r].session]
  /\ edits' = Tail(edits)
  /\ Answer(r, "refused")
  /\ UNCHANGED <<aside, tags, rows, sessions, stale, pages, faults, hurt>>

\* It does not: the file stays in the library without a row (contentPreserved).
UndoFails(r) ==
  /\ requests[r].phase = "undo"
  /\ faults < MaxFaults
  /\ faults' = faults + 1
  /\ hurt' = hurt \cup {requests[r].session}
  /\ edits' = Tail(edits)
  /\ Answer(r, "refused")
  /\ UNCHANGED <<disk, pages>>

-----------------------------------------------------------------------------
(* The manifest after a change, the end of a session. *)

\* Mutant: any operation finalises its track.
FinalManifest(r) ==
  LET q == requests[r] IN
  [pending |-> q.read.pending \ {q.track}, imported |-> q.read.imported \cup {q.track}]

NewManifest(r) ==
  LET q == requests[r] IN
  IF q.op = "commit"
    THEN [pending |-> q.read.pending \ {q.track}, imported |-> q.read.imported \cup {q.track}]
    ELSE q.read

LastTrack(r) ==
  \/ requests[r].op = "cancel"
  \/ requests[r].op = "commit" /\ NewManifest(r).pending = {}

\* fs.rm of the directory, recursive.
RemoveDirectory(s) ==
  /\ sessions' = [sessions EXCEPT ![s] = [dir |-> "absent", manifest |-> Blank]]
  /\ spot' = [t \in Tracks |-> IF spot[t] = s THEN "gone" ELSE spot[t]]
  /\ aside' = {t \in aside : spot[t] # s}
  /\ stale' = stale \ {s}

CloseSession(r) ==
  /\ requests[r].phase = "record"
  /\ LastTrack(r)
  /\ RemoveDirectory(requests[r].session)
  /\ Answer(r, IF requests[r].op = "cancel" THEN "ok" ELSE "complete")
  /\ UNCHANGED <<tags, rows, edits, pages, faults, hurt>>

\* writeManifest: the old one moves to its backup name, if it is there ...
SwapManifest(r) ==
  /\ requests[r].phase = "record"
  /\ ~LastTrack(r)
  /\ sessions' = [sessions EXCEPT ![requests[r].session].dir = "unlisted"]
  /\ GoTo(r, "list")
  /\ UNCHANGED <<spot, aside, tags, rows, stale, queue, edits, pages, faults, hurt>>

\* ... and the new one takes its name.
InstallManifest(r) ==
  LET s == requests[r].session IN
  /\ requests[r].phase = "list"
  /\ sessions' = [sessions EXCEPT ![s] = [dir |-> "listed", manifest |-> NewManifest(r)]]
  /\ Reply(r, "ok", {t \in {requests[r].track} : tags[t] # None /\ spot[t] = s})
  /\ LeaveSession(r)
  /\ UNCHANGED <<spot, aside, tags, rows, stale, edits, pages, faults, hurt>>

\* A fault: the old manifest is back, and the caller hears of a failure.
RecordFails(r) ==
  /\ requests[r].phase \in {"record", "list"}
  /\ faults < MaxFaults
  /\ faults' = faults + 1
  /\ hurt' = hurt \cup {requests[r].session}
  /\ sessions' = IF requests[r].phase = "list"
                 THEN [sessions EXCEPT ![requests[r].session].dir = "listed"]
                 ELSE sessions
  /\ Answer(r, "refused")
  /\ UNCHANGED <<spot, aside, tags, rows, stale, edits, pages>>

-----------------------------------------------------------------------------
(* The process. *)

Occupied(s) == \E r \in Requests : requests[r] # Idle /\ requests[r].session = s

\* The process stops and starts again.  Received files without a session are
\* out of reach; sessions without a change for a day are going to be swept.
Restart(old) ==
  /\ faults < MaxFaults
  /\ faults' = faults + 1
  /\ hurt' = hurt \cup {s \in Sessions : Occupied(s)}
  /\ stale' = old
  /\ spot' = [t \in Tracks |-> IF spot[t] = "incoming" THEN "gone" ELSE spot[t]]
  /\ requests' = [r \in Requests |-> Idle]
  /\ queue' = [s \in Sessions |-> <<>>]
  /\ edits' = <<>>
  /\ pages' = [c \in Pages |-> [pages[c] EXCEPT !.request = None, !.batch = {}]]
  /\ UNCHANGED <<aside, tags, rows, sessions>>

\* cleanupStaleMusicUploadSessions and cleanupStaleUploads, without the lock.
Sweep(s) ==
  /\ s \in stale
  /\ RemoveDirectory(s)
  /\ UNCHANGED <<tags, rows, requests, queue, edits, pages, faults, hurt>>

-----------------------------------------------------------------------------

\* What the server does for r of its own accord.
Serve(r) ==
  \/ \E s \in Sessions : MoveIntoSession(r, s)
  \/ PublishSession(r) \/ CreateFails(r)
  \/ ReadManifest(r) \/ RefuseRequest(r)
  \/ SetAside(r) \/ RefuseTags(r) \/ InstallTagged(r) \/ InstallTaggedFails(r)
  \/ CheckImport(r) \/ RefuseImport(r) \/ MoveIntoLibrary(r) \/ MoveFails(r)
  \/ IndexTrack(r) \/ IndexFails(r) \/ UndoMove(r) \/ UndoFails(r)
  \/ CloseSession(r) \/ SwapManifest(r) \/ InstallManifest(r) \/ RecordFails(r)
  \/ Deliver(r)

UsePage(c) ==
  \/ \E r \in Requests, T \in SUBSET Tracks : PageUpload(c, r, T)
  \/ \E r \in Requests, t \in Tracks :
       \/ \E p \in Places \cup {None} : PageSaveTags(c, r, t, p)
       \/ PageCommit(c, r, t)
  \/ \E T \in SUBSET Tracks : PageImport(c, T)
  \/ \E r \in Requests : PageCancel(c, r)
  \/ LoseAnswer(c)
  \/ PageReload(c)

Next ==
  \/ \E r \in Requests : Serve(r)
  \/ \E c \in Pages : UsePage(c)
  \/ \E old \in SUBSET {s \in Sessions : sessions[s].dir \in {"listed", "unlisted"}} :
       Restart(old)
  \/ \E s \in Sessions : Sweep(s)

Spec == Init /\ [][Next]_vars

-----------------------------------------------------------------------------
(* Properties. *)

\* A manifest lists what its session holds, at every moment and after any fault:
\* audio in the directory is pending in a manifest that can be read, and a track
\* listed as imported has its row.
ManifestSound ==
  \A s \in Sessions : sessions[s].dir = "listed" =>
    /\ {t \in Tracks : spot[t] = s} \subseteq sessions[s].manifest.pending
    /\ \A t \in sessions[s].manifest.imported : \E p \in Places : rows[p] = t

\* Between two operations the manifest of a session that met no fault is exact:
\* every pending track is there to be edited or imported (the read-modify-write
\* of commitMusicUploadTrack loses no other one's).
ManifestExact ==
  \A s \in Sessions \ hurt :
    sessions[s].dir = "listed" /\ queue[s] = <<>> =>
      sessions[s].manifest.pending = {t \in Tracks : spot[t] = s /\ t \notin aside}

\* A lock is always passed on, and the two never wait for each other: who holds a
\* session can go on unless it waits for the library, and who holds the library
\* can go on (withSessionLock, withMusicMetadataEditLock; a failed operation too).
LocksPassOn ==
  /\ edits # <<>> => ENABLED Serve(Head(edits))
  /\ \A s \in Sessions : queue[s] # <<>> =>
       \/ ENABLED Serve(Head(queue[s]))
       \/ \E i \in DOMAIN edits : edits[i] = Head(queue[s])

\* Sessions, faults and stops never overwrite, lose or move a track of the
\* library, and nothing enters it twice: the module implements TrackFate.
fate == [t \in Tracks |->
          IF \E p \in Places : rows[p] = t /\ spot[t] = p THEN spot[t]
          ELSE IF \E p \in Places : rows[p] = t THEN "discarded"
          ELSE IF spot[t] \in Sessions \cup Places THEN "waiting"
          ELSE IF spot[t] = "gone" THEN "discarded" ELSE "away"]

Fate == INSTANCE TrackFate
FateKept == Fate!Spec
=============================================================================
