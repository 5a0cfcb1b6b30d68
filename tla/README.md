# Baia Cinghiala in TLA+

Baia Cinghiala is a home media server: films, series, music, books and comics of one
household, served to its own devices. This directory holds TLA+ modules translated from its
source, the TLC configurations that check them on small instances, and theorems about them
that TLAPS proves for every instance. Paths below are relative to the repository.

## The system

The server is one Node process (`src/server.js`, Express, `node:sqlite`, everything
synchronous but the file system, scrypt and image and tag processing) that listens on
loopback only. The Host Connector (`host-connector/`, Rust) is the one exposed process; it ends
TLS 1.3, checks grants and device proofs and forwards an allow-listed subset of requests. The
native client (`src-tauri/`, Rust) holds the key of a device and signs its requests; the pages
of `public/` run in it or in the browser of the server's own machine. `relay/` is a fallback
transport. Three more processes open the database: `src/pairing-admin.js`,
`src/scan-once.js` and `scripts/storage-migrate.js`.

| component | state | operations | interaction | what is hard | what makes it correct |
| --- | --- | --- | --- | --- | --- |
| Accounts and sessions (`account-*-service.js`, `routes/auth.js`, `routes/admin-accounts.js`, `middleware/account-*.js`) | rows of `accounts`, the binding columns of `paired_devices` | login, logout, change of one's password, create, update, reset, disconnect devices, delete | every request of a device resolves its binding; the admin's browser acts as an admin without a device | four handlers await scrypt between reading and writing; one clears bindings outside the transaction | an admin is always left; a session lives only as long as the password and standing it was opened under |
| Pairing and device authentication (`pairing-service.js`, `device-auth-service.js`) | `pairing_invites`, `paired_devices`, the replay cache in memory | create, redeem, revoke an invite; revoke a device; verify a signed request or a media URL | runs before accounts on every request; the command line writes the same tables | duplicated and delayed requests, the clock, restarts, two processes | one request acts once; invites are temporary, single-use and revocable |
| Film uploads and availability (`movie-upload-service.js`, `library-reconciliation-service.js`) | the folder of a film, rows of `movies`, a staging directory | upload (new, or of a film that went missing), check at startup | meet in one folder and one set of rows, without a lock | disk and database are two stores changed one after the other, with awaits between | all or nothing; the catalogue agrees with the disk |
| Deletion (`content-delete-service.js`) | `.baia-delete-staging`, the rows of a title | delete a film, a series, a reading, an album | takes the folder from under every other operation; albums take the music lock | rename, transaction, rename back or removal | what is deleted is gone, what is refused is back |
| Series and readings (`series-upload-service.js`, `reading-upload-service.js`) | the folder of a title, its document, rows of `series`, `movies`, `reading_items` | create, add episodes, with rollback | same folder as edits and deletion | overlapping uploads, partial rollback | an episode's row shows its video; a request alone is all or nothing |
| Metadata of films, series, readings (`content-`, `series-`, `reading-metadata-service.js`, `routes/metadata-editor.js`) | `metadata.json` and its previous version, posters, rows | edit, renumber an episode | same folder as uploads and deletion | several renames, each of which may fail or be the last before a stop | document and row change together; the document can always be read |
| Music uploads and import (`music-upload-session-service.js`, `music-import-service.js`, `public/js/music-upload-manager.js`) | sessions on disk (manifest and tracks), two queues of promises, the page | create, edit tags, commit, cancel, sweep | commit moves a file into the library and indexes it | a stop between two renames, commit against cancel, the sweep without the lock | a track is imported once or still pending; what is in the library stays |
| Music in the library (`music-*-edit-service.js`, `music-library-scan-service.js`, `music-tag-service.js`) | tags in files, places, rows of tracks and albums | edit a track or an album, scan, delete an album, availability check | one queue of edits, which the check does not take | staged replacement of many files and rows, undone when one step fails | files and rows change together; no recording is lost |
| Startup, identity, storage (`server.js`, `library-identity-service.js`, `library-storage-service.js`) | the marker file on the disk, the row of `library_identity`, the process's own phases | start, pair, listen, stop | refuses a library that is not the database's | a stop between marker and row, an exchanged disk | the database is never used with another library |
| Migrations of the database (`database.js`, `account-service.js`, `pairing-service.js`) | every row of an older database | eight migrations at each start, one transaction each | run before the server listens, with a copy made before | repeated after a stop; merging rows of one file | nothing people own is lost; the version tells the truth |
| Offline migration tool (`storage-migration-service.js`, `scripts/storage-migrate.js`) | the same rows, its backup | analyse, back up, apply | may run beside a server | the database changes between its steps | the original is kept; after it a start succeeds |
| Backups (`database-backup-service.js`, `server.js`) | snapshots, one timer | daily and monthly snapshot, retention | scheduled by the server | coalesced requests, failures | the next backup is always ahead |
| Shutdown and HTTP timeouts (`server.js`, `http-timeouts.js`) | the server socket, timers | signal, deadline, idle timeout | uploads relax the deadline | a request that never answers | a shutdown ends |
| Player and listening (`public/js/app-shell.js`, `music-player-state.js`, `music-listening-state.js`, `music-listening-service.js`) | the queue, the audio element, a listening, reports on their way; sessions and history on the server | play, select, move, remove, modes, next, previous; reports; sign in and out | reports are for the account the device has when they arrive | awaits between a click and its effect, answers late or lost, accounts that change | a listening counts once; what plays is the current track |
| Playlists and the music page (`music-playlist-service.js`, `public/js/music.js`) | playlists and positions; what the page shows | create, rename, delete, add, remove, reorder; browse, search | other devices and the scan change the same tables | answers out of order, tracks that vanish | a playlist is a sequence; the search shows what is asked |
| Catalogue and streaming (`routes/*.js`, filters, home pages) | none of their own | queries, ranges | - | - | read only |
| Connector, relay, native client, the other pages | connections, grants, tokens, download state | see `docs/ARCHITECTURE.md` | TLS and HTTP between them | lifetimes of connections, timeouts, retries | not modelled, see below |

`PROJECT.json` lists the hazards of this code line by line, with the properties that cover them,
or why none does.

## Modules

### AccountSessions (with AccountRights above it)

`accounts`, `devices` and `requests` are the tables and the handlers in flight. JavaScript without
an `await` is one step (the body is parsed before authentication, so checking the caller
and running a synchronous handler is one step as well). Handlers that await scrypt are split
where they await: `StartLogin` / `CompleteLogin` / `RejectLogin`, and the same for a change of
password, a reset and a creation; `requests[r]` holds what the handler read before. Everything else may
run in between. `UpdateManagedAccountCut` is the process stopping between the commit of
`updateAccount` and `clearAccountDeviceBindings`, which the code runs outside that transaction;
`Restart` loses handlers and keeps the tables. Initially the tables are what the migration
of the old profiles leaves: one admin without a password and devices bound to it.

A password hash is the password it verifies; hashes of one password differ by their salt, but no
hash is written without raising `auth_version`, compared wherever hashes are. Usernames, times
and the rate limiter of logins are left out. `proof[d]` is history: the password shown
to open the binding of device `d`.

`AccountRights` is what the component promises: an account has a standing (status, role,
sections, password), a device has a session or not. A session is opened on an account whose
standing is usable; a change of standing ends all sessions of the account except, when the owner
changes the password, the one that did it. `RightsKept` is the refinement, with
`standing` and `session` computed from the rows.

### DeviceTrust

`invites`, `pairedDevices` (by public key, as a key has at most one row), `cache` (the replay cache) and
`clock`. The requests the devices will ever sign are fixed in `Init`, with any timestamp, and
`AcceptRequest` or `RefuseReplay` may happen to each at any time and any number of times: this is a network
that delays, reorders, duplicates and loses. `StepBack` sets the host's clock back; `RestartServer`
empties the cache. `accepted`, `replayed` and `steppedBack` are history since the last start.
The server and the command line are not told apart: each operation is one statement or
one `BEGIN IMMEDIATE` transaction. The time compared is that of the step; in the code it is
read just before the transaction, which may wait up to five seconds for the lock.

### MovieLibrary

One title and year, hence one folder: `folder` is the copy in it, `Bare` (a folder
without a video) or `NoDir`. `rows` are the rows of `movies` with that title and year; the only
part of their path that varies is the extension. An upload is the code of
`createMovieFromUpload` cut at its awaits: the queries, the stat of an active duplicate, staging,
the look at the final folder, the rename that displaces a stale one, the rename into place, the
verification, the row. Calls in a row that only look (access, then readdir) are one action, since what
counts is what the last one saw. A deletion is `withStagedDirectoryDeletion` cut the same way. The
check reads all rows, then stats and updates one at a time. Errors are outcomes of
the steps that can raise them and count as faults when nothing in the model causes them: before anything has moved
(`FailEarly`, `FailEarlyDelete`), at each rename and transaction, at the stat of the installed film, and in the recovery
itself, whose rename back may be refused (`Undo`, silently; `RestoreFolder`, with `DELETE_ROLLBACK_FAILED`). So
`AllOrNothing` names three half-way outcomes: `contentPreserved`; a film in its folder without a row, when the stat
after the rename failed; and, after a second fault, a folder that stays where it had been set aside.
`Crash` drops every request in flight, with what is in the two staging directories, as nothing in the
code looks there afterwards. `alone` is history: the request that started with nothing else in flight and has
met nothing since, with the folder and rows it found.

Rows are named for the copy whose upload inserted them, and `by` (history) for the copy they were
last written for. Films with the same title and another year, which an upload may also reuse,
are left out.

### TitleLibrary

What `MovieLibrary` leaves out of a title: one film, series or reading (`kind`), its `folder` with
`metadata.json` (`doc`), the previous version (`prev`), the files each request has staged or moved aside,
and the videos by number; its row (`title`, the version of the metadata in it) and the rows of its
episodes. A document is named for the request that wrote it, and so is a video. Each request of
an administrator is made once: `BeginUpload` (episodes for a series of the catalogue),
`BeginCreateSeries`, `BeginCreateReading`, `BeginEdit`, `BeginRenumber`, `BeginDelete` are the
checks before the first await, and the actions after them the renames and transactions in the order of the
code, with the branch each takes when it fails. A film's edit keeps what it moved aside until the end
(`stageFileReplacement`), those of series and readings do not, and `PutBack` says what each puts back.
`Read` is what a reader of the library is shown: only the document of a series is looked for under its previous name
too. Undoing may meet a fault of its own: each rename of it may fail (`Undos`), a renumbered video or a deleted folder
may stay where it was moved (`RenameBackFails`, `BackFails`, which end in `broken`), and `RowTorn` is the edit whose `ROLLBACK`
throws, as `BEGIN` stands inside the `try`: the document is not undone and stays over the old row.
`Stop` drops the requests at work and leaves everything on disk as it is. A renumbering or a deletion stopped between its move and its
rows is then `caught`: the row names a path that is gone, and no later start looks for the video. `EpisodesKept` does not excuse
this: it says that the video is then at the number it was being given, or in what the deletion staged, and nowhere worse.
`overlapped` and `contested` are history: the requests that met another, and the episodes two requests were about at once
(also one that ended with a video still moved), with the
numbers those are given later. Contested episodes are left out of `EpisodesKept`, so it does not speak of two uploads of one episode.
`since` is the number of troubles there were when a request was made; a second one may meet the undoing of the first, and
`AloneIsAtomic` promises a refused request has left no trace only when none has. Posters follow the document they belong to and an
episode's document its video, so they are left out, but the faults of their moves are not.

### MusicUpload (with TrackFate above it)

The upload page, the sessions and the import of one track. A session is a directory (`dir`: listed
when its manifest can be read, unlisted between the two renames that replace it) and a manifest. `queue[s]`
is `withSessionLock`, a queue of promises, and `edits` is `withMusicMetadataEditLock`. A request
reads the manifest when its turn comes, works on files (`SetAside`, `InstallTagged`,
`MoveIntoLibrary`, `IndexTrack`, `UndoMove`), writes the manifest (`SwapManifest`, `InstallManifest`) or removes the
directory (`CloseSession`). A lost answer leaves its handler running; a closed
page forgets its session; `Restart` forgets handlers and queues; `Sweep` removes what is a day
old, without the lock. The tags of a track are the place they give it, and tracks may share a place.

`TrackFate` is what uploading promises: a track is away, waiting, in the library at one place, or discarded, and
in the library it stays. `FateKept` is the refinement; `fate` computes it from files and rows, so that
a file in the library without its row still waits.

### MusicLibrary

What happens to music after its import, under the same lock: `queue` is that lock, `job` the operation
that holds it. A file is its recording and the place its tags give it. Edits move all originals
aside, then install all copies, then change the rows in one transaction; what fails is undone in the
opposite order, and each step of the undoing may fail as well. The names an album's edit gives its files are free in the model:
the code builds them from the number, disc and title in each file's tags, which may have been changed by hand, and from the totals the edit
sets, so two files may be sent to one name (refused before anything moves) or take each other's. The rows are updated one by one
under a unique path: `InTurn` is what an order of the updates must respect, and two files that exchange their names
are moved, then refused by the catalogue and moved back. The scan looks at one file at a time, trusts a row
whose size and time (`stat`) are those of the file, and marks rows whose file has vanished. The
deletion of an album stages the directory. The availability check runs beside them without the
lock. `ByHand` is the user changing the library outside the program, between operations or during a scan but not
while an edit or a deletion is at work, whose all-or-nothing could not survive it. `gone` is history: what was
never there, removed by somebody, or lost with an answer that says so; `clean` is too in a scan, where a fault, a change by hand or a
check clears it, and is the rollback's own flag in an edit. `Init` is a library in order with a row for each file
and an album for each directory, as many as `Rows` and `Albums` allow.

### CatalogUpgrade and LibraryServer

`CatalogUpgrade` has no state: one operator for each migration of `database.js` and of the services it calls, and
those of the offline tool. A stored path is the place it names and whether it is absolute. The
operators return the database after the migration, or `Failed`, the exception that ends the start.
`Migrated` gives each its version; as only the last statement of the file sets `user_version`, a
start that was stopped repeats them on rows they have already changed.
Its last part says what a table holds and which databases a start may find (`OfItsVersion`): those a program of that version
has left, deleted accounts included.

`LibraryServer` is one process from start to end over such a database, one action per transaction:
`PreMigrationBackup`, `Migrate`, `SetVersion`, then `InitializeStorage`, the pairing
(`EnsureIdentity`, `InsertIdentity`, `RemoveMarker` when the row is refused), `Listen`; requests that write bookmarks;
the backup timer; `Signal`, `Closed`, `CloseTimeout`. `Stop` is the process killed at any
point, `Mount` the operator who takes the disk away or mounts another one, and the actions `Tool...` are
`storage-migrate.js --apply`, which may run beside the server and is applied at most once. `original` is history: the
database of the first start, with the bookmarks saved since.

### PlayQueue and MusicPlayer

`PlayQueue` has one operator for each function of `createPlayerState`: queue, play order,
position, mode. `MusicPlayer` is the shell around it: the audio element, the media URL being authorized
(`load`), the current listening, the chain of reports (`musicListeningRequestChain`), the page shown (`blocked` when it is one
without music), the account shown and the one the server has the device bound to. `Report.then`
is what an awaited report goes on with: stop, play the next, or clear. `Serve` is
`recordMusicListening` in its transaction, `Answered` what the page does with the answer, and
`RequestLost` the loss of either. The position in a track is left out: a listening has lasted long
enough to count or not, and `TimeUpdate` is the moment it does.

### MusicPlaylists (with PlaylistOrder above it)

`names` and `pos` are the tables, with the positions as they are stored: an addition takes the greatest plus
one, a removal closes the gaps, a track deleted from the library leaves one. `requests` are those the page has sent,
served in any order and answered in any order; what follows an answer (opening the
playlist just created, adding the track it was created for) is a new request. The page shows a section, a playlist's view or
the results of a search; of a catalogue only the section is told, of results only the query. The search `field` and the
search made of it are apart: `Type` changes the field and sets `timer`, and 220 ms later `SearchFor` asks for what the field
holds by then (or `EndSearch` ends the search, when that is too short). In between the page goes on taking the answer to the
query before, so results of one query may appear under the text of another, or under an emptied field. `SearchShowsLast`
says exactly how much is promised: what comes to be shown answers the last query made, and that is what the field holds
unless the timer is still to fire.
`PlaylistOrder` is what playlists promise: sequences of distinct tracks. `KeepsLists` is the refinement.

## Runs

| run | instance | what it shows |
| --- | --- | --- |
| `sessions_races` | 2 accounts, 1 device, 2 passwords, 1 section, 2 handlers in flight, versions up to 3 | `ActiveAdminRemains`, `SessionsProveCurrentPassword` |
| `sessions_devices` | 2 accounts, 2 devices, 2 passwords, 1 section, 1 handler, versions up to 3 | `TypeOK`, and the refinement `RightsKept` |
| `device_trust` | 2 keys, 2 invites, 2 requests, window 1, lifetimes 1 and 2, clock up to 3 | `TrustTypeOK`, `AcceptedOnce`, `InviteAdmitsOne`, `AdmissionSpendsInvite` |
| `movie_library` | 2 uploads, 1 deletion, the check, 2 extensions, 2 faults | `TypeOK`, `AllOrNothing`, `CheckHeals` |
| `title_library` | 2 requests of any kind on a film, a series of 2 episodes or a reading, 2 troubles | `EpisodesKept`, `DocumentSurvives`, `AloneIsAtomic` |
| `music_upload` | 2 tracks that may share the one place, 2 sessions, 2 handlers, 1 page, 1 fault | `ManifestSound`, `ManifestExact`, `LocksPassOn`, and the refinement `FateKept` |
| `music_library` | 2 directories of 3 names, 2 recordings, 3 rows, 2 albums, 2 requests, 1 trouble | `EditsAreAtomic`, `NothingLost`, `ScanHeals` |
| `library_server` | databases of the versions with work left and an up-to-date one, two rows per table on 2 places, 2 readers, 2 faults, 1 bookmark | `ShelfKept`, `VersionTells`, `OriginalKept`, `RefusedOnlyUnmappable`, `HalfPairedOnlyIfBroken`, `ToolUnblocks`, `RightLibrary`, and the liveness properties `ShutdownEnds`, `BackupsGoOn` |
| `music_player` | 2 tracks, 2 accounts, 2 listenings, 2 reports waiting, 1 trouble | `TypeOK`, `PlaysCounted`, `AudioFollowsShell`, `QualifiedIsCounted` |
| `music_playlists` | 3 tracks, 2 playlists, 2 names, 2 queries, 3 sections, 2 clicks, 1 trouble | `AddedIsThere`, `CatalogMatchesMode`, `SearchShowsLast`, and the refinement `KeepsLists` |
| `movie_double_delete` | 1 upload, 2 deletions, no faults | violates `DeletedIsGone` |
| `movie_stale_check` | 1 upload, the check, no faults | violates `ReachableIsShown` |

Why the bounds suffice. Every race of `AccountSessions` is between one handler that awaits and the
changes made during the await, on one account; a second handler in flight covers two
awaits that overlap, a second account the admin who changes the first, a second device the
session that must end when another one stays. A version bound of 3 allows a change after a change. In `DeviceTrust`
a request matters only relative to one other (the one whose arrival cleans the cache) and a device relative
to one other with the same invite; a clock up to 3 passes the window of a timestamp on both sides.
In `MovieLibrary` two uploads and a deletion meet with the check between any two of their steps, and
two faults allow a film to vanish and come back, or a fault during the repair of another (a film whose video is
gone is among the initial states, so that an upload that displaces its folder has both left). In `TitleLibrary` two
requests meet at every pair of their steps, over an episode in common or not, with two faults or stops, so that a
fault can meet the undoing of another or a request come after a stop. In `MusicUpload` two sessions contend for one place and two
requests for one session. In `MusicLibrary` three names let a file of an album take the place another gives up, two of them exchange
their places, and two go to one; one trouble is a fault, a stop or a check at any step, or a change by hand between edits and deletions; `RestoreFails` needs two and is reached because
a trouble of the first step of the undoing is a refusal by the catalogue (`Collision`), which is no fault. In `LibraryServer` two rows
meet in every way the merging tells apart, and two faults allow a stop in a start and one in the start after it, or a removal
of the marker that fails after the row did. In `MusicPlayer` a listening has one before it, and a report one in front. In
`MusicPlaylists` two requests may cross, and each may lead to another. The constants named `Max...` are the only bounds
that cut behaviours, and they stand in guards of the modules; at one trouble the player never
has an answer of `/api/auth/me` cross a logout.

Devices, passwords, handlers, invites, nonces, extensions, tracks, accounts, queries, recordings, directories and names of files are symmetric sets
where a cfg says so: no step tells their members apart. Deadlock is checked, but for the runs whose requests are
bounded and may all be over: `title_library`, `music_library`, `music_upload`, `music_player` and `music_playlists`.
`music_upload` states instead that a lock is always passed on (`LocksPassOn`, by `ENABLED`).
`MusicUpload`, `MusicLibrary`, `TitleLibrary` and `LibraryServer` each define `TypeOK` as a description of their variables;
their runs spend their time on the other properties.

### Fairness

Only `LibraryServer` assumes any: weak fairness of `BackupDone`, since a backup that runs ends, and of
`Closed \/ CloseTimeout`, since the callback of `server.close` or the timer of `server.js:72` runs
in the end. Nobody has to send a signal, answer a request, start the server again or repair a disk. Under it a
shutdown ends with a request that never answers, and a server that stays up comes to have its next
backup set, also after one that failed. Elsewhere handlers end by an answer of their own accord, and
users and networks owe nothing.

### What the two violations show

`DeletedIsGone`. `docs/GUIDA-UTENTE.md:277`: the button Elimina removes the content from the catalogue
and deletes its folder. Two deletions of one film: the first has renamed the folder to
`.baia-delete-staging` but its continuation has not run; the second finds the
folder missing, deletes the row and answers success; the first then finds no row and puts the
folder back. The window is that between the rename on the volume and the first handler's
transaction, so it takes a rename whose completion reaches Node after the second handler's lstat (a thread
of the pool delayed, or a network volume); nothing in the code excludes it. The film is then on disk and in no row, and a new upload of it is refused.

`ReachableIsShown`. `docs/GUIDA-UTENTE.md:312`: a file that cannot be reached may be shown as unavailable until it is
accessible again. The check reads every path first and updates by id later, one film at a time,
while the server already serves requests. A film uploaded again meanwhile is marked offline from what the check saw before,
with its file in place, until the next check.

## Proofs

| theorem | module | statement |
| --- | --- | --- |
| `TypeCorrect` | AccessProofs | `Spec => []TypeOK` |
| `SessionsFresh` | AccessProofs | `Spec => []SessionsProveCurrentPassword` |
| `AdminRemains` | AccessProofs | `Spec => []ActiveAdminRemains` |
| `RightsImplemented` | AccessProofs | `Spec => RightsKept` |
| `TrustTypeCorrect` | AccessProofs | `TrustSpec => []TrustTypeOK` |
| `NoReplay` | AccessProofs | `TrustSpec => []AcceptedOnce` |
| `InviteIsSingleUse` | AccessProofs | `TrustSpec => []InviteAdmitsOne` |
| `AdmissionIsInvited` | AccessProofs | `TrustSpec => AdmissionSpendsInvite` |
| `TypeCorrect` | MovieLibraryProofs | `Spec => []TypeOK` |
| `RequestsAreAtomic` | MovieLibraryProofs | `Spec => AllOrNothing` |
| `CheckRepairs` | MovieLibraryProofs | `Spec => CheckHeals` |
| `TypeCorrect` | TitleLibraryProofs | `Spec => []TypeOK` |
| `EpisodesStay` | TitleLibraryProofs | `Spec => []EpisodesKept` |
| `DocumentStays` | TitleLibraryProofs | `Spec => []DocumentSurvives` |
| `AloneAtomic` | TitleLibraryProofs | `Spec => AloneIsAtomic` |
| `RightLibraryServed` | LibraryServerProofs | `Spec => RightLibrary` |
| `PairedUnlessBroken` | LibraryServerProofs | `Spec => []HalfPairedOnlyIfBroken` |
| `NothingOwnedLost` | LibraryServerProofs | `Spec => []ShelfKept` |
| `VersionIsTrue` | LibraryServerProofs | `Spec => []VersionTells` |
| `CopyIsThere` | LibraryServerProofs | `Spec => []OriginalKept` |
| `RefusedForCause` | LibraryServerProofs | `Spec => []RefusedOnlyUnmappable` |
| `AppliedIsAccepted` | LibraryServerProofs | `Spec => ToolUnblocks` |
| `SectionMatches` | MusicPlaylistsProofs | `Spec => []CatalogMatchesMode` |
| `SearchIsLast` | MusicPlaylistsProofs | `Spec => SearchShowsLast` |
| `AddedThere` | MusicPlaylistsProofs | `Spec => []AddedIsThere` |
| `ListsImplemented` | MusicPlaylistsProofs | `Spec => KeepsLists` |
| `TypeCorrect` | MusicUploadProofs | `Spec => []TypeOK` |
| `ManifestsSound` | MusicUploadProofs | `Spec => []ManifestSound` |
| `ManifestsExact` | MusicUploadProofs | `Spec => []ManifestExact` |
| `NobodyForgotten` | MusicUploadProofs | `Spec => []NoneForgotten` |
| `LocksPassed` | MusicUploadProofs | `Spec => []LocksMove` |
| `FateImplemented` | MusicUploadProofs | `Spec => FateKept` |
| `TypeCorrect` | MusicPlayerProofs | `Spec => []TypeOK` |
| `PlaysAreCounted` | MusicPlayerProofs | `Spec => []PlaysCounted` |
| `AudioFollows` | MusicPlayerProofs | `Spec => []AudioFollowsShell` |
| `QualifiedAreCounted` | MusicPlayerProofs | `Spec => []QualifiedIsCounted` |
| `TypeCorrect` | MusicLibraryProofs | `Spec => []TypeOK` |
| `AtomicEdits` | MusicLibraryProofs | `Spec => []EditsAreAtomic` |
| `NothingIsLost` | MusicLibraryProofs | `Spec => []NothingLost` |
| `ScansHeal` | MusicLibraryProofs | `Spec => []ScanHeals` |

The only assumptions are those on the constants, named in the modules that
declare them, and evaluated by TLC in the runs. `AccessProofs` holds the proofs of two modules, each about the variables of its
own; their common ground is who is let in.

AccountSessions. `SessionsProveCurrentPassword` speaks of sessions in use only, and is not inductive: a binding
that is out of date could become current again. `Inv` adds that no binding is ahead of its account's `auth_version` and
that a binding level with it was opened with the current password (`BindingsSound`), and that a handler in flight remembers a
version not ahead of the account's (`RequestsSound`). Each write of a password raises the
version, so old bindings fall behind for good. `ActiveAdminRemains` follows from the guards: the actor of an
administrative change is an active admin other than the account that stops being one.
`RightsImplemented` maps initial states to initial states and every step, action by action, to
`Open`, `Close`, `Amend` or a stutter, under `Inv`.

DeviceTrust. `AcceptedOnce` is not inductive: what prevents a replay is what the cache remembers.
`CacheRemembers` says that for every nonce accepted, the cache holds an entry that lasts as long as its
window, or the window is over; setting the clock back is what breaks it. The other
two properties follow from `TrustTypeOK`, which says that the invite of a device is used.

MovieLibrary. That a copy is in one place is not inductive, since an upload installs one and the user may
put one back: `Unmade` says that the copy of an upload that has not installed it is nowhere, and that no row was
written for it. `AllOrNothing` and `CheckHeals` compare the end of a request with what it found at
its start. `Lonely` says that nothing is in flight but the request that is alone, `Unheld` that
only some phases have anything set aside, and `SoFar` what a request has done so far, phase by phase, to the folder and the rows it
found; for the check, that a row is still to be looked at, has just been seen or is right, and that no path has changed. Each
action then answers what `UploadOutcome` or `DeleteOutcome` asks, or carries `SoFar` on.

TitleLibrary. Requests on one title have no lock, so what must hold whatever meets is kept apart (`Basic`): the phases each kind of
request goes through, what it asks for, that only a deletion has the folder set aside, that a video has one row, and that a
request leaves nothing in the folder before it starts, by which what is later put back is its own. For every action a lemma
(`...Is`) says what it leaves of `Basic` and what it changes; the three properties rest on these lemmas, and none of them is
inductive:

- `EpisodesKept`, by `Episodic`. `Progress` says phase by phase where the video of a row is: in the folder, under the number
  it is being given, or in what a deletion set aside; a request that is over with a video still moved (`broken`, `caught`) counts as open.
  `Contention` says that two open requests on one episode have it contested.
  A first attempt at the proof failed at renumbering, and the property was false: two requests that overlap may leave
  the row of a contested episode wrong, and a third request, alone, carries row and video to a number nobody
  else was about. TLC, which is run with two requests, had not seen it. The history `contested` now follows such an
  episode to its new number (`Together`), and `Traced` says that the row a renumbering will find, by its video, is at the number it
  started from, unless both are contested.
- `DocumentSurvives`, by `DocumentKept`. While requests change a series one at a time, a request at rest leaves a readable document, and
  one at work has one under `metadata.json` or `metadata.previous.json` (`DocumentProgress`), or in what the deletion set aside: the
  previous version is in place before the current one is moved.
- `AloneIsAtomic`, by `Alone`. `SoFar` says for every phase what folder and rows are in terms of `before`, what the request found: which
  of the two documents is where, which episodes are in, what was renamed. The answer `ok` then is what was asked, and every branch that
  ends in `refused` undoes what `SoFar` says was done; `torn` is the document of `SoFar` over the row it found. `Counted` says that nothing is undone before a
  fault, so that a second one, which `SoFar` gives up on (`Spoiled`), is more than the property allows for. Nothing is asked of other requests: the one that is alone is not in
  `overlapped`, and by `Lonely` none is at work beside it.

LibraryServer. `Inv` says that from the moment the marker is written until the row is, or until the marker is removed,
the server is in the pairing with its disk in place, that it goes on to listen only with marker and row
compared, and that without a pairing cut short every marker is that of the database, foreign or absent. A new identity is none
of those there are (`NewIdentityIsOne`). Migrations, bookmarks and the tool change neither, which is one lemma.

The rows of LibraryServer. First what each operator of `CatalogUpgrade` makes of a database, whatever rows it has:
which columns it leaves, that rows keep to their tables, which paths it makes relative, that it merges the rows of one file and no
others, that the row kept is the best of its file (there is one, since the rows are finitely many and the order is total), and that it
leaves every file its shelf. From these lemmas `DataInv` is inductive, one part for each thing a stop must not break:

- `PathsInv`: the rows of a migration that is done, by the version or in this start, are as it left them; no later migration, tool or
  bookmark undoes it. `VersionTells` is this with every migration done, and `AccountsInv` and `DeviceInv`.
- `CopyInv`: a start that migrates has its copy, or the tool has made one, or there is nothing to copy; a tool that
  has saved had the catalogue unchanged before it, or found a copy there.
- `RefusalInv`: nothing makes a row that cannot be mapped, and the tool leaves none.
- `AccountsInv`: names are distinct, no name is in the way of a deleted account's until migration 17 has given it, and the
  migration after it gives nobody that name.
- `ShelfInv`: the shelves are those of the first start, and the bookmark saved now is later than all there are, so that
  it is the one kept if its row is merged.

These theorems assume `PlacesAssumption`, that readers are finitely many and `Elsewhere` is no place, and `UpgradeAssumption`, that
every database a first start may find is `OfItsVersion`: rows fit their tables, and a database of a version has been
through the migrations of that version. It includes what the schema does not say but the program keeps: an album
goes with its last track (content-delete-service.js:58-68, music-metadata-edit-service.js:152), tracks of one file are in albums of one folder
(music-import-service.js:389), and no account carries another's name for deleted accounts (`NamesFree`), where the code would
append a number.

MusicPlaylists. Rows are read by position, and positions have holes, so what an operation leaves is not to be seen from the rows it
writes. `OrderSorts` and `SortsIsOrder` say that `Order` is the one sequence that names the tracks by their positions: for
each operation it is then enough to find the sequence `PlaylistOrder` asks for sorted by the rows the operation leaves
(`InsertedLast`, `LeftInOrder`, `CompactInOrder`). The invariant `Stored` says that a playlist has a position of its own for
each of its tracks and no rows once it is deleted, that every playlist about to be made has an identity left
(`Room`), and what a request on its way names and an answer shows (`Sensible`); `AddedIsThere` is part of it, and
`ListsImplemented` maps each step under it to one of `PlaylistOrder` or a stutter. For the page, `Inv` strengthens
`CatalogMatchesMode` by what requests remember: the search that is still the last one carries the last query made,
what is fetched is a section, and the field holds that query unless the timer is set. `SearchShowsLast` follows, as only
the answer to the last search is shown.

MusicUpload. A sweep takes no lock, so between two steps of a handler its session may go; nor is `ManifestSound` inductive,
since a handler writes back the manifest it read some steps ago. `Inv` says where a handler can be and what it has there
(`Shaped`), whose turn it is (`SessionTurns`, `LibraryTurns`: who works is at the head of its queues), what disk and
database say of each other (`DiskSound`), what a handler at work may rely on (`AtWork`: once it has touched the session no
sweep takes it, before that the session is gone or as the handler read it, but for the track in its hand), and that
a session nobody works on is exact (`Rested`). Most steps are one handler's on one session: `OneStep` says that
they leave the rest alone, `AfterEnd` and `AfterGoOn` what is left to show of a handler that ends or goes on.
`FateImplemented` maps each step under `Inv` to an arrival, an import, a discarding or a stutter of `TrackFate`.
`LocksPassed` is `LocksPassOn` without `ENABLED`: `MayServe` says for each phase what the guards of its actions come to.
It needs that a lock is only ever held or awaited in a phase that can go on, and that nobody waits outside a queue
(`NoneForgotten`, inductive with `Inv`: a handler that joins is appended, and only the head ever leaves).

MusicPlayer. The operators of `PlayQueue` are proved one by one to turn a player into a player and to keep the track that plays
where the code means to. `Shell` adds to the shape of the page and to `AudioFollowsShell` that without an account the queue is
empty, and that a loaded track with an empty queue is about to be stopped. As far as listenings are concerned every action
comes down to a report that is queued or an end (`Talks`, `Ends`). `Counting` says over those
and the server's `Serve` that a session is of one track wherever it is named, the number of sessions opened and to be opened is
within its bound, and that an answer that calls a listening qualified is of a counted session; `PlaysCounted` and `QualifiedIsCounted` are
inductive only with these.

MusicLibrary. What an operation leaves can only be judged against what it found, so `Working` says phase by phase, in terms of
`before`, what disk and rows are. While an edit goes forward (`SoFar`) the copies installed are in place, originals set aside are
not, and nothing else has moved; while it is undone (`Back`) an original is back unless its return failed, which
the answer admits, and what stands in the place of one still aside is a copy, so that putting it back overwrites
nothing. A scan knows that every file is still to be looked at or seen and shown (`Scanning`), unless something disturbed it;
a deletion, what it has staged (`Deleting`). `Queued` ties the phase to the request at the head of the queue. What others do, asking,
checking and changes by hand, leaves the operation where it is (`OthersWork`). `EditsAreAtomic` and `ScanHeals` are what
`Ended` says; `NothingLost` is inductive with these.

Every other property of a passing run is the statement of a theorem. Out of the prover's reach, and checked by TLC alone: the liveness
properties `ShutdownEnds` and `BackupsGoOn`, and `LocksPassOn`, which says `ENABLED`
(what it comes to in terms of guards is the theorem `LocksPassed`).

## Not modelled

Of components that are modelled:

- AccountSessions: the limiter of logins, times, the HTTP form of requests.
- TitleLibrary: posters and the documents of episodes; the names of files. The availability check of series and readings,
  which is that of films.
- MusicUpload and MusicLibrary: covers, tag formats, artists; changes by hand while an edit or a deletion is at work.
- LibraryServer: a backup that would join one in flight (only the timer makes them); which of two rows of one file was changed last
  (`updated_at`) is told by their ids; the suffixes that make names distinct are left out but not that they are; the tool is applied
  at most once; the five seconds SQLite waits for a lock are no step; backups are not told apart, and none is deleted.
- MusicPlayer: the position in a track, completed listenings, the filter that keeps samples of a plausible length; the
  events of the audio element come at once; the cleaning of sessions after 45 days; a deleted track is a request
  that is lost; the report when a page is closed. The removal of the current track goes on without
  reporting a listening other than the one it awaited, which takes a third listening
  to be told apart.
- MusicPlaylists: covers and descriptions, the list of summaries, the views of albums and artists, the
  track a dialog holds while it is open, favourites.

Whole parts: `http-timeouts.js`, timers of single requests without a state they share; the pages of films, series and
readings and the library manager, which show what routes answer; catalogue queries, filters and streaming,
which change nothing; archives and tags as formats. The Connector, the relay and the native client are programs of their own in Rust.
They have protocols worth modelling, and come next.

## Plan

1. The relay's registry and connections, then the Connector's limits and grants and the client's upload
   tokens and updater, with a module that composes them on the path of one request.
2. The deadline of a request and the idle timeout of uploads; the limiter of logins.
