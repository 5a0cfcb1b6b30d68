------------------------------ MODULE LibraryServer ------------------------------
(* One server process from its start to its end (src/src/server.js), over the       *)
(* database it finds: the backup and the migrations that run when database.js is    *)
(* loaded, the check of the library's disk, the pairing of database and library,    *)
(* listening, the daily backup timer, the shutdown. Beside it the operator, who     *)
(* mounts and unmounts the disk, and runs the offline migration tool, which opens   *)
(* the same database from a process of its own.                                     *)
(*                                                                                  *)
(* Everything database.js does is synchronous, but a transaction is all another     *)
(* process, or a stop, can see: one action for each.                                *)
EXTENDS CatalogUpgrade

CONSTANTS
  Databases,      \* the databases a start may find
  OnDisk,         \* the places whose file is in our library
  MaxFaults,      \* bound: stops, failed writes and changes of the mounted disk
  MaxWrites       \* bound: bookmarks people save

ASSUME UpgradeAssumption ==
  /\ OnDisk \subseteq Places
  /\ MaxFaults \in Nat /\ MaxWrites \in Nat
  /\ \A d \in Databases : OfItsVersion(d)

VARIABLES
  db,             \* what is committed
  original,       \* the database of the first start; no code reads it
  snapshots,      \* copies made before a migration, by the start or by the tool
  phase,          \* where the server process is
  todo,           \* the next migration of the start
  mounted,        \* the library on the configured path: "ours", "other" or "none"
  available,      \* what this start found of the disk
  identity,       \* the identity the database is paired with, or None
  marker,         \* the identity in each library's marker file, or None
  broken,         \* a pairing was cut short; no code reads it
  request,        \* a request in progress: "none" or "open"
  timer,          \* the daily backup: "unset", "armed" or "running"
  tool,           \* the tool: "idle", "analysed", "saved" or "applied"
  failure,        \* why the last start failed: "none", "rows", "identity", "other"
  faults, writes

vars == <<db, original, snapshots, phase, todo, mounted, available, identity, marker,
          broken, request, timer, tool, failure, faults, writes>>
disk == <<mounted, marker, broken>>
life == <<request, timer>>
counts == <<faults, writes>>

Libraries == {"ours", "other"}
None == 0         \* no identity
Foreign == 9      \* the identity of a library of another installation
Phases == {"down", "backup", "upgrade", "storage", "identity", "marked", "unmark",
           "listen", "up", "closing"}

Init ==
  /\ db \in Databases /\ original = db /\ snapshots = {}
  /\ phase = "down" /\ todo = 11
  /\ mounted \in {"ours", "none"} /\ available = FALSE
  /\ IF db.version = Target
     THEN \* the database of an installation that runs, or of one just made
          /\ identity \in {None, 1}
          /\ marker \in [ours : {identity}, other : {None, Foreign}]
     ELSE identity = None /\ marker = [ours |-> None, other |-> None]
  /\ broken = FALSE
  /\ request = "none" /\ timer = "unset" /\ tool = "idle"
  /\ failure = "none" /\ faults = 0 /\ writes = 0

Fault == faults < MaxFaults /\ faults' = faults + 1

(* bootstrap's catch: the database is closed and the process ends.                  *)
EndStart(why) ==
  phase' = "down" /\ failure' = why /\ UNCHANGED <<db, original, life, tool>>

-----------------------------------------------------------------------------------
(* database.js.                                                                     *)
Start ==
  /\ phase = "down"
  /\ phase' = "backup" /\ failure' = "none"
  /\ UNCHANGED <<db, original, snapshots, todo, disk, available, identity, life, tool, counts>>

\* Mutant: the copy is made for the last format only.
SnapshotForOldest == db.version < 11 /\ HasCatalog(db)

(* createPreMigrationBackup.                                                        *)
SnapshotNeeded == db.version < Target /\ HasCatalog(db)

PreMigrationBackup ==
  /\ phase = "backup"
  /\ snapshots' = IF SnapshotNeeded THEN snapshots \cup {Catalog(db)} ELSE snapshots
  /\ phase' = "upgrade" /\ todo' = 11
  /\ UNCHANGED <<db, original, disk, available, identity, life, tool, failure, counts>>

BackupFails ==
  /\ phase = "backup" /\ SnapshotNeeded /\ Fault
  /\ EndStart("other")
  /\ UNCHANGED <<snapshots, todo, disk, available, identity, writes>>

Seen == IF mounted = "ours" THEN OnDisk ELSE {}

(* One migration, committed or refused by the rows it finds.                        *)
Migrate ==
  /\ phase = "upgrade" /\ todo <= Target
  /\ LET after == Migrated(db, todo, Seen)
     IN  IF after = Failed
         THEN EndStart("rows") /\ UNCHANGED todo
         ELSE /\ db' = after /\ todo' = todo + 1
              /\ UNCHANGED <<original, phase, failure, life, tool>>
  /\ UNCHANGED <<snapshots, disk, available, identity, counts>>

SetVersion ==
  /\ phase = "upgrade" /\ todo > Target
  /\ LET after == Versioned(db)
     IN  IF after = Failed THEN EndStart("rows")
         ELSE db' = after /\ phase' = "storage" /\ UNCHANGED <<original, failure, life, tool>>
  /\ UNCHANGED <<snapshots, todo, disk, available, identity, counts>>

-----------------------------------------------------------------------------------
(* startServer.                                                                     *)
InitializeStorage ==
  /\ phase = "storage"
  /\ available' = (mounted # "none")
  /\ phase' = IF mounted # "none" THEN "identity" ELSE "listen"
  /\ UNCHANGED <<db, original, snapshots, todo, disk, identity, life, tool, failure, counts>>

\* Mutant: a marker of another library is not compared with the row.
AnyMarkerWillDo == marker[mounted] # None

Matches == marker[mounted] = identity

(* crypto.randomUUID.                                                               *)
NewIdentity == 1 + Max({None, identity} \cup ({marker[l] : l \in Libraries} \ {Foreign}))

(* ensureLibraryIdentity, as far as the marker of a new pairing.                    *)
EnsureIdentity ==
  /\ phase = "identity" /\ mounted # "none"
  /\ UNCHANGED <<snapshots, todo, mounted, broken, available, identity, counts>>
  /\ \/ /\ identity # None /\ Matches
        /\ phase' = "listen" /\ UNCHANGED <<db, original, marker, life, tool, failure>>
     \/ /\ IF identity # None THEN ~Matches ELSE marker[mounted] # None
        /\ EndStart("identity") /\ UNCHANGED marker
     \/ /\ identity = None /\ marker[mounted] = None
        /\ marker' = [marker EXCEPT ![mounted] = NewIdentity]
        /\ phase' = "marked" /\ UNCHANGED <<db, original, life, tool, failure>>

(* A disk that has gone since its check: the marker cannot be read or written.      *)
IdentityUnreadable ==
  /\ phase = "identity" /\ mounted = "none"
  /\ EndStart("other")
  /\ UNCHANGED <<snapshots, todo, disk, available, identity, counts>>

InsertIdentity ==
  /\ phase = "marked"
  /\ identity' = marker[mounted] /\ phase' = "listen"
  /\ UNCHANGED <<db, original, snapshots, todo, disk, available, life, tool, failure, counts>>

InsertIdentityFails ==
  /\ phase = "marked" /\ Fault
  /\ phase' = "unmark"
  /\ UNCHANGED <<db, original, snapshots, todo, disk, available, identity, life, tool, failure,
                 writes>>

\* Mutant: the failed pairing leaves its marker.
StillMarked == marker

Unmarked == [marker EXCEPT ![mounted] = None]

RemoveMarker ==
  /\ phase = "unmark"
  /\ marker' = Unmarked
  /\ EndStart("other")
  /\ UNCHANGED <<snapshots, todo, mounted, broken, available, identity, counts>>

(* The error of the removal is swallowed.                                           *)
MarkerStays ==
  /\ phase = "unmark" /\ Fault
  /\ broken' = TRUE
  /\ EndStart("other")
  /\ UNCHANGED <<snapshots, todo, mounted, marker, available, identity, writes>>

Listen ==
  /\ phase = "listen"
  /\ phase' = "up" /\ timer' = "armed"
  /\ UNCHANGED <<db, original, snapshots, todo, disk, available, identity, request, tool,
                 failure, counts>>

PortTaken ==
  /\ phase = "listen" /\ Fault
  /\ EndStart("other")
  /\ UNCHANGED <<snapshots, todo, disk, available, identity, writes>>

-----------------------------------------------------------------------------------
(* The running server.                                                              *)
Request ==
  /\ phase = "up" /\ request = "none"
  /\ request' = "open"
  /\ UNCHANGED <<db, original, snapshots, phase, todo, disk, available, identity, timer, tool,
                 failure, counts>>

(* A reader's bookmark, the later the more have been saved.                         *)
SaveBookmark ==
  /\ request = "open" /\ writes < MaxWrites
  /\ \E i \in DOMAIN db.readings, r \in Readers :
       /\ db' = [db EXCEPT !.readings[i].mark[r] = 10 + writes]
       /\ original' = [original EXCEPT !.readings = [j \in DOMAIN @ |->
            IF RowPath(@[j]) = RowPath(db.readings[i])
            THEN [@[j] EXCEPT !.mark[r] = 10 + writes] ELSE @[j]]]
  /\ writes' = writes + 1 /\ request' = "none"
  /\ UNCHANGED <<snapshots, phase, todo, disk, available, identity, timer, tool, failure, faults>>

Respond ==
  /\ request = "open" /\ request' = "none"
  /\ UNCHANGED <<db, original, snapshots, phase, todo, disk, available, identity, timer, tool,
                 failure, counts>>

(* scheduleDailyBackups: the timer's callback, which sets the next timer whatever   *)
(* became of the backup.                                                            *)
BackupDue ==
  /\ phase \in {"up", "closing"} /\ timer = "armed"
  /\ timer' = "running"
  /\ UNCHANGED <<db, original, snapshots, phase, todo, disk, available, identity, request,
                 tool, failure, counts>>

\* Mutant: only a backup that worked sets the next timer.
RescheduledIf(worked) == IF worked THEN "armed" ELSE "unset"

Rescheduled(worked) == "armed"

BackupDone ==
  /\ timer = "running" /\ timer' = Rescheduled(TRUE)
  /\ UNCHANGED <<db, original, snapshots, phase, todo, disk, available, identity, request,
                 tool, failure, counts>>

ScheduledBackupFails ==
  /\ timer = "running" /\ Fault /\ timer' = Rescheduled(FALSE)
  /\ UNCHANGED <<db, original, snapshots, phase, todo, disk, available, identity, request,
                 tool, failure, writes>>

(* The first signal. server.close takes no more connections.                        *)
Signal ==
  /\ phase = "up" /\ phase' = "closing"
  /\ UNCHANGED <<db, original, snapshots, todo, disk, available, identity, life, tool, failure,
                 counts>>

(* finish: server.close has called back, no connection being left; or its time is   *)
(* up, the connections are closed and the request with them.                        *)
Over == phase' = "down" /\ request' = "none" /\ timer' = "unset"
Closed ==
  /\ phase = "closing" /\ request = "none" /\ Over
  /\ UNCHANGED <<db, original, snapshots, todo, disk, available, identity, tool, failure, counts>>

\* Mutant: the timeout waits for the last connection too.
WaitForConnections == request = "none"

CloseAllConnections == TRUE

CloseTimeout ==
  /\ phase = "closing" /\ CloseAllConnections /\ Over
  /\ UNCHANGED <<db, original, snapshots, todo, disk, available, identity, tool, failure, counts>>

(* The process is killed, or the machine goes down. SQLite rolls back what was not  *)
(* committed.                                                                       *)
Stop ==
  /\ phase # "down" /\ Fault /\ Over
  /\ broken' = (broken \/ phase \in {"marked", "unmark"})
  /\ UNCHANGED <<db, original, snapshots, todo, mounted, marker, available, identity, tool,
                 failure, writes>>

-----------------------------------------------------------------------------------
(* scripts/storage-migrate.js --apply, once. The database may change between the    *)
(* backup and the lock; what is applied comes from a second analysis, under it.     *)
ToolAnalyses ==
  /\ tool = "idle" /\ CanApply(db) /\ HasChanges(db) /\ mounted # "none"
  /\ tool' = "analysed"
  /\ UNCHANGED <<db, original, snapshots, phase, todo, disk, available, identity, life, failure,
                 counts>>

ToolBacksUp ==
  /\ tool = "analysed"
  /\ snapshots' = snapshots \cup {Catalog(db)} /\ tool' = "saved"
  /\ UNCHANGED <<db, original, phase, todo, disk, available, identity, life, failure, counts>>

(* BEGIN IMMEDIATE, the analysis, the changes and their verification, COMMIT.       *)
ToolApplies ==
  /\ tool = "saved"
  /\ IF mounted # "none" /\ CanApply(db) /\ ~HasChanges(Applied(db)) /\ CanApply(Applied(db))
     THEN db' = Applied(db) /\ tool' = "applied"
     ELSE tool' = "idle" /\ UNCHANGED db
  /\ UNCHANGED <<original, snapshots, phase, todo, disk, available, identity, life, failure,
                 counts>>

ToolStops ==
  /\ tool \in {"analysed", "saved"} /\ Fault /\ tool' = "idle"
  /\ UNCHANGED <<db, original, snapshots, phase, todo, disk, available, identity, life, failure,
                 writes>>

(* The disk is taken away, comes back, or another is mounted in its place. Between  *)
(* the reading of its marker and the first request it stays.                        *)
Mount ==
  /\ Fault
  /\ mounted' \in ({"none"} \cup Libraries) \ {mounted}
  /\ phase \in {"down", "storage", "identity", "up"}
  /\ UNCHANGED <<db, original, snapshots, phase, todo, marker, broken, available, identity, life,
                 tool, failure, writes>>

Next ==
  \/ Start \/ PreMigrationBackup \/ BackupFails \/ Migrate \/ SetVersion
  \/ InitializeStorage \/ EnsureIdentity \/ IdentityUnreadable
  \/ InsertIdentity \/ InsertIdentityFails \/ RemoveMarker \/ MarkerStays
  \/ Listen \/ PortTaken
  \/ Request \/ SaveBookmark \/ Respond
  \/ BackupDue \/ BackupDone \/ ScheduledBackupFails
  \/ Signal \/ Closed \/ CloseTimeout \/ Stop
  \/ ToolAnalyses \/ ToolBacksUp \/ ToolApplies \/ ToolStops
  \/ Mount
(* Fairness only for what the process does by itself: the end of a backup, and the  *)
(* closing, whose timer fires. Nobody has to send a signal, answer a request or     *)
(* start the server again.                                                          *)
Spec ==
  /\ Init /\ [][Next]_vars
  /\ WF_vars(BackupDone) /\ WF_vars(Closed \/ CloseTimeout)

-----------------------------------------------------------------------------------
TypeOK ==
  /\ db.version \in {original.version, Target}
  /\ phase \in Phases /\ todo \in 11..(Target + 1)
  /\ mounted \in Libraries \cup {"none"} /\ available \in BOOLEAN /\ broken \in BOOLEAN
  /\ {identity} \cup {marker[l] : l \in Libraries} \subseteq 0..Foreign
  /\ request \in {"none", "open"} /\ timer \in {"unset", "armed", "running"}
  /\ tool \in {"idle", "analysed", "saved", "applied"}
  /\ failure \in {"none", "rows", "identity", "other"}
  /\ faults \in 0..MaxFaults /\ writes \in 0..MaxWrites

(* Whatever start, stop, repeated migration or run of the tool the database goes    *)
(* through, every file keeps the latest bookmark, the favourite, the listening      *)
(* count and the playlist place its rows had between them, and its album's artists  *)
(* (database.js:590-838).                                                           *)
ShelfKept == Shelf(db) = Shelf(original)

(* A database at the target version has no legacy path and one row for each file,   *)
(* and every profile that owned rows has its account, names are distinct, and the   *)
(* paired device belongs to the account of its profile, wherever the starts before  *)
(* were stopped (database.js:882-937, account-service.js:315-442, 662-743,          *)
(* pairing-service.js:91-179).                                                      *)
PathsTold == \A t \in Tables : Told(db[t])
AccountsTold ==
  /\ original.profiles \cup DOMAIN original.accounts \subseteq DOMAIN db.accounts
  /\ Named(db.accounts)
  /\ db.device.account =
       IF original.device.account # Nobody \/ original.version >= 15
       THEN original.device.account ELSE original.device.profile
VersionTells == db.version = Target => PathsTold /\ AccountsTold

(* Before a path of the catalogue is rewritten or a row merged away, a copy of the  *)
(* database as it was has been made, by the start or by the tool, though they may   *)
(* run at the same time (database.js:52-67, storage-migration-service.js:787).      *)
OriginalKept == Catalog(db) # Catalog(original) => Catalog(original) \in snapshots

(* The migrations end a start only for rows they say they cannot map: repeating     *)
(* them after a stop, and the names and duplicates they meet, never do.             *)
RefusedOnlyUnmappable == failure = "rows" => Unmappable(original)

(* After the tool has been applied no start fails for the rows: what the tool       *)
(* accepts, the migrations accept.                                                  *)
ToolUnblocks ==
  [][tool = "applied" /\ failure' = "rows" => failure = "rows"]_vars

(* A server that starts with its disk there serves the library its database is      *)
(* paired with (library-identity-service.js:154-156).                               *)
RightLibrary ==
  [][phase = "listen" /\ phase' = "up" /\ available
       => identity # None /\ marker[mounted] = identity]_vars

(* A library with a marker that no database knows, which blocks every later start,  *)
(* is left only by a stop within the pairing or a removal that failed too           *)
(* (library-identity-service.js:195-205).                                           *)
HalfPairedOnlyIfBroken ==
  phase \notin {"marked", "unmark"} /\ ~broken =>
    \A l \in Libraries : marker[l] \in {None, Foreign, identity}

(* A shutdown ends, also with a request that never answers.                         *)
ShutdownEnds == phase = "closing" ~> phase = "down"

(* A server that stays up always has its next backup ahead, also after one failed.  *)
BackupsGoOn == phase = "up" /\ timer # "armed" ~> timer = "armed" \/ phase # "up"
===================================================================================
