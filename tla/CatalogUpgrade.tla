------------------------------ MODULE CatalogUpgrade ------------------------------
(* What the rows of an older database become: one operator for each migration      *)
(* src/src/database.js runs when it is loaded, and the analysis and the rewriting   *)
(* of the offline tool scripts/storage-migrate.js.                                  *)
(*                                                                                  *)
(* A stored path is the file it names (a place of the library, or Elsewhere when it *)
(* names nothing of the row's own section) and the form it is stored in. A row      *)
(* keeps two of them, relative_path and the older file_path or directory_path.      *)
(* Other columns (dates, sizes, companions of a file) are left out, so that the     *)
(* last criterion of each choice of a survivor, the id, decides. Bookmarks are of   *)
(* Readers, each a time; favourites and listening counts of one profile, one        *)
(* playlist and one paired device stand for all, which are treated alike.           *)
EXTENDS Naturals, Sequences, FiniteSets, FiniteSetsExt, Functions

CONSTANTS Places, Readers

Elsewhere == "elsewhere"
Nobody == "nobody"
Target == 19

ASSUME PlacesAssumption == Elsewhere \notin Places /\ IsFiniteSet(Readers)

(* What is relative was made so, and names a file of the row's section.             *)
Stored == {p \in [form : {"relative", "absolute"}, place : Places \cup {Elsewhere}] :
             p.form = "relative" => p.place \in Places}
Relative(p) == [form |-> "relative", place |-> p]
Absolute(p) == [form |-> "absolute", place |-> p]

(* readingRelativePath, musicRelativePath: the relative column when it is relative, *)
(* else the part of either column from the section's folder on. Elsewhere when the  *)
(* code throws.                                                                     *)
RowPath(row) ==
  IF row.path.form = "absolute" /\ row.path.place = Elsewhere
  THEN row.old.place ELSE row.path.place

(* primaryRelativePath of the tool: the first of the two columns that names a file  *)
(* of the section, in whatever form.                                                *)
ToolPath(row) ==
  IF row.path.place = Elsewhere THEN row.old.place ELSE row.path.place

At(rows, p) == {i \in DOMAIN rows : RowPath(rows[i]) = p}
SamePlace(rows, i) == At(rows, RowPath(rows[i]))
Duplicates(rows) == \E i \in DOMAIN rows : SamePlace(rows, i) # {i}
InPlace(row, p) == [row EXCEPT !.path = Relative(p), !.old = Relative(p)]

-----------------------------------------------------------------------------------
(* The migrations. Each runs in a transaction of its own; Failed is the exception   *)
(* that ends the start.                                                             *)
Failed == [version |-> 0]

(* migrateVideoPathsToRelative: rejects an absolute relative_path; two rows of one  *)
(* file break the unique file_path.                                                 *)
VideoPaths(d) ==
  IF \/ \E i \in DOMAIN d.videos : d.videos[i].path.form = "absolute"
     \/ \E i, j \in DOMAIN d.videos : i # j /\ d.videos[i].path = d.videos[j].path
  THEN Failed
  ELSE [d EXCEPT !.videos = [i \in DOMAIN d.videos |->
                               InPlace(d.videos[i], d.videos[i].path.place)]]

(* migrateReadingPathsToRelative: also looks at the disk again, and notes which     *)
(* files are there.                                                                 *)
ReadingPaths(d, onDisk) ==
  IF \E i \in DOMAIN d.readings : RowPath(d.readings[i]) = Elsewhere
  THEN Failed
  ELSE [d EXCEPT !.readings = [i \in DOMAIN d.readings |->
         [InPlace(d.readings[i], RowPath(d.readings[i]))
            EXCEPT !.there = RowPath(d.readings[i]) \in onDisk]]]

(* The row that survives: one whose file is there, then the one with the latest     *)
(* bookmark, if any, then the newest.                                               *)
BetterReading(rows, i, j) ==
  LET Last(k) == Max({rows[k].mark[r] : r \in Readers} \cup {0})
  IN  \/ rows[i].there /\ ~rows[j].there
      \/ rows[i].there = rows[j].there /\ Last(i) > Last(j)
      \/ rows[i].there = rows[j].there /\ Last(i) = Last(j) /\ i >= j

\* Mutant: the bookmarks of the rows that go are deleted with them.
OwnMark(rows, i) == rows[i].mark

LatestMark(rows, i) ==
  [r \in Readers |-> Max({rows[j].mark[r] : j \in SamePlace(rows, i)})]

(* migrateReadingDuplicates: one row for each file, with the latest bookmark.       *)
ReadingDuplicates(d) ==
  LET rows == d.readings
      Survivors == {i \in DOMAIN rows :
                      \A j \in SamePlace(rows, i) : BetterReading(rows, i, j)}
  IN  [d EXCEPT !.readings = [i \in Survivors |->
         [rows[i] EXCEPT !.mark = LatestMark(rows, i)]]]

BetterTrack(rows, i, j) ==
  \/ rows[i].there /\ ~rows[j].there
  \/ rows[i].there = rows[j].there /\ i >= j

(* The first half of migrateMusicPathsToRelative: favourites, listening counts and  *)
(* playlist places of the other rows of a file go to the one that survives.         *)
MergedTracks(rows) ==
  LET Survivors == {i \in DOMAIN rows :
                      \A j \in SamePlace(rows, i) : BetterTrack(rows, i, j)}
  IN  [i \in Survivors |->
        [InPlace(rows[i], RowPath(rows[i])) EXCEPT
           !.liked = \E j \in SamePlace(rows, i) : rows[j].liked,
           !.plays = Max({rows[j].plays : j \in SamePlace(rows, i)}),
           !.listed = \E j \in SamePlace(rows, i) : rows[j].listed]]

(* The second half: the albums of one folder become one, with everybody's artists,  *)
(* and artists without a row go.                                                    *)
AlbumSurvivor(d, tracks, a) ==
  LET Of(b) == Cardinality({i \in DOMAIN tracks : tracks[i].album = b})
      group == SamePlace(d.albums, a)
  IN  CHOOSE s \in group : \A b \in group : Of(s) > Of(b) \/ (Of(s) = Of(b) /\ s >= b)

MusicPaths(d) ==
  IF \/ \E i \in DOMAIN d.tracks : RowPath(d.tracks[i]) = Elsewhere
     \/ \E a \in DOMAIN d.albums : RowPath(d.albums[a]) = Elsewhere
  THEN Failed
  ELSE LET tracks == MergedTracks(d.tracks)
           Home(a) == AlbumSurvivor(d, tracks, a)
           Kept == {Home(a) : a \in DOMAIN d.albums}
           Artists(a) == UNION {d.albums[b].artists : b \in SamePlace(d.albums, a)}
       IN  [d EXCEPT !.tracks = [i \in DOMAIN tracks |->
                                   [tracks[i] EXCEPT !.album = Home(tracks[i].album)]],
                     !.albums = [a \in Kept |->
                                   [InPlace(d.albums[a], RowPath(d.albums[a]))
                                      EXCEPT !.artists = Artists(a)]]]

(* migrateLegacyProfilesToAccounts: an account for every profile that owns rows,    *)
(* and for the default one; a device not bound yet is bound to its profile's.       *)
LegacyAccounts(d) ==
  LET new == (d.profiles \cup {"default"}) \ DOMAIN d.accounts
      keys == DOMAIN d.accounts \cup new
  IN  [d EXCEPT
        !.accounts = [k \in keys |->
           IF k \in new THEN [name |-> k, display |-> Nobody, deleted |-> FALSE]
           ELSE d.accounts[k]],
        !.device.account =
           IF d.device.account = Nobody /\ d.device.profile \in keys
           THEN d.device.profile ELSE d.device.account]

(* migratePairingSchemaToDeviceOnly: the tables are rebuilt without profile_key.    *)
DeviceOnly(d) == [d EXCEPT !.device.profile = Nobody]

(* availableDeletedUsername: a name nobody has.                                      *)
ArchivedName(k) == "deleted-" \o k

(* migrateDeletedAccountUsernames: a deleted account gives its name back.           *)
DeletedNames(d) ==
  [d EXCEPT !.accounts = [k \in DOMAIN d.accounts |->
     IF d.accounts[k].deleted
     THEN [d.accounts[k] EXCEPT !.name = ArchivedName(k)] ELSE d.accounts[k]]]

\* Mutant: the current owners of the names are not looked at.
WantedByOneOnly(accounts, k) ==
  LET wanted == accounts[k].display
  IN  /\ wanted # Nobody /\ ~accounts[k].deleted
      /\ \A o \in DOMAIN accounts \ {k} :
           accounts[o].display # wanted \/ accounts[o].deleted

(* A display name becomes the user name when nobody else wants it and nobody else   *)
(* has it.                                                                          *)
MayTake(accounts, k) ==
  LET wanted == accounts[k].display
  IN  /\ wanted # Nobody /\ ~accounts[k].deleted
      /\ \A o \in DOMAIN accounts \ {k} :
           /\ accounts[o].name # wanted
           /\ accounts[o].display # wanted \/ accounts[o].deleted

(* migrateAccountNamesToUsername: the display names go; two accounts of one name    *)
(* end the start.                                                                   *)
AccountNames(d) ==
  LET named == [k \in DOMAIN d.accounts |->
                  IF MayTake(d.accounts, k) THEN d.accounts[k].display
                  ELSE d.accounts[k].name]
  IN  IF ~IsInjective(named) THEN Failed
      ELSE [d EXCEPT !.accounts = [k \in DOMAIN d.accounts |->
              [d.accounts[k] EXCEPT !.name = named[k], !.display = Nobody]]]

\* Mutant: the devices lose their profile before the accounts are made.
MigratedDevicesFirst(d, v, onDisk) ==
  IF d.version >= v THEN d
  ELSE CASE v = 11 -> VideoPaths(d)
         [] v = 12 -> ReadingPaths(d, onDisk)
         [] v = 13 -> ReadingDuplicates(d)
         [] v = 14 -> MusicPaths(d)
         [] v = 15 -> DeviceOnly(d)
         [] v = 16 -> LegacyAccounts(d)
         [] v = 17 -> DeletedNames(d)
         [] v = 18 -> AccountNames(d)
         [] OTHER -> d

(* The migration that leads to version v. Each reads user_version for itself, which *)
(* only the last statement of the file changes: after a stop the start begins from  *)
(* the first again, on rows some of them have already changed.                      *)
Migrated(d, v, onDisk) ==
  IF d.version >= v THEN d
  ELSE CASE v = 11 -> VideoPaths(d)
         [] v = 12 -> ReadingPaths(d, onDisk)
         [] v = 13 -> ReadingDuplicates(d)
         [] v = 14 -> MusicPaths(d)
         [] v = 15 -> LegacyAccounts(d)
         [] v = 16 -> DeviceOnly(d)
         [] v = 17 -> DeletedNames(d)
         [] v = 18 -> AccountNames(d)
         [] OTHER -> d

(* The last statements of the file: unique indexes over the paths, then the version.*)
Versioned(d) ==
  IF Duplicates(d.readings) \/ Duplicates(d.tracks) \/ Duplicates(d.albums)
  THEN Failed ELSE [d EXCEPT !.version = Target]

-----------------------------------------------------------------------------------
(* The offline tool.                                                                *)
Tables == {"videos", "readings", "tracks", "albums"}

(* processPrimaryRecord and findCollisions: a path that cannot be rebuilt and two   *)
(* rows of one file are errors, and with an error nothing is applied.               *)
CanApply(d) ==
  \A t \in Tables :
    /\ \A i \in DOMAIN d[t] : ToolPath(d[t][i]) # Elsewhere
    /\ \A i, j \in DOMAIN d[t] : ToolPath(d[t][i]) = ToolPath(d[t][j]) => i = j

\* Mutant: an absolute relative_path is left as it is.
LeftAbsolute(row) == IF row.path.form = "absolute" THEN row ELSE InPlace(row, ToolPath(row))

Rewritten(row) == InPlace(row, ToolPath(row))
HasChanges(d) == \E t \in Tables : \E i \in DOMAIN d[t] : Rewritten(d[t][i]) # d[t][i]

(* applyChanges.                                                                    *)
Applied(d) ==
  LET All(rows) == [i \in DOMAIN rows |-> Rewritten(rows[i])]
  IN  [d EXCEPT !.videos = All(d.videos), !.readings = All(d.readings),
                !.tracks = All(d.tracks), !.albums = All(d.albums)]

-----------------------------------------------------------------------------------
(* What people own, by the file it is about: the latest bookmark, and whether a     *)
(* track is a favourite, how often it was played and whether it is in the playlist. *)
Shelf(d) ==
  [p \in Places |->
    [mark |-> [r \in Readers |->
                 Max({d.readings[i].mark[r] : i \in At(d.readings, p)} \cup {0})],
     liked |-> \E i \in At(d.tracks, p) : d.tracks[i].liked,
     plays |-> Max({d.tracks[i].plays : i \in At(d.tracks, p)} \cup {0}),
     listed |-> \E i \in At(d.tracks, p) : d.tracks[i].listed,
     artists |-> UNION {d.albums[a].artists : a \in
                   UNION {SamePlace(d.albums, d.tracks[i].album) : i \in At(d.tracks, p)}}]]

(* The rows no start can map: an absolute or repeated relative_path of a film or    *)
(* series, or a reading, track or album whose two columns both name nothing.        *)
Unmappable(d) ==
  \/ VideoPaths(d) = Failed
  \/ \E t \in Tables \ {"videos"} : \E i \in DOMAIN d[t] : RowPath(d[t][i]) = Elsewhere

(* What a copy of the database shows of the catalogue.                              *)
Catalog(d) ==
  [t \in Tables |-> [i \in DOMAIN d[t] |-> <<d[t][i].path, d[t][i].old>>]]
HasCatalog(d) == DOMAIN d.videos \cup DOMAIN d.readings \cup DOMAIN d.tracks # {}

-----------------------------------------------------------------------------------
(* What the tables of a database hold.                                              *)
VideoRow == [path : Stored, old : Stored]
ReadingRow == [path : Stored, old : Stored, there : BOOLEAN, mark : [Readers -> Nat]]
TrackRow == [path : Stored, old : Stored, there : BOOLEAN, album : Nat, liked : BOOLEAN,
             plays : Nat, listed : BOOLEAN]
AlbumRow == [path : Stored, old : Stored, artists : SUBSET STRING]
AccountColumns == {"name", "display", "deleted"}

Table(rows, Row) ==
  /\ IsFiniteSet(DOMAIN rows) /\ DOMAIN rows \subseteq Nat
  /\ rows \in [DOMAIN rows -> Row]

(* The foreign key of a track; the tracks of one file are in albums of one folder,  *)
(* since an album is found by the folder its file is in (findAlbumByDirectory).     *)
Tabled(d) ==
  /\ DOMAIN d = {"version"} \cup Tables \cup {"profiles", "accounts", "device"}
  /\ d.version \in Nat
  /\ Table(d.videos, VideoRow) /\ Table(d.readings, ReadingRow)
  /\ Table(d.tracks, TrackRow) /\ Table(d.albums, AlbumRow)
  /\ \A i \in DOMAIN d.tracks : d.tracks[i].album \in DOMAIN d.albums
  /\ \A i, j \in DOMAIN d.tracks :
       RowPath(d.tracks[i]) = RowPath(d.tracks[j]) /\ RowPath(d.tracks[i]) # Elsewhere =>
         RowPath(d.albums[d.tracks[i].album]) = RowPath(d.albums[d.tracks[j].album])
  /\ \A k \in DOMAIN d.accounts :
       DOMAIN d.accounts[k] = AccountColumns /\ d.accounts[k].deleted \in BOOLEAN
  /\ DOMAIN d.device = {"profile", "account"}
  /\ Nobody \notin d.profiles \cup DOMAIN d.accounts

(* No relative path is missing, and none is repeated.                               *)
AllRelative(rows) == \A i \in DOMAIN rows : rows[i].path.form = "relative"
Told(rows) ==
  /\ AllRelative(rows)
  /\ \A i, j \in DOMAIN rows : rows[i].path = rows[j].path => i = j

(* Names are unique, and so are those the deleted accounts are to get.              *)
Named(accounts) == IsInjective([k \in DOMAIN accounts |-> accounts[k].name])
NamesFree(accounts) ==
  \A k, l \in DOMAIN accounts :
    /\ accounts[k].deleted
    /\ \/ accounts[l].name = ArchivedName(k)
       \/ accounts[l].deleted /\ ArchivedName(l) = ArchivedName(k)
    => k = l

(* A database a start may find: that of a running server of any version, which has  *)
(* been through the migrations of that version, or one not migrated before.         *)
OfItsVersion(d) ==
  /\ Tabled(d) /\ d.version <= Target
  /\ HasCatalog(d) \/ DOMAIN d.albums = {}
  /\ \A i \in DOMAIN d.readings, r \in Readers : d.readings[i].mark[r] < 10
  /\ d.version >= 11 => Told(d.videos)
  /\ d.version >= 12 => AllRelative(d.readings)
  /\ d.version >= 13 => Told(d.readings)
  /\ d.version >= 14 => Told(d.tracks) /\ Told(d.albums)
  /\ d.version >= 15 => d.profiles \subseteq DOMAIN d.accounts
  /\ d.version < 15 =>
       DOMAIN d.accounts = {} /\ d.device.profile \in d.profiles \cup {"default", Nobody}
  /\ Named(d.accounts) /\ (d.version < 17 => NamesFree(d.accounts))
===================================================================================
