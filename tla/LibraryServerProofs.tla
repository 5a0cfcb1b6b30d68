--------------------------- MODULE LibraryServerProofs ---------------------------
(* LibraryServer for every set of databases, places and readers, every number of    *)
(* faults and bookmarks, and any exchange of disks. First the pairing: the server   *)
(* never serves a library its database is not paired with, and a half-made pairing  *)
(* is left only by a stop within it, or by a removal that failed too. Then the      *)
(* rows: what each migration of CatalogUpgrade, and the offline tool, make of a     *)
(* database, and from that, however often the start is cut short and begun again,   *)
(* that nothing people own is lost, that the version tells what it should, that the *)
(* copy is there before the first change, and that only rows nobody can map end a   *)
(* start.                                                                           *)
EXTENDS LibraryServer, FiniteSetTheorems, WellFoundedInduction, TLAPS

-----------------------------------------------------------------------------------
(* The pairing. The migrations, the bookmarks and the tool play no part: they       *)
(* change neither the markers nor the identity.                                     *)
Pairing == {"marked", "unmark"}

MarkersTyped ==
  /\ mounted \in Libraries \cup {"none"} /\ identity \in Nat
  /\ DOMAIN marker = Libraries /\ \A l \in Libraries : marker[l] \in Nat

(* While the row is missing the marker is there; before it listens the server has   *)
(* compared the two; no other marker is ever made.                                  *)
Inv ==
  /\ MarkersTyped
  /\ phase \in Pairing => identity = None /\ mounted \in Libraries
  /\ phase = "listen" /\ available =>
       identity # None /\ mounted \in Libraries /\ marker[mounted] = identity
  /\ phase = "marked" => marker[mounted] # None
  /\ ~broken => \A l \in Libraries :
       marker[l] \in {None, Foreign, identity} \/ (phase \in Pairing /\ l = mounted)

LEMMA InitInv == ASSUME Init PROVE Inv
<1>1. identity \in Nat /\ DOMAIN marker = Libraries
      /\ \A l \in Libraries : marker[l] \in {None, Foreign, identity}
  <2>1. CASE db.version = Target
    BY <2>1 DEF Init, Libraries, None, Foreign
  <2>2. CASE db.version # Target
    BY <2>2 DEF Init, Libraries, None
  <2> QED
    BY <2>1, <2>2
<1>2. phase = "down" /\ mounted \in Libraries \cup {"none"}
  BY DEF Init, Libraries
<1> QED
  BY <1>1, <1>2 DEF Inv, MarkersTyped, Pairing, None, Foreign

-----------------------------------------------------------------------------------
(* A new identity is none of those there are: in particular it is one.              *)
LEMMA GreatestOfFour ==
  ASSUME NEW i \in Nat, NEW a \in Nat, NEW b \in Nat
  PROVE  \E x \in {0, i, a, b} : \A y \in {0, i, a, b} : x >= y
OBVIOUS

LEMMA NewIdentityIsOne == ASSUME MarkersTyped PROVE NewIdentity \in Nat /\ NewIdentity # None
<1> DEFINE S == {None, identity} \cup ({marker[l] : l \in Libraries} \ {Foreign})
           Other(l) == IF marker[l] = Foreign THEN 0 ELSE marker[l]
<1>1. Other("ours") \in Nat /\ Other("other") \in Nat
  BY DEF MarkersTyped, Libraries
<1>2. S = {0, identity, Other("ours"), Other("other")}
  BY DEF MarkersTyped, Libraries, None
<1>3. \E x \in S : \A y \in S : x >= y
  BY <1>1, <1>2, GreatestOfFour DEF MarkersTyped
<1>4. Max(S) \in S
  BY <1>3 DEF Max
<1>5. Max(S) \in Nat
  BY <1>1, <1>2, <1>4 DEF MarkersTyped
<1> QED
  BY <1>5 DEF NewIdentity, None

(* Steps that leave disk and identity alone, and do not enter the pairing, nor the  *)
(* moment before listening.                                                         *)
LEMMA Apart ==
  ASSUME Inv, UNCHANGED <<disk, identity>>,
         \/ UNCHANGED <<phase, available>>
         \/ phase \notin Pairing /\ phase' \notin Pairing \cup {"listen"}
  PROVE  Inv'
BY DEF Inv, MarkersTyped, disk, Pairing

-----------------------------------------------------------------------------------
(* One step for each action that has to do with the pairing.                        *)
LEMMA PairingInv ==
  ASSUME Inv,
         \/ InitializeStorage \/ EnsureIdentity \/ InsertIdentity \/ InsertIdentityFails
         \/ RemoveMarker \/ MarkerStays \/ Stop \/ Mount
  PROVE  Inv'
<1>1. CASE InitializeStorage
  BY <1>1 DEF InitializeStorage, Inv, MarkersTyped, Pairing, disk
<1>2. CASE EnsureIdentity
  <2>1. CASE phase' = "listen"
    BY <1>2, <2>1 DEF EnsureIdentity, EndStart, Matches, Inv, MarkersTyped, Pairing
  <2>2. CASE phase' = "down"
    BY <1>2, <2>2 DEF EnsureIdentity, EndStart, Inv, MarkersTyped, Pairing
  <2>3. CASE phase' = "marked"
    <3>1. identity = None /\ marker' = [marker EXCEPT ![mounted] = NewIdentity]
          /\ UNCHANGED <<mounted, broken, identity>> /\ mounted # "none" /\ phase = "identity"
      BY <1>2, <2>3 DEF EnsureIdentity, EndStart
    <3>2. NewIdentity \in Nat /\ NewIdentity # None
      BY NewIdentityIsOne DEF Inv
    <3> QED
      BY <2>3, <3>1, <3>2 DEF Inv, MarkersTyped, Pairing
  <2> QED
    BY <1>2, <2>1, <2>2, <2>3 DEF EnsureIdentity, EndStart
<1>3. CASE InsertIdentity
  BY <1>3 DEF InsertIdentity, Inv, MarkersTyped, Pairing, disk, None
<1>4. CASE InsertIdentityFails
  BY <1>4 DEF InsertIdentityFails, Inv, MarkersTyped, Pairing, disk
<1>5. CASE RemoveMarker
  BY <1>5 DEF RemoveMarker, EndStart, Unmarked, Inv, MarkersTyped, Pairing, None
<1>6. CASE MarkerStays
  BY <1>6 DEF MarkerStays, EndStart, Inv, MarkersTyped, Pairing
<1>7. CASE Stop
  BY <1>7 DEF Stop, Over, Inv, MarkersTyped, Pairing
<1>8. CASE Mount
  BY <1>8 DEF Mount, Inv, MarkersTyped, Pairing, Libraries
<1> QED
  BY <1>1, <1>2, <1>3, <1>4, <1>5, <1>6, <1>7, <1>8

(* The others.                                                                      *)
LEMMA ElsewhereInv ==
  ASSUME Inv,
         \/ Start \/ PreMigrationBackup \/ BackupFails \/ Migrate \/ SetVersion
         \/ IdentityUnreadable \/ Listen \/ PortTaken
         \/ Request \/ SaveBookmark \/ Respond
         \/ BackupDue \/ BackupDone \/ ScheduledBackupFails
         \/ Signal \/ Closed \/ CloseTimeout
         \/ ToolAnalyses \/ ToolBacksUp \/ ToolApplies \/ ToolStops
  PROVE  Inv'
<1>1. CASE Start \/ PreMigrationBackup \/ BackupFails
  BY <1>1, Apart DEF Start, PreMigrationBackup, BackupFails, EndStart, Pairing
<1>2. CASE Migrate
  BY <1>2, Apart DEF Migrate, EndStart, Pairing
<1>3. CASE SetVersion
  BY <1>3, Apart DEF SetVersion, EndStart, Pairing
<1>4. CASE IdentityUnreadable \/ Listen \/ PortTaken
  BY <1>4, Apart DEF IdentityUnreadable, Listen, PortTaken, EndStart, Pairing
<1>5. CASE Request \/ SaveBookmark \/ Respond
  BY <1>5, Apart DEF Request, SaveBookmark, Respond
<1>6. CASE BackupDue \/ BackupDone \/ ScheduledBackupFails
  BY <1>6, Apart DEF BackupDue, BackupDone, ScheduledBackupFails
<1>7. CASE Signal \/ Closed \/ CloseTimeout
  BY <1>7, Apart DEF Signal, Closed, CloseTimeout, Over, Pairing
<1>8. CASE ToolAnalyses \/ ToolBacksUp \/ ToolApplies \/ ToolStops
  BY <1>8, Apart DEF ToolAnalyses, ToolBacksUp, ToolApplies, ToolStops
<1> QED
  BY <1>1, <1>2, <1>3, <1>4, <1>5, <1>6, <1>7, <1>8

LEMMA NextInv == ASSUME Inv, [Next]_vars PROVE Inv'
<1>1. CASE Next
  BY <1>1, PairingInv, ElsewhereInv DEF Next
<1>2. CASE UNCHANGED vars
  BY <1>2, Apart DEF vars, disk
<1> QED
  BY <1>1, <1>2

(* A server that starts with its disk there serves the library its database is      *)
(* paired with (library-identity-service.js:154-205, server.js:27-60).              *)
THEOREM RightLibraryServed == Spec => RightLibrary
<1>1. Init => Inv
  BY InitInv
<1>2. Inv /\ [Next]_vars => Inv'
  BY NextInv
<1>3. Inv => (phase = "listen" /\ phase' = "up" /\ available
                => identity # None /\ marker[mounted] = identity)
  BY DEF Inv
<1> QED
  BY <1>1, <1>2, <1>3, PTL DEF Spec, RightLibrary

(* A marker no database knows is left only by a stop within the pairing or by a     *)
(* removal that failed (library-identity-service.js:195-205).                       *)
THEOREM PairedUnlessBroken == Spec => []HalfPairedOnlyIfBroken
<1>1. Init => Inv
  BY InitInv
<1>2. Inv /\ [Next]_vars => Inv'
  BY NextInv
<1>3. Inv => HalfPairedOnlyIfBroken
  BY DEF Inv, HalfPairedOnlyIfBroken, Pairing
<1> QED
  BY <1>1, <1>2, <1>3, PTL DEF Spec

-----------------------------------------------------------------------------------
(* The rows. A migration is done when the version says so, or when this start has   *)
(* passed it; the rows of a done migration are as it left them, and no later one,   *)
(* nor the tool, nor a bookmark undoes it.                                          *)
Done(v) == db.version >= v \/ (phase = "upgrade" /\ todo > v)

VersionInv ==
  /\ Tabled(db) /\ Tabled(original)
  /\ db.version \in {original.version, Target} /\ original.version <= Target
  /\ todo \in 11..(Target + 1) /\ writes \in Nat

PathsInv ==
  /\ Done(11) => Told(db.videos)
  /\ Done(12) => AllRelative(db.readings)
  /\ Done(13) => Told(db.readings)
  /\ Done(14) => Told(db.tracks) /\ Told(db.albums)

(* The copy: there before the first change, whoever makes it. A start without one   *)
(* has nothing to change, unless the tool has made its own.                         *)
Safe == Catalog(original) \in snapshots
CopyInv ==
  /\ Catalog(db) # Catalog(original) => Safe
  /\ tool = "saved" => Safe
  /\ phase = "upgrade" => Safe \/ db.version = Target \/ ~HasCatalog(db)
  /\ HasCatalog(original) \/ DOMAIN original.albums = {}

(* The refusals: nothing makes a row that cannot be mapped.                         *)
RefusalInv ==
  /\ Unmappable(db) => Unmappable(original) /\ tool # "applied"
  /\ failure = "rows" => Unmappable(original)

(* The accounts. Until version 15 they are those the migration makes; until 17 no   *)
(* name is in the way of a deleted account's, and once that migration has run the   *)
(* deleted accounts have theirs, which the next one gives to nobody.                *)
Plain(accounts) ==
  \A k \in DOMAIN accounts :
    accounts[k].name = k /\ accounts[k].display = Nobody /\ ~accounts[k].deleted
AccountsInv ==
  /\ db.profiles = original.profiles
  /\ DOMAIN original.accounts \subseteq DOMAIN db.accounts
  /\ Done(15) => original.profiles \subseteq DOMAIN db.accounts
  /\ Named(db.accounts)
  /\ db.version < 15 => Plain(db.accounts)
  /\ db.version < 17 => NamesFree(db.accounts)
  /\ db.version < 17 /\ phase = "upgrade" /\ todo > 17 =>
       \A k \in DOMAIN db.accounts : db.accounts[k].deleted => db.accounts[k].name = ArchivedName(k)

(* The device keeps its account, or gets that of its profile, which it keeps till   *)
(* then.                                                                            *)
DeviceInv ==
  /\ db.device.profile \in {original.device.profile, Nobody}
  /\ original.version < 15 =>
       original.device.profile \in original.profiles \cup {"default", Nobody}
  /\ IF original.version >= 15 \/ original.device.account # Nobody
     THEN db.device.account = original.device.account
     ELSE \/ db.device.account = original.device.profile
          \/ ~Done(15) /\ db.device = original.device

(* What people own. Bookmarks get later and later, so the one a reader saves is the *)
(* latest of its file, which has a row in the database of the first start too.      *)
Files(rows) == {RowPath(rows[i]) : i \in DOMAIN rows}
MarksBelow(d, n) ==
  \A i \in DOMAIN d.readings, r \in Readers : d.readings[i].mark[r] < n
ShelfInv ==
  /\ Shelf(db) = Shelf(original)
  /\ Files(db.readings) = Files(original.readings)
  /\ MarksBelow(db, 10 + writes) /\ MarksBelow(original, 10 + writes)

-----------------------------------------------------------------------------------
(* The greatest of finitely many.                                                   *)
LEMMA Least ==
  ASSUME NEW T, T \subseteq Nat, T # {} PROVE \E x \in T : \A y \in T : x <= y
<1> DEFINE Less == {ss \in Nat \X Nat : ss[1] < ss[2]}
<1>1. Less = OpToRel(<, Nat)
  BY DEF OpToRel
<1>2. IsWellFoundedOn(Less, Nat)
  BY <1>1, NatLessThanWellFounded
<1> HIDE DEF Less
<1>3. PICK x \in T : \A y \in T : ~ (<<y, x>> \in Less)
  BY <1>2, WFMin
<1>4. ASSUME NEW y \in T PROVE x <= y
  <2>1. x \in Nat /\ y \in Nat
    OBVIOUS
  <2>2. y < x => <<y, x>> \in Less
    BY <2>1 DEF Less
  <2> QED
    BY <1>3, <2>1, <2>2
<1> QED
  BY <1>4

(* A total and transitive relation has a best element on every finite set that is   *)
(* not empty.                                                                       *)
LEMMA Best ==
  ASSUME NEW S, IsFiniteSet(S), S # {}, NEW R,
         \A x, y \in S : <<x, y>> \in R \/ <<y, x>> \in R,
         \A x, y, z \in S : <<x, y>> \in R /\ <<y, z>> \in R => <<x, z>> \in R
  PROVE  \E x \in S : \A y \in S : <<x, y>> \in R
<1> DEFINE Without(T) == T # {} /\ ~ \E x \in T : \A y \in T : <<x, y>> \in R
           Sizes == {n \in Nat : \E T \in SUBSET S : Without(T) /\ Cardinality(T) = n}
<1>1. SUFFICES ASSUME Without(S) PROVE FALSE
  OBVIOUS
<1>2. Cardinality(S) \in Nat
  BY FS_CardinalityType
<1>3. Sizes # {} /\ Sizes \subseteq Nat
  BY <1>1, <1>2
<1>4. PICK n \in Sizes : \A m \in Sizes : n <= m
  BY <1>3, Least
<1>5. PICK T \in SUBSET S : Without(T) /\ Cardinality(T) = n
  BY <1>4
<1>6. PICK s \in T : TRUE
  BY <1>5
<1> DEFINE U == T \ {s}
<1>7. IsFiniteSet(T)
  BY FS_Subset
<1>8. IsFiniteSet(U) /\ Cardinality(U) = n - 1
  BY <1>5, <1>6, <1>7, FS_RemoveElement
<1>9. Cardinality(U) \in Nat
  BY <1>8, FS_CardinalityType
<1>10. Cardinality(U) \notin Sizes
  <2>1. n \in Nat
    BY <1>4
  <2>2. ~ (n <= n - 1)
    BY <2>1
  <2> QED
    BY <1>4, <1>8, <2>2, ZenonT(60)
<1>11. ~Without(U)
  BY <1>9, <1>10
<1>12. CASE U = {}
  BY <1>5, <1>6, <1>12
<1>13. CASE U # {}
  <2>1. PICK b \in U : \A y \in U : <<b, y>> \in R
    BY <1>11, <1>13
  <2>2. CASE <<b, s>> \in R
    BY <1>5, <2>1, <2>2
  <2>3. CASE <<s, b>> \in R
    BY <1>5, <1>6, <2>1, <2>3
  <2> QED
    BY <1>5, <1>6, <2>1, <2>2, <2>3
<1> QED
  BY <1>12, <1>13

(* What Max picks, and when it picks the same from two sets.                        *)
LEMMA MaxIs ==
  ASSUME NEW S, S \subseteq Nat, NEW m \in S, \A y \in S : m >= y
  PROVE  Max(S) = m
<1>1. Max(S) \in S /\ \A y \in S : Max(S) >= y
  BY DEF Max
<1>2. Max(S) \in Nat /\ m \in Nat
  BY <1>1
<1>3. m >= Max(S) /\ Max(S) >= m
  BY <1>1
<1> QED
  BY <1>2, <1>3

LEMMA MaxSame ==
  ASSUME NEW S, NEW T, S \subseteq Nat, T \subseteq Nat,
         \E m \in S : \A y \in S : m >= y,
         \A x \in S : \E y \in T : y >= x, \A y \in T : \E x \in S : x >= y
  PROVE  Max(S) = Max(T)
<1>1. PICK m \in S : \A y \in S : m >= y
  OBVIOUS
<1>2. \A y \in T : m >= y
  BY <1>1
<1>3. m \in T
  BY <1>1, <1>2
<1>4. Max(S) = m
  BY <1>1, MaxIs
<1>5. Max(T) = m
  BY <1>2, <1>3, MaxIs
<1> QED
  BY <1>4, <1>5

(* The values of a function over a finite set have a greatest; with zero, over      *)
(* any finite set.                                                                  *)
LEMMA MaxOver ==
  ASSUME NEW D, IsFiniteSet(D), D # {}, NEW f, \A i \in D : f[i] \in Nat,
         NEW S, \A x : x \in S <=> \E i \in D : x = f[i]
  PROVE  Max(S) \in S /\ Max(S) \in Nat /\ \A y \in S : Max(S) >= y
<1> DEFINE R == {r \in D \X D : f[r[1]] >= f[r[2]]}
<1>1. \A x, y \in D : <<x, y>> \in R <=> f[x] >= f[y]
  OBVIOUS
<1> HIDE DEF R
<1>2. ASSUME NEW x \in D, NEW y \in D PROVE <<x, y>> \in R \/ <<y, x>> \in R
  <2>1. f[x] \in Nat /\ f[y] \in Nat
    OBVIOUS
  <2> QED
    BY <1>1, <2>1
<1>3. ASSUME NEW x \in D, NEW y \in D, NEW z \in D, <<x, y>> \in R, <<y, z>> \in R
      PROVE  <<x, z>> \in R
  <2>1. f[x] \in Nat /\ f[y] \in Nat /\ f[z] \in Nat
    OBVIOUS
  <2> QED
    BY <1>1, <1>3, <2>1
<1>4. PICK x \in D : \A y \in D : <<x, y>> \in R
  BY <1>2, <1>3, Best
<1>5. f[x] \in S /\ \A y \in S : f[x] >= y
  BY <1>1, <1>4, ZenonT(60)
<1>6. S \subseteq Nat
  OBVIOUS
<1> QED
  BY <1>5, <1>6 DEF Max

LEMMA MaxOrZero ==
  ASSUME NEW D, IsFiniteSet(D), NEW f, \A i \in D : f[i] \in Nat,
         NEW S, \A x : x \in S <=> x = 0 \/ \E i \in D : x = f[i]
  PROVE  Max(S) \in S /\ S \subseteq Nat /\ \A y \in S : Max(S) >= y
<1>1. S \subseteq Nat
  OBVIOUS
<1>2. \E m \in S : \A y \in S : m >= y
  <2>1. CASE D = {}
    BY <2>1
  <2>2. CASE D # {}
    <3> DEFINE T == {f[i] : i \in D}
    <3>1. Max(T) \in T /\ Max(T) \in Nat /\ \A y \in T : Max(T) >= y
      BY <2>2, MaxOver
    <3> HIDE DEF T
    <3>2. S = T \cup {0}
      BY DEF T
    <3> QED
      BY <3>1, <3>2
  <2> QED
    BY <2>1, <2>2
<1> QED
  BY <1>1, <1>2 DEF Max
-----------------------------------------------------------------------------------
(* A row and its path: what the tool and the migrations make of the two columns is  *)
(* the same.                                                                        *)
Pathed(rows) == \A i \in DOMAIN rows : rows[i].path \in Stored /\ rows[i].old \in Stored

LEMMA RelativeOf ==
  \A p : Relative(p).form = "relative" /\ Relative(p).place = p
BY DEF Relative

LEMMA RelativeTells == ASSUME NEW p, NEW q, Relative(p) = Relative(q) PROVE p = q
BY RelativeOf

LEMMA PathOf ==
  ASSUME NEW row, row.path \in Stored, row.old \in Stored
  PROVE  /\ ToolPath(row) = RowPath(row) /\ RowPath(row) \in Places \cup {Elsewhere}
         /\ row.path.form = "relative" =>
              RowPath(row) \in Places /\ row.path = Relative(RowPath(row))
BY PlacesAssumption DEF Stored, ToolPath, RowPath, Relative

LEMMA InPlaceOf ==
  ASSUME NEW row, {"path", "old"} \subseteq DOMAIN row, NEW p \in Places
  PROVE  /\ InPlace(row, p).path = Relative(p) /\ RowPath(InPlace(row, p)) = p
         /\ DOMAIN InPlace(row, p) = DOMAIN row
         /\ \A c \in DOMAIN row \ {"path", "old"} : InPlace(row, p)[c] = row[c]
BY DEF InPlace, Relative, RowPath

LEMMA InPlaceTyped ==
  ASSUME NEW row, NEW p \in Places
  PROVE  /\ row \in VideoRow => InPlace(row, p) \in VideoRow
         /\ row \in ReadingRow => InPlace(row, p) \in ReadingRow
         /\ row \in TrackRow => InPlace(row, p) \in TrackRow
         /\ row \in AlbumRow => InPlace(row, p) \in AlbumRow
<1>1. Relative(p) \in Stored
  BY DEF Relative, Stored
<1> QED
  BY <1>1 DEF InPlace, VideoRow, ReadingRow, TrackRow, AlbumRow

LEMMA TablesPathed ==
  ASSUME NEW d, Tabled(d)
  PROVE  Pathed(d.videos) /\ Pathed(d.readings) /\ Pathed(d.tracks) /\ Pathed(d.albums)
<1>1. Table(d.videos, VideoRow) /\ Table(d.readings, ReadingRow)
      /\ Table(d.tracks, TrackRow) /\ Table(d.albums, AlbumRow)
  BY DEF Tabled
<1>2. ASSUME NEW rows, Table(rows, VideoRow) PROVE Pathed(rows)
  BY <1>2 DEF Table, VideoRow, Pathed
<1>3. ASSUME NEW rows, Table(rows, ReadingRow) PROVE Pathed(rows)
  BY <1>3 DEF Table, ReadingRow, Pathed
<1>4. ASSUME NEW rows, Table(rows, TrackRow) PROVE Pathed(rows)
  BY <1>4 DEF Table, TrackRow, Pathed
<1>5. ASSUME NEW rows, Table(rows, AlbumRow) PROVE Pathed(rows)
  BY <1>5 DEF Table, AlbumRow, Pathed
<1> QED
  BY <1>1, <1>2, <1>3, <1>4, <1>5

LEMMA ToldPlaces ==
  ASSUME NEW rows, Pathed(rows), Told(rows)
  PROVE  /\ ~Duplicates(rows)
         /\ \A i \in DOMAIN rows : RowPath(rows[i]) \in Places
         /\ \A i, j \in DOMAIN rows : RowPath(rows[i]) = RowPath(rows[j]) => i = j
<1>1. \A i \in DOMAIN rows :
        RowPath(rows[i]) \in Places /\ rows[i].path = Relative(RowPath(rows[i]))
  BY PathOf DEF Pathed, Told, AllRelative
<1>2. \A i, j \in DOMAIN rows : RowPath(rows[i]) = RowPath(rows[j]) => i = j
  BY <1>1 DEF Told
<1> QED
  BY <1>1, <1>2 DEF Duplicates, SamePlace, At

LEMMA PlacesTold ==
  ASSUME NEW rows, Pathed(rows), AllRelative(rows), ~Duplicates(rows)
  PROVE  Told(rows)
<1>1. \A i, j \in DOMAIN rows : RowPath(rows[i]) = RowPath(rows[j]) => i = j
  BY DEF Duplicates, SamePlace, At
<1>2. ASSUME NEW i \in DOMAIN rows, NEW j \in DOMAIN rows, rows[i].path = rows[j].path
      PROVE  i = j
  <2>1. rows[i].path = Relative(RowPath(rows[i])) /\ rows[j].path = Relative(RowPath(rows[j]))
    BY PathOf DEF Pathed, AllRelative
  <2>2. RowPath(rows[i]) = RowPath(rows[j])
    BY <1>2, <2>1, RelativeTells
  <2> QED
    BY <1>1, <2>2
<1> QED
  BY <1>2 DEF Told

(* Rows moved to places of their own.                                               *)
LEMMA InPlaceTold ==
  ASSUME NEW rows, \A i \in DOMAIN rows : {"path", "old"} \subseteq DOMAIN rows[i],
         NEW place, \A i \in DOMAIN rows : place[i] \in Places,
         \A i, j \in DOMAIN rows : place[i] = place[j] => i = j
  PROVE  Told([i \in DOMAIN rows |-> InPlace(rows[i], place[i])])
<1> DEFINE new == [i \in DOMAIN rows |-> InPlace(rows[i], place[i])]
<1>1. \A i \in DOMAIN rows : new[i].path = Relative(place[i])
  BY InPlaceOf
<1> HIDE DEF new
<1>2. DOMAIN new = DOMAIN rows
  BY DEF new
<1>3. \A i \in DOMAIN new : new[i].path.form = "relative" /\ new[i].path.place = place[i]
  BY <1>1, <1>2, RelativeOf
<1>4. Told(new)
  BY <1>2, <1>3 DEF Told, AllRelative
<1> QED
  BY <1>4 DEF new

-----------------------------------------------------------------------------------
(* The migrations, one by one: what each makes of a database.                       *)
Columns == {"version", "videos", "readings", "tracks", "albums", "profiles", "accounts", "device"}

LEMMA HasColumns == ASSUME NEW d, Tabled(d) PROVE DOMAIN d = Columns
BY DEF Tabled, Tables, Columns

Keeps(d, e, fields) == DOMAIN e = Columns /\ \A f \in Columns \ fields : e[f] = d[f]

LEMMA NotFailed == ASSUME NEW d, DOMAIN d = Columns PROVE d # Failed
<1>1. DOMAIN Failed = {"version"}
  BY DEF Failed
<1>2. "videos" \in Columns
  BY DEF Columns
<1> QED
  BY <1>1, <1>2

(* The films and series are moved in place; refused for an absolute path or a       *)
(* repeated one.                                                                    *)
LEMMA VideoPathsOf ==
  ASSUME NEW d, Tabled(d), NEW e, e = VideoPaths(d)
  PROVE  /\ e = Failed <=>
              \/ \E i \in DOMAIN d.videos : d.videos[i].path.form = "absolute"
              \/ \E i, j \in DOMAIN d.videos : i # j /\ d.videos[i].path = d.videos[j].path
         /\ e # Failed =>
              Keeps(d, e, {"videos"}) /\ Tabled(e) /\ Told(e.videos) /\ DOMAIN e.videos = DOMAIN d.videos
<1> DEFINE bad == \/ \E i \in DOMAIN d.videos : d.videos[i].path.form = "absolute"
                  \/ \E i, j \in DOMAIN d.videos : i # j /\ d.videos[i].path = d.videos[j].path
           place == [i \in DOMAIN d.videos |-> d.videos[i].path.place]
           new == [i \in DOMAIN d.videos |-> InPlace(d.videos[i], d.videos[i].path.place)]
           made == [d EXCEPT !.videos = new]
<1>1. DOMAIN d = Columns
  BY HasColumns
<1>2. DOMAIN made = Columns /\ made.videos = new /\ \A f \in Columns \ {"videos"} : made[f] = d[f]
  BY <1>1 DEF Columns
<1>3. made # Failed
  BY <1>2, NotFailed
<1>4. ASSUME ~bad PROVE Tabled(made) /\ Told(new)
  <2>1. Table(d.videos, VideoRow)
    BY DEF Tabled
  <2>2. \A i \in DOMAIN d.videos : {"path", "old"} \subseteq DOMAIN d.videos[i] /\ d.videos[i] \in VideoRow
    BY <2>1 DEF Table, VideoRow
  <2>3. \A i \in DOMAIN d.videos : d.videos[i].path.form = "relative"
    <3>1. \A i \in DOMAIN d.videos : d.videos[i].path.form \in {"relative", "absolute"}
      BY <2>2 DEF VideoRow, Stored
    <3> QED
      BY <1>4, <3>1
  <2>4. \A i \in DOMAIN d.videos : place[i] \in Places /\ d.videos[i].path = Relative(place[i])
    BY <2>2, <2>3 DEF VideoRow, Stored, Relative
  <2>5. \A i, j \in DOMAIN d.videos : place[i] = place[j] => i = j
    BY <1>4, <2>4, ZenonT(60)
  <2>6. new = [i \in DOMAIN d.videos |-> InPlace(d.videos[i], place[i])]
    OBVIOUS
  <2>7. Told(new)
    <3> HIDE DEF place, new
    <3> QED
      BY <2>2, <2>4, <2>5, <2>6, InPlaceTold
  <2>8. Table(new, VideoRow)
    BY <2>1, <2>2, <2>4, InPlaceTyped DEF Table
  <2>9. Tabled(made)
    <3> HIDE DEF made, new
    <3> QED
      BY <1>1, <1>2, <2>8 DEF Tabled, Columns
  <2> QED
    BY <2>7, <2>9
<1>5. e = IF bad THEN Failed ELSE made
  BY DEF VideoPaths
<1>6. DOMAIN new = DOMAIN d.videos
  OBVIOUS
<1> HIDE DEF bad, made, new
<1>7. e = Failed <=> bad
  BY <1>3, <1>5
<1>8. e # Failed => Keeps(d, e, {"videos"}) /\ Tabled(e) /\ Told(e.videos) /\ DOMAIN e.videos = DOMAIN d.videos
  BY <1>2, <1>4, <1>5, <1>6 DEF Keeps
<1> QED
  BY <1>7, <1>8 DEF bad

(* The readings are moved in place, and keep their bookmarks; refused only for a    *)
(* row that names no file.                                                          *)
LEMMA ReadingPathsOf ==
  ASSUME NEW d, Tabled(d), NEW onDisk, NEW e, e = ReadingPaths(d, onDisk)
  PROVE  /\ e = Failed <=> \E i \in DOMAIN d.readings : RowPath(d.readings[i]) = Elsewhere
         /\ e # Failed =>
              /\ Keeps(d, e, {"readings"}) /\ Tabled(e) /\ AllRelative(e.readings)
              /\ DOMAIN e.readings = DOMAIN d.readings
              /\ \A i \in DOMAIN d.readings :
                   /\ RowPath(e.readings[i]) = RowPath(d.readings[i])
                   /\ e.readings[i].mark = d.readings[i].mark
<1> DEFINE bad == \E i \in DOMAIN d.readings : RowPath(d.readings[i]) = Elsewhere
           Moved(i) == [InPlace(d.readings[i], RowPath(d.readings[i]))
                          EXCEPT !.there = RowPath(d.readings[i]) \in onDisk]
           new == [i \in DOMAIN d.readings |-> Moved(i)]
           made == [d EXCEPT !.readings = new]
<1>1. DOMAIN d = Columns
  BY HasColumns
<1>2. DOMAIN made = Columns /\ made.readings = new /\ \A f \in Columns \ {"readings"} : made[f] = d[f]
  BY <1>1 DEF Columns
<1>3. made # Failed
  BY <1>2, NotFailed
<1>4. ASSUME ~bad, NEW i \in DOMAIN d.readings
      PROVE  /\ Moved(i) \in ReadingRow /\ Moved(i).path = Relative(RowPath(d.readings[i]))
             /\ RowPath(Moved(i)) = RowPath(d.readings[i]) /\ Moved(i).mark = d.readings[i].mark
  <2> DEFINE row == d.readings[i]
             p == RowPath(row)
  <2>1. row \in ReadingRow
    BY DEF Tabled, Table
  <2>2. p \in Places
    BY <1>4, <2>1, PathOf DEF ReadingRow
  <2>3. InPlace(row, p) \in ReadingRow /\ InPlace(row, p).path = Relative(p)
        /\ InPlace(row, p).mark = row.mark
    <3>1. DOMAIN row = {"path", "old", "there", "mark"}
      BY <2>1 DEF ReadingRow
    <3> HIDE DEF row, p
    <3> QED
      BY <2>1, <2>2, <3>1, InPlaceTyped, InPlaceOf
  <2>4. Moved(i) \in ReadingRow /\ Moved(i).path = Relative(p) /\ Moved(i).mark = row.mark
    <3> DEFINE there == p \in onDisk
    <3>1. there \in BOOLEAN
      OBVIOUS
    <3>2. Moved(i) = [InPlace(row, p) EXCEPT !.there = there]
      OBVIOUS
    <3> HIDE DEF there, Moved, row, p
    <3> QED
      BY <2>3, <3>1, <3>2 DEF ReadingRow
  <2>5. RowPath(Moved(i)) = p
    <3> HIDE DEF Moved, row, p
    <3> QED
      BY <2>4, RelativeOf DEF RowPath
  <2> QED
    BY <2>4, <2>5
<1> HIDE DEF Moved
<1>5. ASSUME ~bad PROVE Tabled(made) /\ AllRelative(new)
  <2>1. Table(new, ReadingRow)
    BY <1>4, <1>5 DEF Tabled, Table
  <2>2. AllRelative(new)
    BY <1>4, <1>5, RelativeOf DEF AllRelative
  <2>3. Tabled(made)
    <3> HIDE DEF made, new
    <3> QED
      BY <1>1, <1>2, <2>1 DEF Tabled, Columns
  <2> QED
    BY <2>2, <2>3
<1>6. e = IF bad THEN Failed ELSE made
  BY DEF ReadingPaths, Moved
<1>7. DOMAIN new = DOMAIN d.readings /\ \A i \in DOMAIN new : new[i] = Moved(i)
  OBVIOUS
<1> HIDE DEF bad, made, new
<1>8. e = Failed <=> bad
  BY <1>3, <1>6
<1>9. ASSUME e # Failed
      PROVE  /\ Keeps(d, e, {"readings"}) /\ Tabled(e) /\ AllRelative(e.readings)
             /\ DOMAIN e.readings = DOMAIN d.readings
             /\ \A i \in DOMAIN d.readings :
                  /\ RowPath(e.readings[i]) = RowPath(d.readings[i])
                  /\ e.readings[i].mark = d.readings[i].mark
  <2>1. ~bad /\ e = made
    BY <1>6, <1>9
  <2> QED
    BY <1>2, <1>4, <1>5, <1>7, <2>1 DEF Keeps
<1> QED
  BY <1>8, <1>9 DEF bad

(* The order of the rows of one file is total, so one of them is the best, and only *)
(* one.                                                                             *)
LEMMA SameFile ==
  ASSUME NEW rows, NEW i \in DOMAIN rows
  PROVE  /\ i \in SamePlace(rows, i) /\ SamePlace(rows, i) \subseteq DOMAIN rows
         /\ \A j \in SamePlace(rows, i) : SamePlace(rows, j) = SamePlace(rows, i)
         /\ \A j \in DOMAIN rows : j \in SamePlace(rows, i) <=> RowPath(rows[j]) = RowPath(rows[i])
BY DEF SamePlace, At

Last(rows, k) == Max({rows[k].mark[r] : r \in Readers} \cup {0})

LEMMA LastIs ==
  ASSUME NEW rows, NEW i \in DOMAIN rows, rows[i] \in ReadingRow PROVE Last(rows, i) \in Nat
<1> DEFINE f == rows[i].mark
           S == {f[r] : r \in Readers} \cup {0}
<1>1. \A r \in Readers : f[r] \in Nat
  BY DEF ReadingRow
<1>2. IsFiniteSet(Readers)
  BY PlacesAssumption
<1>3. Last(rows, i) = Max(S)
  BY DEF Last
<1> HIDE DEF f
<1>4. \A x : x \in S <=> x = 0 \/ \E r \in Readers : x = f[r]
  OBVIOUS
<1> HIDE DEF S
<1>5. Max(S) \in S /\ S \subseteq Nat
  BY <1>1, <1>2, <1>4, MaxOrZero
<1> QED
  BY <1>3, <1>5

LEMMA BestReading ==
  ASSUME NEW rows, Table(rows, ReadingRow), NEW i \in DOMAIN rows
  PROVE  /\ \E s \in SamePlace(rows, i) : \A j \in SamePlace(rows, i) : BetterReading(rows, s, j)
         /\ \A j \in DOMAIN rows : BetterReading(rows, i, j) /\ BetterReading(rows, j, i) => i = j
<1> DEFINE G == SamePlace(rows, i)
           R == {r \in G \X G : BetterReading(rows, r[1], r[2])}
<1>1. \A j \in DOMAIN rows : j \in Nat /\ rows[j].there \in BOOLEAN /\ Last(rows, j) \in Nat
  BY LastIs DEF Table, ReadingRow
<1>2. \A j, k \in DOMAIN rows : BetterReading(rows, j, k) <=>
        \/ rows[j].there /\ ~rows[k].there
        \/ rows[j].there = rows[k].there /\ Last(rows, j) > Last(rows, k)
        \/ rows[j].there = rows[k].there /\ Last(rows, j) = Last(rows, k) /\ j >= k
  BY DEF BetterReading, Last
<1>3. G \subseteq DOMAIN rows /\ i \in G
  BY SameFile
<1>4. IsFiniteSet(G)
  BY <1>3, FS_Subset DEF Table
<1>5. \A x, y \in G : <<x, y>> \in R <=> BetterReading(rows, x, y)
  OBVIOUS
<1> HIDE DEF R, G
<1>6. ASSUME NEW x \in G, NEW y \in G PROVE <<x, y>> \in R \/ <<y, x>> \in R
  BY <1>1, <1>2, <1>3, <1>5
<1>7. ASSUME NEW x \in G, NEW y \in G, NEW z \in G, <<x, y>> \in R, <<y, z>> \in R
      PROVE  <<x, z>> \in R
  BY <1>1, <1>2, <1>3, <1>5, <1>7
<1>8. \E s \in G : \A j \in G : BetterReading(rows, s, j)
  <2>1. G # {}
    BY <1>3
  <2>2. PICK s \in G : \A j \in G : <<s, j>> \in R
    BY <1>4, <1>6, <1>7, <2>1, Best
  <2> QED
    BY <1>5, <2>2
<1>9. ASSUME NEW j \in DOMAIN rows, BetterReading(rows, i, j), BetterReading(rows, j, i) PROVE i = j
  BY <1>1, <1>2, <1>9
<1> QED
  BY <1>8, <1>9 DEF G

(* What is merged into the row that stays is the latest of what the rows had.       *)
LEMMA LatestMarkIs ==
  ASSUME NEW rows, Table(rows, ReadingRow), NEW i \in DOMAIN rows, NEW r \in Readers
  PROVE  /\ LatestMark(rows, i)[r] \in Nat
         /\ \E j \in SamePlace(rows, i) : LatestMark(rows, i)[r] = rows[j].mark[r]
         /\ \A j \in SamePlace(rows, i) : LatestMark(rows, i)[r] >= rows[j].mark[r]
<1> DEFINE G == SamePlace(rows, i)
           f == [j \in G |-> rows[j].mark[r]]
           S == {rows[j].mark[r] : j \in G}
<1>1. i \in G /\ G \subseteq DOMAIN rows
  BY SameFile
<1>2. IsFiniteSet(G)
  BY <1>1, FS_Subset DEF Table
<1>3. \A j \in G : f[j] \in Nat /\ f[j] = rows[j].mark[r]
  BY <1>1 DEF Table, ReadingRow
<1>4. LatestMark(rows, i)[r] = Max(S)
  BY DEF LatestMark
<1> HIDE DEF f
<1>5. \A x : x \in S <=> \E j \in G : x = f[j]
  BY <1>3
<1> HIDE DEF S, G
<1>6. Max(S) \in S /\ Max(S) \in Nat /\ \A y \in S : Max(S) >= y
  BY <1>1, <1>2, <1>3, <1>5, MaxOver
<1>7. \E j \in G : Max(S) = rows[j].mark[r]
  BY <1>3, <1>5, <1>6
<1>8. \A j \in G : Max(S) >= rows[j].mark[r]
  BY <1>3, <1>5, <1>6
<1> QED
  BY <1>4, <1>6, <1>7, <1>8 DEF G

(* One row of each file is left, with the latest mark of each reader.               *)
MergesReadings(rows, new) ==
  /\ Table(new, ReadingRow) /\ ~Duplicates(new) /\ DOMAIN new \subseteq DOMAIN rows
  /\ \A i \in DOMAIN new :
       /\ new[i].path = rows[i].path /\ RowPath(new[i]) = RowPath(rows[i])
       /\ new[i].mark = LatestMark(rows, i)
  /\ \A i \in DOMAIN rows : \E s \in DOMAIN new : RowPath(rows[s]) = RowPath(rows[i])

LEMMA ReadingDuplicatesOf ==
  ASSUME NEW d, Tabled(d), NEW e, e = ReadingDuplicates(d)
  PROVE  /\ e # Failed /\ Keeps(d, e, {"readings"}) /\ Tabled(e)
         /\ MergesReadings(d.readings, e.readings)
<1> DEFINE rows == d.readings
           Survivors == {i \in DOMAIN rows : \A j \in SamePlace(rows, i) : BetterReading(rows, i, j)}
           new == [i \in Survivors |-> [rows[i] EXCEPT !.mark = LatestMark(rows, i)]]
           made == [d EXCEPT !.readings = new]
<1>1. e = made
  BY DEF ReadingDuplicates
<1>2. DOMAIN d = Columns
  BY HasColumns
<1>3. DOMAIN made = Columns /\ made.readings = new /\ \A f \in Columns \ {"readings"} : made[f] = d[f]
  BY <1>2 DEF Columns
<1>4. made # Failed
  BY <1>3, NotFailed
<1>5. Table(rows, ReadingRow)
  BY DEF Tabled
<1>6. DOMAIN new = Survivors /\ \A i \in Survivors : new[i] = [rows[i] EXCEPT !.mark = LatestMark(rows, i)]
  OBVIOUS
<1>7. Survivors \subseteq DOMAIN rows
      /\ \A i \in Survivors : \A j \in SamePlace(rows, i) : BetterReading(rows, i, j)
  OBVIOUS
<1>8. \A i \in DOMAIN rows : \E s \in Survivors : RowPath(rows[s]) = RowPath(rows[i])
  <2> SUFFICES ASSUME NEW i \in DOMAIN rows
               PROVE  \E s \in Survivors : RowPath(rows[s]) = RowPath(rows[i])
    OBVIOUS
  <2>1. PICK s \in SamePlace(rows, i) : \A j \in SamePlace(rows, i) : BetterReading(rows, s, j)
    BY <1>5, BestReading
  <2>2. s \in DOMAIN rows /\ SamePlace(rows, s) = SamePlace(rows, i) /\ RowPath(rows[s]) = RowPath(rows[i])
    BY SameFile
  <2> QED
    BY <2>1, <2>2
<1> HIDE DEF rows, Survivors, new, made
<1>9. ASSUME NEW i \in Survivors
      PROVE  /\ new[i].path = rows[i].path /\ new[i].old = rows[i].old
             /\ new[i].mark = LatestMark(rows, i) /\ new[i] \in ReadingRow
  <2>1. rows[i] \in ReadingRow /\ i \in DOMAIN rows
    BY <1>5, <1>7 DEF Table
  <2>2. LatestMark(rows, i) \in [Readers -> Nat]
    <3>1. \A r \in Readers : LatestMark(rows, i)[r] \in Nat
      BY <1>5, <2>1, LatestMarkIs
    <3>2. LatestMark(rows, i) = [r \in Readers |-> LatestMark(rows, i)[r]]
      BY DEF LatestMark
    <3> QED
      BY <3>1, <3>2
  <2> QED
    BY <1>6, <2>1, <2>2 DEF ReadingRow
<1>10. Table(new, ReadingRow)
  <2>1. IsFiniteSet(Survivors)
    BY <1>5, <1>7, FS_Subset DEF Table
  <2>2. Survivors \subseteq Nat
    BY <1>5, <1>7 DEF Table
  <2>3. new = [i \in Survivors |-> new[i]]
    BY DEF new
  <2> QED
    BY <1>6, <1>9, <2>1, <2>2, <2>3 DEF Table
<1>11. \A i \in Survivors : RowPath(new[i]) = RowPath(rows[i])
  BY <1>9 DEF RowPath
<1>12. ~Duplicates(new)
  <2>1. ASSUME NEW i \in Survivors, NEW j \in Survivors, RowPath(rows[i]) = RowPath(rows[j]) PROVE i = j
    <3>1. j \in SamePlace(rows, i) /\ i \in SamePlace(rows, j)
      BY <1>7, <2>1, SameFile
    <3> QED
      BY <1>5, <1>7, <3>1, BestReading
  <2> QED
    BY <1>6, <1>11, <2>1 DEF Duplicates, SamePlace, At
<1>13. Tabled(made)
  BY <1>2, <1>3, <1>10 DEF Tabled, Columns
<1>14. \A i \in DOMAIN rows : \E s \in DOMAIN new : RowPath(rows[s]) = RowPath(rows[i])
  BY <1>6, <1>8
<1> QED
  <2>1. Keeps(d, made, {"readings"})
    BY <1>3 DEF Keeps
  <2>2. MergesReadings(rows, new)
    BY <1>6, <1>7, <1>9, <1>10, <1>11, <1>12, <1>14 DEF MergesReadings
  <2> QED
    BY <1>1, <1>3, <1>4, <1>13, <2>1, <2>2 DEF rows

(* The same order for tracks, without the bookmarks.                                *)
LEMMA BestTrack ==
  ASSUME NEW rows, Table(rows, TrackRow), NEW i \in DOMAIN rows
  PROVE  /\ \E s \in SamePlace(rows, i) : \A j \in SamePlace(rows, i) : BetterTrack(rows, s, j)
         /\ \A j \in DOMAIN rows : BetterTrack(rows, i, j) /\ BetterTrack(rows, j, i) => i = j
<1> DEFINE G == SamePlace(rows, i)
           R == {r \in G \X G : BetterTrack(rows, r[1], r[2])}
<1>1. \A j \in DOMAIN rows : j \in Nat /\ rows[j].there \in BOOLEAN
  BY DEF Table, TrackRow
<1>2. G \subseteq DOMAIN rows /\ i \in G
  BY SameFile
<1>3. IsFiniteSet(G)
  BY <1>2, FS_Subset DEF Table
<1>4. \A x, y \in G : <<x, y>> \in R <=> BetterTrack(rows, x, y)
  OBVIOUS
<1> HIDE DEF R, G
<1>5. ASSUME NEW x \in G, NEW y \in G PROVE <<x, y>> \in R \/ <<y, x>> \in R
  BY <1>1, <1>2, <1>4 DEF BetterTrack
<1>6. ASSUME NEW x \in G, NEW y \in G, NEW z \in G, <<x, y>> \in R, <<y, z>> \in R
      PROVE  <<x, z>> \in R
  BY <1>1, <1>2, <1>4, <1>6 DEF BetterTrack
<1>7. \E s \in G : \A j \in G : BetterTrack(rows, s, j)
  <2>1. G # {}
    BY <1>2
  <2>2. PICK s \in G : \A j \in G : <<s, j>> \in R
    BY <1>3, <1>5, <1>6, <2>1, Best
  <2> QED
    BY <1>4, <2>2
<1>8. ASSUME NEW j \in DOMAIN rows, BetterTrack(rows, i, j), BetterTrack(rows, j, i) PROVE i = j
  BY <1>1, <1>8 DEF BetterTrack
<1> QED
  BY <1>7, <1>8 DEF G

MostPlays(rows, i) == Max({rows[j].plays : j \in SamePlace(rows, i)})

LEMMA MostPlaysIs ==
  ASSUME NEW rows, Table(rows, TrackRow), NEW i \in DOMAIN rows
  PROVE  /\ MostPlays(rows, i) \in Nat
         /\ \E j \in SamePlace(rows, i) : MostPlays(rows, i) = rows[j].plays
         /\ \A j \in SamePlace(rows, i) : MostPlays(rows, i) >= rows[j].plays
<1> DEFINE G == SamePlace(rows, i)
           f == [j \in G |-> rows[j].plays]
           S == {rows[j].plays : j \in G}
<1>1. i \in G /\ G \subseteq DOMAIN rows
  BY SameFile
<1>2. IsFiniteSet(G)
  BY <1>1, FS_Subset DEF Table
<1>3. \A j \in G : f[j] \in Nat /\ f[j] = rows[j].plays
  BY <1>1 DEF Table, TrackRow
<1>4. MostPlays(rows, i) = Max(S)
  BY DEF MostPlays
<1> HIDE DEF f
<1>5. \A x : x \in S <=> \E j \in G : x = f[j]
  BY <1>3
<1> HIDE DEF S, G
<1>6. Max(S) \in S /\ Max(S) \in Nat /\ \A y \in S : Max(S) >= y
  BY <1>1, <1>2, <1>3, <1>5, MaxOver
<1>7. \E j \in G : Max(S) = rows[j].plays
  BY <1>3, <1>5, <1>6
<1>8. \A j \in G : Max(S) >= rows[j].plays
  BY <1>3, <1>5, <1>6
<1> QED
  BY <1>4, <1>6, <1>7, <1>8 DEF G

(* One row of each track, with the favourites, counts and places of the others.     *)
LEMMA MergedTracksOf ==
  ASSUME NEW rows, Table(rows, TrackRow), \A i \in DOMAIN rows : RowPath(rows[i]) # Elsewhere,
         NEW new, new = MergedTracks(rows)
  PROVE  /\ Table(new, TrackRow) /\ Told(new) /\ DOMAIN new \subseteq DOMAIN rows
         /\ \A i \in DOMAIN new :
              /\ RowPath(new[i]) = RowPath(rows[i]) /\ new[i].album = rows[i].album
              /\ new[i].liked <=> \E j \in SamePlace(rows, i) : rows[j].liked
              /\ new[i].listed <=> \E j \in SamePlace(rows, i) : rows[j].listed
              /\ new[i].plays = MostPlays(rows, i)
         /\ \A i \in DOMAIN rows : \E s \in DOMAIN new : RowPath(rows[s]) = RowPath(rows[i])
<1> DEFINE Survivors == {i \in DOMAIN rows : \A j \in SamePlace(rows, i) : BetterTrack(rows, i, j)}
           Liked(i) == \E j \in SamePlace(rows, i) : rows[j].liked
           Listed(i) == \E j \in SamePlace(rows, i) : rows[j].listed
           Row(i) == [InPlace(rows[i], RowPath(rows[i])) EXCEPT
                        !.liked = Liked(i), !.plays = MostPlays(rows, i), !.listed = Listed(i)]
<1>1. DOMAIN new = Survivors /\ new = [i \in Survivors |-> Row(i)]
  BY DEF MergedTracks, MostPlays
<1>2. Survivors \subseteq DOMAIN rows
      /\ \A i \in Survivors : \A j \in SamePlace(rows, i) : BetterTrack(rows, i, j)
  OBVIOUS
<1>3. \A i \in DOMAIN rows : \E s \in Survivors : RowPath(rows[s]) = RowPath(rows[i])
  <2> SUFFICES ASSUME NEW i \in DOMAIN rows
               PROVE  \E s \in Survivors : RowPath(rows[s]) = RowPath(rows[i])
    OBVIOUS
  <2>1. PICK s \in SamePlace(rows, i) : \A j \in SamePlace(rows, i) : BetterTrack(rows, s, j)
    BY BestTrack
  <2>2. s \in DOMAIN rows /\ SamePlace(rows, s) = SamePlace(rows, i) /\ RowPath(rows[s]) = RowPath(rows[i])
    BY SameFile
  <2> QED
    BY <2>1, <2>2
<1> HIDE DEF Survivors
<1>4. ASSUME NEW i \in Survivors
      PROVE  /\ Row(i) \in TrackRow /\ Row(i).path = Relative(RowPath(rows[i]))
             /\ RowPath(rows[i]) \in Places /\ Row(i).album = rows[i].album
             /\ Row(i).liked = Liked(i) /\ Row(i).listed = Listed(i) /\ Row(i).plays = MostPlays(rows, i)
  <2> DEFINE p == RowPath(rows[i])
             moved == InPlace(rows[i], p)
             liked == Liked(i)
             listed == Listed(i)
             plays == MostPlays(rows, i)
  <2>1. rows[i] \in TrackRow /\ i \in DOMAIN rows
    BY <1>2 DEF Table
  <2>2. p \in Places
    BY <2>1, PathOf DEF TrackRow
  <2>3. liked \in BOOLEAN /\ listed \in BOOLEAN
    OBVIOUS
  <2>4. plays \in Nat
    BY <2>1, MostPlaysIs
  <2>5. Row(i) = [moved EXCEPT !.liked = liked, !.plays = plays, !.listed = listed]
    OBVIOUS
  <2>6. moved \in TrackRow /\ moved.path = Relative(p) /\ moved.album = rows[i].album
    <3>1. DOMAIN rows[i] = {"path", "old", "there", "album", "liked", "plays", "listed"}
      BY <2>1 DEF TrackRow
    <3> HIDE DEF p
    <3> QED
      BY <2>1, <2>2, <3>1, InPlaceTyped, InPlaceOf
  <2> HIDE DEF p, moved, liked, listed, plays, Row
  <2>7. /\ Row(i) \in TrackRow /\ Row(i).path = Relative(p) /\ Row(i).album = rows[i].album
        /\ Row(i).liked = liked /\ Row(i).listed = listed /\ Row(i).plays = plays
    BY <2>3, <2>4, <2>5, <2>6 DEF TrackRow
  <2> QED
    BY <2>2, <2>7 DEF p, liked, listed, plays
<1>5. \A i \in Survivors : new[i] = Row(i)
  BY <1>1
<1> HIDE DEF Row
<1>6. \A i \in Survivors : new[i].path = Relative(RowPath(rows[i]))
  BY <1>4, <1>5
<1>7. Table(new, TrackRow)
  <2>1. IsFiniteSet(Survivors) /\ Survivors \subseteq Nat
    BY <1>2, FS_Subset DEF Table
  <2> QED
    BY <1>1, <1>4, <2>1 DEF Table
<1>8. \A i \in Survivors : RowPath(new[i]) = RowPath(rows[i])
  BY <1>6, RelativeOf DEF RowPath
<1>9. Told(new)
  <2>1. AllRelative(new)
    BY <1>1, <1>6, RelativeOf DEF AllRelative
  <2>2. ASSUME NEW i \in Survivors, NEW j \in Survivors, new[i].path = new[j].path PROVE i = j
    <3>1. RowPath(rows[i]) = RowPath(rows[j])
      BY <1>6, <2>2, RelativeTells
    <3>2. j \in SamePlace(rows, i) /\ i \in SamePlace(rows, j)
      BY <1>2, <3>1, SameFile
    <3> QED
      BY <1>2, <3>2, BestTrack
  <2> QED
    BY <1>1, <2>1, <2>2 DEF Told
<1>10. ASSUME NEW i \in Survivors
      PROVE  /\ new[i].album = rows[i].album
             /\ new[i].liked <=> \E j \in SamePlace(rows, i) : rows[j].liked
             /\ new[i].listed <=> \E j \in SamePlace(rows, i) : rows[j].listed
             /\ new[i].plays = MostPlays(rows, i)
  BY <1>4, <1>5
<1> QED
  BY <1>1, <1>2, <1>3, <1>7, <1>8, <1>9, <1>10

(* One home for the albums of a folder.                                             *)
LEMMA SurvivingAlbum ==
  ASSUME NEW d, Table(d.albums, AlbumRow), NEW tracks, Table(tracks, TrackRow),
         NEW a \in DOMAIN d.albums
  PROVE  /\ AlbumSurvivor(d, tracks, a) \in SamePlace(d.albums, a)
         /\ \A b \in DOMAIN d.albums : SamePlace(d.albums, b) = SamePlace(d.albums, a) =>
              AlbumSurvivor(d, tracks, b) = AlbumSurvivor(d, tracks, a)
<1> DEFINE Of(b) == Cardinality({i \in DOMAIN tracks : tracks[i].album = b})
           G == SamePlace(d.albums, a)
           Better(s, b) == Of(s) > Of(b) \/ (Of(s) = Of(b) /\ s >= b)
           R == {r \in G \X G : Better(r[1], r[2])}
<1>1. ASSUME NEW b PROVE Of(b) \in Nat
  <2>1. IsFiniteSet({i \in DOMAIN tracks : tracks[i].album = b})
    BY FS_Subset DEF Table
  <2> QED
    BY <2>1, FS_CardinalityType
<1>2. a \in G /\ G \subseteq DOMAIN d.albums
  BY SameFile
<1>3. IsFiniteSet(G) /\ \A b \in G : b \in Nat
  BY <1>2, FS_Subset DEF Table
<1>4. AlbumSurvivor(d, tracks, a) = CHOOSE s \in G : \A b \in G : Better(s, b)
  BY DEF AlbumSurvivor
<1>5. \A x, y \in G : <<x, y>> \in R <=> Better(x, y)
  OBVIOUS
<1> HIDE DEF R, G, Of
<1>6. ASSUME NEW x \in G, NEW y \in G PROVE <<x, y>> \in R \/ <<y, x>> \in R
  BY <1>1, <1>3, <1>5
<1>7. ASSUME NEW x \in G, NEW y \in G, NEW z \in G, <<x, y>> \in R, <<y, z>> \in R
      PROVE  <<x, z>> \in R
  BY <1>1, <1>3, <1>5, <1>7
<1>8. \E s \in G : \A b \in G : Better(s, b)
  <2>1. G # {}
    BY <1>2
  <2>2. PICK s \in G : \A b \in G : <<s, b>> \in R
    BY <1>3, <1>6, <1>7, <2>1, Best
  <2> QED
    BY <1>5, <2>2
<1>9. AlbumSurvivor(d, tracks, a) \in G
  BY <1>4, <1>8
<1>10. ASSUME NEW b \in DOMAIN d.albums, SamePlace(d.albums, b) = G
       PROVE  AlbumSurvivor(d, tracks, b) = AlbumSurvivor(d, tracks, a)
  BY <1>10, SameFile DEF AlbumSurvivor, G
<1> QED
  BY <1>9, <1>10 DEF G

(* One row of each file and of each folder is left, with what the others had.       *)
MergesMusic(d, e) ==
  /\ Told(e.tracks) /\ DOMAIN e.tracks \subseteq DOMAIN d.tracks
  /\ \A i \in DOMAIN e.tracks :
       /\ RowPath(e.tracks[i]) = RowPath(d.tracks[i])
       /\ e.tracks[i].liked <=> \E j \in SamePlace(d.tracks, i) : d.tracks[j].liked
       /\ e.tracks[i].listed <=> \E j \in SamePlace(d.tracks, i) : d.tracks[j].listed
       /\ e.tracks[i].plays = MostPlays(d.tracks, i)
       /\ e.tracks[i].album \in SamePlace(d.albums, d.tracks[i].album)
  /\ \A i \in DOMAIN d.tracks : \E s \in DOMAIN e.tracks :
       RowPath(d.tracks[s]) = RowPath(d.tracks[i])
  /\ Told(e.albums) /\ DOMAIN e.albums \subseteq DOMAIN d.albums
  /\ \A a \in DOMAIN e.albums :
       /\ RowPath(e.albums[a]) = RowPath(d.albums[a])
       /\ e.albums[a].artists = UNION {d.albums[b].artists : b \in SamePlace(d.albums, a)}

LEMMA MusicPathsOf ==
  ASSUME NEW d, Tabled(d), NEW e, e = MusicPaths(d)
  PROVE  /\ e = Failed <=> \/ \E i \in DOMAIN d.tracks : RowPath(d.tracks[i]) = Elsewhere
                           \/ \E a \in DOMAIN d.albums : RowPath(d.albums[a]) = Elsewhere
         /\ e # Failed =>
              Keeps(d, e, {"tracks", "albums"}) /\ Tabled(e) /\ MergesMusic(d, e)
<1> DEFINE bad == \/ \E i \in DOMAIN d.tracks : RowPath(d.tracks[i]) = Elsewhere
                  \/ \E a \in DOMAIN d.albums : RowPath(d.albums[a]) = Elsewhere
           tracks == MergedTracks(d.tracks)
           Home(a) == AlbumSurvivor(d, tracks, a)
           Kept == {Home(a) : a \in DOMAIN d.albums}
           Artists(a) == UNION {d.albums[b].artists : b \in SamePlace(d.albums, a)}
           Track(i) == [tracks[i] EXCEPT !.album = Home(tracks[i].album)]
           Album(a) == [InPlace(d.albums[a], RowPath(d.albums[a])) EXCEPT !.artists = Artists(a)]
           newTracks == [i \in DOMAIN tracks |-> Track(i)]
           newAlbums == [a \in Kept |-> Album(a)]
           made == [d EXCEPT !.tracks = newTracks, !.albums = newAlbums]
<1>1. e = IF bad THEN Failed ELSE made
  BY DEF MusicPaths
<1>2. DOMAIN d = Columns
  BY HasColumns
<1>3. /\ DOMAIN made = Columns /\ made.tracks = newTracks /\ made.albums = newAlbums
      /\ \A f \in Columns \ {"tracks", "albums"} : made[f] = d[f]
  BY <1>2 DEF Columns
<1>4. made # Failed
  BY <1>3, NotFailed
<1>5. /\ DOMAIN newTracks = DOMAIN tracks /\ \A i \in DOMAIN tracks : newTracks[i] = Track(i)
      /\ DOMAIN newAlbums = Kept /\ \A a \in Kept : newAlbums[a] = Album(a)
      /\ newTracks = [i \in DOMAIN tracks |-> newTracks[i]]
      /\ newAlbums = [a \in Kept |-> newAlbums[a]]
  OBVIOUS
<1>6. Table(d.tracks, TrackRow) /\ Table(d.albums, AlbumRow)
      /\ \A i \in DOMAIN d.tracks : d.tracks[i].album \in DOMAIN d.albums
  BY DEF Tabled
<1> HIDE DEF made, newTracks, newAlbums, bad
<1>7. ASSUME ~bad
      PROVE  /\ Table(tracks, TrackRow) /\ Told(tracks) /\ DOMAIN tracks \subseteq DOMAIN d.tracks
             /\ \A i \in DOMAIN tracks :
                  /\ RowPath(tracks[i]) = RowPath(d.tracks[i]) /\ tracks[i].album = d.tracks[i].album
                  /\ tracks[i].liked <=> \E j \in SamePlace(d.tracks, i) : d.tracks[j].liked
                  /\ tracks[i].listed <=> \E j \in SamePlace(d.tracks, i) : d.tracks[j].listed
                  /\ tracks[i].plays = MostPlays(d.tracks, i)
             /\ \A i \in DOMAIN d.tracks : \E s \in DOMAIN tracks :
                  RowPath(d.tracks[s]) = RowPath(d.tracks[i])
  <2>1. \A i \in DOMAIN d.tracks : RowPath(d.tracks[i]) # Elsewhere
    BY <1>7 DEF bad
  <2> QED
    BY <1>6, <2>1, MergedTracksOf
<1> HIDE DEF tracks, Home
<1>8. ASSUME ~bad, NEW a \in DOMAIN d.albums
      PROVE  /\ Home(a) \in SamePlace(d.albums, a)
             /\ \A b \in DOMAIN d.albums : SamePlace(d.albums, b) = SamePlace(d.albums, a) => Home(b) = Home(a)
  BY <1>6, <1>7, <1>8, SurvivingAlbum DEF Home
<1>9. ASSUME ~bad, NEW a \in Kept
      PROVE  a \in DOMAIN d.albums /\ Home(a) = a
  <2>1. PICK b \in DOMAIN d.albums : a = Home(b)
    OBVIOUS
  <2>2. a \in SamePlace(d.albums, b)
    BY <1>8, <1>9, <2>1
  <2>3. a \in DOMAIN d.albums /\ SamePlace(d.albums, a) = SamePlace(d.albums, b)
    BY <2>2, SameFile
  <2> QED
    BY <1>8, <1>9, <2>1, <2>3
<1>10. ASSUME NEW a \in DOMAIN d.albums PROVE Home(a) \in Kept
  OBVIOUS
<1> HIDE DEF Kept
<1>11. ASSUME ~bad, NEW i \in DOMAIN tracks
       PROVE  /\ Track(i) \in TrackRow /\ Track(i).path = tracks[i].path
              /\ RowPath(Track(i)) = RowPath(tracks[i]) /\ Track(i).liked = tracks[i].liked
              /\ Track(i).listed = tracks[i].listed /\ Track(i).plays = tracks[i].plays
              /\ Track(i).album \in Kept /\ Track(i).album \in SamePlace(d.albums, d.tracks[i].album)
  <2> DEFINE home == Home(tracks[i].album)
  <2>1. tracks[i] \in TrackRow
    BY <1>7, <1>11 DEF Table
  <2>2. tracks[i].album \in DOMAIN d.albums /\ tracks[i].album = d.tracks[i].album
    BY <1>6, <1>7, <1>11
  <2>3. home \in SamePlace(d.albums, d.tracks[i].album) /\ home \in Kept
    BY <1>8, <1>10, <1>11, <2>2
  <2>4. home \in Nat
    BY <1>6, <2>2, <2>3, SameFile DEF Table
  <2>5. Track(i) = [tracks[i] EXCEPT !.album = home]
    OBVIOUS
  <2> HIDE DEF home, Track
  <2>6. /\ Track(i) \in TrackRow /\ Track(i).album = home /\ Track(i).path = tracks[i].path
        /\ Track(i).old = tracks[i].old /\ Track(i).liked = tracks[i].liked
        /\ Track(i).listed = tracks[i].listed /\ Track(i).plays = tracks[i].plays
    BY <2>1, <2>4, <2>5 DEF TrackRow
  <2> QED
    BY <2>3, <2>6 DEF RowPath
<1>12. ASSUME ~bad, NEW a \in Kept
       PROVE  /\ Album(a) \in AlbumRow /\ Album(a).path = Relative(RowPath(d.albums[a]))
              /\ RowPath(Album(a)) = RowPath(d.albums[a]) /\ Album(a).artists = Artists(a)
  <2> DEFINE p == RowPath(d.albums[a])
             row == d.albums[a]
             artists == Artists(a)
  <2>1. a \in DOMAIN d.albums /\ row \in AlbumRow
    BY <1>6, <1>9, <1>12 DEF Table
  <2>2. p \in Places
    BY <1>12, <2>1, PathOf DEF AlbumRow, bad
  <2>3. artists \in SUBSET STRING
    <3>1. \A b \in SamePlace(d.albums, a) : d.albums[b].artists \in SUBSET STRING
      BY <1>6, <2>1, SameFile DEF Table, AlbumRow
    <3> QED
      BY <3>1
  <2>4. InPlace(row, p) \in AlbumRow /\ InPlace(row, p).path = Relative(p)
    <3>1. {"path", "old"} \subseteq DOMAIN row
      BY <2>1 DEF AlbumRow
    <3> HIDE DEF p, row
    <3> QED
      BY <2>1, <2>2, <3>1, InPlaceTyped, InPlaceOf
  <2>5. Album(a) = [InPlace(row, p) EXCEPT !.artists = artists]
    OBVIOUS
  <2> HIDE DEF p, row, artists, Album
  <2>6. Album(a) \in AlbumRow /\ Album(a).path = Relative(p) /\ Album(a).artists = artists
    BY <2>3, <2>4, <2>5 DEF AlbumRow
  <2>7. RowPath(Album(a)) = p
    BY <2>6, RelativeOf DEF RowPath
  <2> QED
    BY <2>6, <2>7 DEF p, artists
<1> HIDE DEF Track, Album, Artists
<1>13. ASSUME ~bad
       PROVE  /\ Table(newTracks, TrackRow) /\ Told(newTracks)
              /\ Table(newAlbums, AlbumRow) /\ Told(newAlbums)
  <2>1. Table(newTracks, TrackRow)
    BY <1>5, <1>7, <1>11, <1>13 DEF Table
  <2>2. \A i \in DOMAIN tracks : newTracks[i].path = tracks[i].path
    BY <1>5, <1>11, <1>13
  <2>3. Told(newTracks)
    BY <1>5, <1>7, <1>13, <2>2 DEF Told, AllRelative
  <2>4. Kept \subseteq DOMAIN d.albums
    BY <1>9, <1>13
  <2>5. IsFiniteSet(Kept) /\ Kept \subseteq Nat
    BY <1>6, <2>4, FS_Subset DEF Table
  <2>6. Table(newAlbums, AlbumRow)
    BY <1>5, <1>12, <1>13, <2>5 DEF Table
  <2>7. \A a \in Kept : newAlbums[a].path = Relative(RowPath(d.albums[a]))
    BY <1>5, <1>12, <1>13
  <2>8. AllRelative(newAlbums)
    BY <1>5, <2>7, RelativeOf DEF AllRelative
  <2>9. ASSUME NEW a \in Kept, NEW b \in Kept, newAlbums[a].path = newAlbums[b].path PROVE a = b
    <3>1. RowPath(d.albums[a]) = RowPath(d.albums[b])
      BY <2>7, <2>9, RelativeTells
    <3>2. SamePlace(d.albums, a) = SamePlace(d.albums, b)
      BY <3>1 DEF SamePlace
    <3>3. Home(a) = Home(b)
      BY <1>8, <1>13, <2>4, <3>2
    <3> QED
      BY <1>9, <1>13, <3>3
  <2>10. Told(newAlbums)
    BY <1>5, <2>8, <2>9 DEF Told
  <2> QED
    BY <2>1, <2>3, <2>6, <2>10
<1>14. ASSUME ~bad PROVE Tabled(made)
  <2>1. \A i \in DOMAIN newTracks : newTracks[i].album \in DOMAIN newAlbums
    BY <1>5, <1>11, <1>14
  <2>2. \A i, j \in DOMAIN newTracks : RowPath(newTracks[i]) = RowPath(newTracks[j]) => i = j
    <3>1. Pathed(newTracks)
      BY <1>13, <1>14 DEF Table, TrackRow, Pathed
    <3> QED
      BY <1>13, <1>14, <3>1, ToldPlaces
  <2> QED
    BY <1>2, <1>3, <1>13, <1>14, <2>1, <2>2 DEF Tabled, Columns
<1>15. e = Failed <=> bad
  BY <1>1, <1>4
<1>16. ASSUME e # Failed
       PROVE  Keeps(d, e, {"tracks", "albums"}) /\ Tabled(e) /\ MergesMusic(d, e)
  <2>1. ~bad /\ e = made
    BY <1>1, <1>16
  <2>2. e.tracks = newTracks /\ e.albums = newAlbums /\ Keeps(d, e, {"tracks", "albums"})
    BY <1>3, <2>1 DEF Keeps
  <2>3. Kept \subseteq DOMAIN d.albums
    BY <1>9, <2>1
  <2>4. ASSUME NEW i \in DOMAIN tracks
        PROVE  /\ RowPath(newTracks[i]) = RowPath(d.tracks[i])
               /\ newTracks[i].liked <=> \E j \in SamePlace(d.tracks, i) : d.tracks[j].liked
               /\ newTracks[i].listed <=> \E j \in SamePlace(d.tracks, i) : d.tracks[j].listed
               /\ newTracks[i].plays = MostPlays(d.tracks, i)
               /\ newTracks[i].album \in SamePlace(d.albums, d.tracks[i].album)
    <3>1. newTracks[i] = Track(i)
      BY <1>5
    <3>2. /\ RowPath(Track(i)) = RowPath(tracks[i]) /\ Track(i).liked = tracks[i].liked
          /\ Track(i).listed = tracks[i].listed /\ Track(i).plays = tracks[i].plays
          /\ Track(i).album \in SamePlace(d.albums, d.tracks[i].album)
      BY <1>11, <2>1
    <3>3. /\ RowPath(tracks[i]) = RowPath(d.tracks[i])
          /\ tracks[i].liked <=> \E j \in SamePlace(d.tracks, i) : d.tracks[j].liked
          /\ tracks[i].listed <=> \E j \in SamePlace(d.tracks, i) : d.tracks[j].listed
          /\ tracks[i].plays = MostPlays(d.tracks, i)
      BY <1>7, <2>1
    <3> QED
      BY <3>1, <3>2, <3>3
  <2>5. \A a \in Kept : RowPath(newAlbums[a]) = RowPath(d.albums[a]) /\ newAlbums[a].artists = Artists(a)
    BY <1>5, <1>12, <2>1
  <2>6. \A i \in DOMAIN d.tracks : \E s \in DOMAIN tracks : RowPath(d.tracks[s]) = RowPath(d.tracks[i])
    BY <1>7, <2>1
  <2>7. DOMAIN tracks \subseteq DOMAIN d.tracks
    BY <1>7, <2>1
  <2>8. DOMAIN e.tracks = DOMAIN tracks /\ DOMAIN e.albums = Kept
    BY <1>5, <2>2
  <2>9. Tabled(e) /\ Told(e.tracks) /\ Told(e.albums)
    BY <1>13, <1>14, <2>1, <2>2
  <2> QED
    BY <2>2, <2>3, <2>4, <2>5, <2>6, <2>7, <2>8, <2>9 DEF MergesMusic, Artists
<1> QED
  BY <1>15, <1>16 DEF bad

(* What the migrations of the accounts leave alone.                                 *)
LEMMA AccountsTabled ==
  ASSUME NEW d, Tabled(d), NEW e, Keeps(d, e, {"accounts", "device"}),
         \A k \in DOMAIN e.accounts :
           DOMAIN e.accounts[k] = AccountColumns /\ e.accounts[k].deleted \in BOOLEAN,
         DOMAIN e.device = {"profile", "account"}, Nobody \notin DOMAIN e.accounts
  PROVE  e # Failed /\ Tabled(e)
<1>1. DOMAIN e = Columns /\ \A f \in Columns \ {"accounts", "device"} : e[f] = d[f]
  BY DEF Keeps
<1>2. e # Failed
  BY <1>1, NotFailed
<1>3. Tabled(e)
  BY <1>1 DEF Tabled, Columns, Tables
<1> QED
  BY <1>2, <1>3

AccountKeys(d) == DOMAIN d.accounts \cup d.profiles \cup {"default"}
AccountOf(k) == [name |-> k, display |-> Nobody, deleted |-> FALSE]

MakesAccounts(d, e) ==
  /\ DOMAIN e.accounts = AccountKeys(d)
  /\ \A k \in AccountKeys(d) :
       e.accounts[k] = IF k \in DOMAIN d.accounts THEN d.accounts[k] ELSE AccountOf(k)
  /\ e.device.profile = d.device.profile
  /\ e.device.account = IF d.device.account = Nobody /\ d.device.profile \in AccountKeys(d)
                        THEN d.device.profile ELSE d.device.account

LEMMA LegacyAccountsOf ==
  ASSUME NEW d, Tabled(d), NEW e, e = LegacyAccounts(d)
  PROVE  /\ e # Failed /\ Keeps(d, e, {"accounts", "device"}) /\ Tabled(e)
         /\ MakesAccounts(d, e)
<1> DEFINE keys == AccountKeys(d)
           new == (d.profiles \cup {"default"}) \ DOMAIN d.accounts
           all == DOMAIN d.accounts \cup new
           accounts == [k \in all |-> IF k \in new
                                      THEN AccountOf(k) ELSE d.accounts[k]]
           account == IF d.device.account = Nobody /\ d.device.profile \in all
                      THEN d.device.profile ELSE d.device.account
<1>1. e = [d EXCEPT !.accounts = accounts, !.device.account = account]
  BY DEF LegacyAccounts, AccountOf
<1>2. DOMAIN d = Columns /\ DOMAIN d.device = {"profile", "account"}
  BY HasColumns DEF Tabled
<1>3. all = keys
  BY DEF AccountKeys
<1>4. DOMAIN accounts = keys /\ \A k \in keys :
        accounts[k] = IF k \in DOMAIN d.accounts THEN d.accounts[k] ELSE AccountOf(k)
  BY <1>3
<1> HIDE DEF accounts, account
<1>5. /\ DOMAIN e = Columns /\ e.accounts = accounts
      /\ DOMAIN e.device = {"profile", "account"}
      /\ e.device.account = account /\ e.device.profile = d.device.profile
      /\ \A f \in Columns \ {"accounts", "device"} : e[f] = d[f]
  BY <1>1, <1>2, ZenonT(60) DEF Columns
<1>6. \A k \in keys : DOMAIN accounts[k] = AccountColumns /\ accounts[k].deleted \in BOOLEAN
  <2>1. ASSUME NEW k \in DOMAIN d.accounts
        PROVE  DOMAIN d.accounts[k] = AccountColumns /\ d.accounts[k].deleted \in BOOLEAN
    BY DEF Tabled
  <2>2. ASSUME NEW k
        PROVE  DOMAIN AccountOf(k) = AccountColumns /\ AccountOf(k).deleted \in BOOLEAN
    BY DEF AccountColumns, AccountOf
  <2> QED
    BY <1>4, <2>1, <2>2
<1>7. Nobody \notin keys
  BY DEF Tabled, Nobody, AccountKeys
<1>8. Keeps(d, e, {"accounts", "device"})
  BY <1>5 DEF Keeps
<1>9. e # Failed /\ Tabled(e)
  BY <1>4, <1>5, <1>6, <1>7, <1>8, AccountsTabled
<1> QED
  BY <1>3, <1>4, <1>5, <1>8, <1>9 DEF account, MakesAccounts

LEMMA DeviceOnlyOf ==
  ASSUME NEW d, Tabled(d), NEW e, e = DeviceOnly(d)
  PROVE  /\ e # Failed /\ Keeps(d, e, {"device"}) /\ Tabled(e)
         /\ e.device.profile = Nobody /\ e.device.account = d.device.account
<1>1. DOMAIN d = Columns /\ DOMAIN d.device = {"profile", "account"}
  BY HasColumns DEF Tabled
<1>2. /\ DOMAIN e = Columns /\ DOMAIN e.device = {"profile", "account"}
      /\ e.device.profile = Nobody /\ e.device.account = d.device.account
      /\ \A f \in Columns \ {"device"} : e[f] = d[f]
  BY <1>1 DEF DeviceOnly, Columns
<1>3. Keeps(d, e, {"device"}) /\ Keeps(d, e, {"accounts", "device"}) /\ e.accounts = d.accounts
  BY <1>2 DEF Keeps, Columns
<1>4. e # Failed /\ Tabled(e)
  <2>1. \A k \in DOMAIN e.accounts :
          DOMAIN e.accounts[k] = AccountColumns /\ e.accounts[k].deleted \in BOOLEAN
    BY <1>3 DEF Tabled
  <2>2. Nobody \notin DOMAIN e.accounts
    BY <1>3 DEF Tabled
  <2> QED
    BY <1>2, <1>3, <2>1, <2>2, AccountsTabled
<1> QED
  BY <1>2, <1>3, <1>4

LEMMA DeletedNamesOf ==
  ASSUME NEW d, Tabled(d), NEW e, e = DeletedNames(d)
  PROVE  /\ e # Failed /\ Keeps(d, e, {"accounts"}) /\ Tabled(e)
         /\ DOMAIN e.accounts = DOMAIN d.accounts
         /\ \A k \in DOMAIN d.accounts :
              /\ e.accounts[k].deleted = d.accounts[k].deleted
              /\ e.accounts[k].display = d.accounts[k].display
              /\ e.accounts[k].name =
                   IF d.accounts[k].deleted THEN ArchivedName(k) ELSE d.accounts[k].name
<1> DEFINE row(k) == IF d.accounts[k].deleted
                     THEN [d.accounts[k] EXCEPT !.name = ArchivedName(k)] ELSE d.accounts[k]
           accounts == [k \in DOMAIN d.accounts |-> row(k)]
<1>1. e = [d EXCEPT !.accounts = accounts]
  BY DEF DeletedNames
<1>2. DOMAIN d = Columns
  BY HasColumns
<1>3. \A k \in DOMAIN d.accounts :
        DOMAIN d.accounts[k] = AccountColumns /\ d.accounts[k].deleted \in BOOLEAN
  BY DEF Tabled
<1>4. ASSUME NEW k \in DOMAIN d.accounts
      PROVE  /\ DOMAIN row(k) = AccountColumns
             /\ row(k).deleted = d.accounts[k].deleted /\ row(k).display = d.accounts[k].display
             /\ row(k).name = IF d.accounts[k].deleted THEN ArchivedName(k) ELSE d.accounts[k].name
  BY <1>3 DEF AccountColumns
<1>5. DOMAIN accounts = DOMAIN d.accounts /\ \A k \in DOMAIN d.accounts : accounts[k] = row(k)
  OBVIOUS
<1> HIDE DEF accounts, row
<1>6. DOMAIN e = Columns /\ e.accounts = accounts /\ \A f \in Columns \ {"accounts"} : e[f] = d[f]
  BY <1>1, <1>2 DEF Columns
<1>7. Keeps(d, e, {"accounts"}) /\ Keeps(d, e, {"accounts", "device"}) /\ e.device = d.device
  BY <1>6 DEF Keeps, Columns
<1>8. e # Failed /\ Tabled(e)
  <2>1. \A k \in DOMAIN e.accounts :
          DOMAIN e.accounts[k] = AccountColumns /\ e.accounts[k].deleted \in BOOLEAN
    BY <1>3, <1>4, <1>5, <1>6
  <2>2. DOMAIN e.device = {"profile", "account"} /\ Nobody \notin DOMAIN e.accounts
    BY <1>5, <1>6, <1>7 DEF Tabled
  <2> QED
    BY <1>7, <2>1, <2>2, AccountsTabled
<1> QED
  BY <1>4, <1>5, <1>6, <1>7, <1>8

(* A name that is taken is wanted by one account alone and had by none, so names    *)
(* stay distinct.                                                                   *)
NewName(accounts, k) == IF MayTake(accounts, k) THEN accounts[k].display ELSE accounts[k].name

LEMMA NewNamesDistinct ==
  ASSUME NEW accounts, Named(accounts), NEW k \in DOMAIN accounts, NEW l \in DOMAIN accounts,
         NewName(accounts, k) = NewName(accounts, l)
  PROVE  k = l
<1>1. \A a, b \in DOMAIN accounts : accounts[a].name = accounts[b].name => a = b
  BY DEF Named, IsInjective
<1>2. CASE MayTake(accounts, k) /\ MayTake(accounts, l)
  BY <1>2 DEF MayTake, NewName
<1>3. CASE MayTake(accounts, k) /\ ~MayTake(accounts, l)
  BY <1>3 DEF MayTake, NewName
<1>4. CASE ~MayTake(accounts, k) /\ MayTake(accounts, l)
  BY <1>4 DEF MayTake, NewName
<1>5. CASE ~MayTake(accounts, k) /\ ~MayTake(accounts, l)
  BY <1>1, <1>5 DEF NewName
<1> QED
  BY <1>2, <1>3, <1>4, <1>5

LEMMA AccountNamesOf ==
  ASSUME NEW d, Tabled(d), Named(d.accounts), NEW e, e = AccountNames(d)
  PROVE  /\ e # Failed /\ Keeps(d, e, {"accounts"}) /\ Tabled(e)
         /\ DOMAIN e.accounts = DOMAIN d.accounts
         /\ \A k \in DOMAIN d.accounts :
              /\ e.accounts[k].deleted = d.accounts[k].deleted
              /\ e.accounts[k].display = Nobody
              /\ e.accounts[k].name = NewName(d.accounts, k)
<1> DEFINE named == [k \in DOMAIN d.accounts |-> NewName(d.accounts, k)]
           row(k) == [d.accounts[k] EXCEPT !.name = named[k], !.display = Nobody]
           accounts == [k \in DOMAIN d.accounts |-> row(k)]
<1>1. IsInjective(named)
  BY NewNamesDistinct DEF IsInjective
<1>2. e = IF ~IsInjective(named) THEN Failed ELSE [d EXCEPT !.accounts = accounts]
  BY DEF AccountNames, NewName
<1>3. \A k \in DOMAIN d.accounts :
        DOMAIN d.accounts[k] = AccountColumns /\ d.accounts[k].deleted \in BOOLEAN
  BY DEF Tabled
<1>4. \A k \in DOMAIN d.accounts : named[k] = NewName(d.accounts, k)
  OBVIOUS
<1> HIDE DEF named
<1>5. ASSUME NEW k \in DOMAIN d.accounts
      PROVE  /\ DOMAIN row(k) = AccountColumns
             /\ row(k).deleted = d.accounts[k].deleted /\ row(k).display = Nobody
             /\ row(k).name = NewName(d.accounts, k)
  BY <1>3, <1>4 DEF AccountColumns
<1>6. DOMAIN accounts = DOMAIN d.accounts /\ \A k \in DOMAIN d.accounts : accounts[k] = row(k)
  OBVIOUS
<1>7. DOMAIN d = Columns
  BY HasColumns
<1> HIDE DEF accounts, row
<1>8. DOMAIN e = Columns /\ e.accounts = accounts /\ \A f \in Columns \ {"accounts"} : e[f] = d[f]
  BY <1>1, <1>2, <1>7 DEF Columns
<1>9. Keeps(d, e, {"accounts"}) /\ Keeps(d, e, {"accounts", "device"}) /\ e.device = d.device
  BY <1>8 DEF Keeps, Columns
<1>10. e # Failed /\ Tabled(e)
  <2>1. \A k \in DOMAIN e.accounts :
          DOMAIN e.accounts[k] = AccountColumns /\ e.accounts[k].deleted \in BOOLEAN
    BY <1>3, <1>5, <1>6, <1>8
  <2>2. DOMAIN e.device = {"profile", "account"} /\ Nobody \notin DOMAIN e.accounts
    BY <1>6, <1>8, <1>9 DEF Tabled
  <2> QED
    BY <1>9, <2>1, <2>2, AccountsTabled
<1> QED
  BY <1>5, <1>6, <1>8, <1>9, <1>10

-----------------------------------------------------------------------------------
(* What the tool makes of a database.                                               *)
LEMMA RewrittenRows ==
  ASSUME NEW rows, Pathed(rows), \A i \in DOMAIN rows : {"path", "old"} \subseteq DOMAIN rows[i],
         \A i \in DOMAIN rows : ToolPath(rows[i]) # Elsewhere,
         \A i, j \in DOMAIN rows : ToolPath(rows[i]) = ToolPath(rows[j]) => i = j,
         NEW new, new = [i \in DOMAIN rows |-> Rewritten(rows[i])]
  PROVE  /\ Told(new) /\ DOMAIN new = DOMAIN rows
         /\ \A i \in DOMAIN rows :
              /\ RowPath(new[i]) = RowPath(rows[i])
              /\ \A c \in DOMAIN rows[i] \ {"path", "old"} : new[i][c] = rows[i][c]
         /\ \A Row \in {VideoRow, ReadingRow, TrackRow, AlbumRow} : Table(rows, Row) => Table(new, Row)
<1> DEFINE place == [i \in DOMAIN rows |-> RowPath(rows[i])]
<1>1. \A i \in DOMAIN rows : ToolPath(rows[i]) = RowPath(rows[i]) /\ RowPath(rows[i]) \in Places
  BY PathOf DEF Pathed
<1>2. /\ \A i \in DOMAIN rows : place[i] \in Places /\ Rewritten(rows[i]) = InPlace(rows[i], place[i])
      /\ \A i, j \in DOMAIN rows : place[i] = place[j] => i = j
  BY <1>1 DEF Rewritten
<1> HIDE DEF place
<1>3. new = [i \in DOMAIN rows |-> InPlace(rows[i], place[i])]
  BY <1>2
<1>4. Told(new)
  BY <1>2, <1>3, InPlaceTold
<1>5. \A i \in DOMAIN rows : new[i] = InPlace(rows[i], place[i])
  BY <1>3
<1>6. ASSUME NEW i \in DOMAIN rows
      PROVE  /\ RowPath(new[i]) = place[i]
             /\ \A c \in DOMAIN rows[i] \ {"path", "old"} : new[i][c] = rows[i][c]
  BY <1>2, <1>5, InPlaceOf
<1>7. \A i \in DOMAIN rows : place[i] = RowPath(rows[i])
  BY DEF place
<1>8. ASSUME NEW Row \in {VideoRow, ReadingRow, TrackRow, AlbumRow}, Table(rows, Row)
      PROVE  Table(new, Row)
  <2>1. \A i \in DOMAIN rows : rows[i] \in Row
    BY <1>8 DEF Table
  <2>2. \A i \in DOMAIN rows : InPlace(rows[i], place[i]) \in Row
    BY <1>2, <2>1, InPlaceTyped
  <2> QED
    BY <1>3, <1>8, <2>2 DEF Table
<1> QED
  BY <1>3, <1>4, <1>6, <1>7, <1>8

LEMMA AppliedOf ==
  ASSUME NEW d, Tabled(d), CanApply(d), NEW e, e = Applied(d)
  PROVE  /\ Keeps(d, e, Tables) /\ Tabled(e)
         /\ \A t \in Tables : Told(e[t]) /\ DOMAIN e[t] = DOMAIN d[t]
         /\ \A t \in Tables : \A i \in DOMAIN d[t] :
              /\ RowPath(e[t][i]) = RowPath(d[t][i])
              /\ \A c \in DOMAIN d[t][i] \ {"path", "old"} : e[t][i][c] = d[t][i][c]
<1> DEFINE New(t) == [i \in DOMAIN d[t] |-> Rewritten(d[t][i])]
<1>1. DOMAIN d = Columns /\ Tables \subseteq Columns
  BY HasColumns DEF Tables, Columns
<1>2. e = [d EXCEPT !.videos = New("videos"), !.readings = New("readings"),
                    !.tracks = New("tracks"), !.albums = New("albums")]
  BY DEF Applied
<1>3. \A t \in Tables : New(t) = [i \in DOMAIN d[t] |-> Rewritten(d[t][i])]
  OBVIOUS
<1> HIDE DEF New
<1>4. DOMAIN e = Columns /\ (\A t \in Tables : e[t] = New(t)) /\ \A f \in Columns \ Tables : e[f] = d[f]
  BY <1>1, <1>2 DEF Tables, Columns
<1>5. ASSUME NEW t \in Tables
      PROVE  /\ Pathed(d[t]) /\ \A i \in DOMAIN d[t] : {"path", "old"} \subseteq DOMAIN d[t][i]
  <2>1. Pathed(d[t])
    BY TablesPathed DEF Tables
  <2>2. Table(d.videos, VideoRow) /\ Table(d.readings, ReadingRow)
        /\ Table(d.tracks, TrackRow) /\ Table(d.albums, AlbumRow)
    BY DEF Tabled
  <2>3. ASSUME NEW rows, Table(rows, VideoRow) \/ Table(rows, ReadingRow)
                         \/ Table(rows, TrackRow) \/ Table(rows, AlbumRow),
               NEW i \in DOMAIN rows
        PROVE  {"path", "old"} \subseteq DOMAIN rows[i]
    BY <2>3 DEF Table, VideoRow, ReadingRow, TrackRow, AlbumRow
  <2> QED
    BY <2>1, <2>2, <2>3 DEF Tables
<1>6. ASSUME NEW t \in Tables
      PROVE  /\ Told(e[t]) /\ DOMAIN e[t] = DOMAIN d[t]
             /\ \A i \in DOMAIN d[t] :
                  /\ RowPath(e[t][i]) = RowPath(d[t][i])
                  /\ \A c \in DOMAIN d[t][i] \ {"path", "old"} : e[t][i][c] = d[t][i][c]
             /\ \A Row \in {VideoRow, ReadingRow, TrackRow, AlbumRow} :
                  Table(d[t], Row) => Table(e[t], Row)
  <2>1. e[t] = [i \in DOMAIN d[t] |-> Rewritten(d[t][i])]
    BY <1>3, <1>4
  <2>2. /\ \A i \in DOMAIN d[t] : ToolPath(d[t][i]) # Elsewhere
        /\ \A i, j \in DOMAIN d[t] : ToolPath(d[t][i]) = ToolPath(d[t][j]) => i = j
    BY DEF CanApply
  <2> QED
    BY <1>5, <2>1, <2>2, RewrittenRows
<1>7. Tabled(e)
  <2>1. /\ e.version = d.version /\ e.profiles = d.profiles /\ e.accounts = d.accounts
        /\ e.device = d.device
    BY <1>4 DEF Columns, Tables
  <2>2. /\ Table(e.videos, VideoRow) /\ Table(e.readings, ReadingRow)
        /\ Table(e.tracks, TrackRow) /\ Table(e.albums, AlbumRow)
    BY <1>6 DEF Tabled, Tables
  <2>3. DOMAIN e.tracks = DOMAIN d.tracks /\ DOMAIN e.albums = DOMAIN d.albums
    BY <1>6 DEF Tables
  <2>4. \A a \in DOMAIN d.albums : RowPath(e.albums[a]) = RowPath(d.albums[a])
    BY <1>6 DEF Tables
  <2>5. ASSUME NEW i \in DOMAIN d.tracks
        PROVE  RowPath(e.tracks[i]) = RowPath(d.tracks[i]) /\ e.tracks[i].album = d.tracks[i].album
    <3>1. "album" \in DOMAIN d.tracks[i] \ {"path", "old"}
      BY DEF Tabled, Table, TrackRow
    <3>2. "tracks" \in Tables
      BY DEF Tables
    <3> QED
      BY <1>6, <3>1, <3>2
  <2>6. /\ \A i \in DOMAIN e.tracks : e.tracks[i].album \in DOMAIN e.albums
        /\ \A i, j \in DOMAIN e.tracks :
             RowPath(e.tracks[i]) = RowPath(e.tracks[j]) /\ RowPath(e.tracks[i]) # Elsewhere =>
               RowPath(e.albums[e.tracks[i].album]) = RowPath(e.albums[e.tracks[j].album])
    BY <2>3, <2>4, <2>5 DEF Tabled
  <2> QED
    BY <1>1, <1>4, <2>1, <2>2, <2>6 DEF Tabled
<1> QED
  BY <1>4, <1>6, <1>7 DEF Keeps

-----------------------------------------------------------------------------------
(* The shelf, part by part.                                                         *)
MarkAt(d, p, r) == Max({d.readings[i].mark[r] : i \in At(d.readings, p)} \cup {0})
PlaysAt(d, p) == Max({d.tracks[i].plays : i \in At(d.tracks, p)} \cup {0})
LikedAt(d, p) == \E i \in At(d.tracks, p) : d.tracks[i].liked
ListedAt(d, p) == \E i \in At(d.tracks, p) : d.tracks[i].listed
AlbumsAt(d, p) == UNION {SamePlace(d.albums, d.tracks[i].album) : i \in At(d.tracks, p)}
ArtistsAt(d, p) == UNION {d.albums[a].artists : a \in AlbumsAt(d, p)}

LEMMA ShelfSame ==
  ASSUME NEW d, NEW e,
         \A p \in Places :
           /\ \A r \in Readers : MarkAt(e, p, r) = MarkAt(d, p, r)
           /\ PlaysAt(e, p) = PlaysAt(d, p) /\ LikedAt(e, p) = LikedAt(d, p)
           /\ ListedAt(e, p) = ListedAt(d, p) /\ ArtistsAt(e, p) = ArtistsAt(d, p)
  PROVE  Shelf(e) = Shelf(d)
<1> DEFINE Part(x, p) ==
             [mark |-> [r \in Readers |-> MarkAt(x, p, r)], liked |-> LikedAt(x, p),
              plays |-> PlaysAt(x, p), listed |-> ListedAt(x, p), artists |-> ArtistsAt(x, p)]
<1>1. ASSUME NEW x PROVE Shelf(x) = [p \in Places |-> Part(x, p)]
  BY DEF Shelf, MarkAt, LikedAt, PlaysAt, ListedAt, ArtistsAt, AlbumsAt
<1>2. ASSUME NEW p \in Places PROVE Part(e, p) = Part(d, p)
  <2>1. [r \in Readers |-> MarkAt(e, p, r)] = [r \in Readers |-> MarkAt(d, p, r)]
    OBVIOUS
  <2> QED
    BY <2>1
<1> HIDE DEF Part
<1> QED
  BY <1>1, <1>2

LEMMA MarkSame ==
  ASSUME NEW d, Table(d.readings, ReadingRow), NEW e, Table(e.readings, ReadingRow),
         NEW p, NEW r \in Readers,
         \A i \in At(d.readings, p) : \E j \in At(e.readings, p) :
           e.readings[j].mark[r] >= d.readings[i].mark[r],
         \A j \in At(e.readings, p) : \E i \in At(d.readings, p) :
           d.readings[i].mark[r] >= e.readings[j].mark[r]
  PROVE  MarkAt(e, p, r) = MarkAt(d, p, r)
<1> DEFINE Marks(x) == {x.readings[i].mark[r] : i \in At(x.readings, p)} \cup {0}
<1>1. ASSUME NEW x, Table(x.readings, ReadingRow)
      PROVE  Marks(x) \subseteq Nat /\ \E m \in Marks(x) : \A y \in Marks(x) : m >= y
  <2> DEFINE D == At(x.readings, p)
             f == [i \in D |-> x.readings[i].mark[r]]
             S == Marks(x)
  <2>1. D \subseteq DOMAIN x.readings
    BY DEF At
  <2>2. IsFiniteSet(D)
    BY <1>1, <2>1, FS_Subset DEF Table
  <2>3. \A i \in D : x.readings[i].mark[r] \in Nat
    BY <1>1, <2>1 DEF Table, ReadingRow
  <2>4. \A i \in D : f[i] \in Nat /\ f[i] = x.readings[i].mark[r]
    BY <2>3
  <2>5. \A y : y \in S <=> y = 0 \/ \E i \in D : y = f[i]
    OBVIOUS
  <2> HIDE DEF S, f, D
  <2>6. Max(S) \in S /\ S \subseteq Nat /\ \A y \in S : Max(S) >= y
    BY <2>2, <2>4, <2>5, MaxOrZero
  <2> QED
    BY <2>6 DEF S
<1>2. ASSUME NEW x PROVE MarkAt(x, p, r) = Max(Marks(x))
  BY DEF MarkAt
<1>3. \A x \in Marks(d) : \E y \in Marks(e) : y >= x
  OBVIOUS
<1>4. \A y \in Marks(e) : \E x \in Marks(d) : x >= y
  OBVIOUS
<1> HIDE DEF Marks
<1>5. Max(Marks(d)) = Max(Marks(e))
  BY <1>1, <1>3, <1>4, MaxSame
<1> QED
  BY <1>2, <1>5

LEMMA PlaysSame ==
  ASSUME NEW d, Table(d.tracks, TrackRow), NEW e, Table(e.tracks, TrackRow), NEW p,
         \A i \in At(d.tracks, p) : \E j \in At(e.tracks, p) : e.tracks[j].plays >= d.tracks[i].plays,
         \A j \in At(e.tracks, p) : \E i \in At(d.tracks, p) : d.tracks[i].plays >= e.tracks[j].plays
  PROVE  PlaysAt(e, p) = PlaysAt(d, p)
<1> DEFINE Plays(x) == {x.tracks[i].plays : i \in At(x.tracks, p)} \cup {0}
<1>1. ASSUME NEW x, Table(x.tracks, TrackRow)
      PROVE  Plays(x) \subseteq Nat /\ \E m \in Plays(x) : \A y \in Plays(x) : m >= y
  <2> DEFINE D == At(x.tracks, p)
             f == [i \in D |-> x.tracks[i].plays]
             S == Plays(x)
  <2>1. D \subseteq DOMAIN x.tracks
    BY DEF At
  <2>2. IsFiniteSet(D)
    BY <1>1, <2>1, FS_Subset DEF Table
  <2>3. \A i \in D : x.tracks[i].plays \in Nat
    BY <1>1, <2>1 DEF Table, TrackRow
  <2>4. \A i \in D : f[i] \in Nat /\ f[i] = x.tracks[i].plays
    BY <2>3
  <2>5. \A y : y \in S <=> y = 0 \/ \E i \in D : y = f[i]
    OBVIOUS
  <2> HIDE DEF S, f, D
  <2>6. Max(S) \in S /\ S \subseteq Nat /\ \A y \in S : Max(S) >= y
    BY <2>2, <2>4, <2>5, MaxOrZero
  <2> QED
    BY <2>6 DEF S
<1>2. ASSUME NEW x PROVE PlaysAt(x, p) = Max(Plays(x))
  BY DEF PlaysAt
<1>3. \A x \in Plays(d) : \E y \in Plays(e) : y >= x
  OBVIOUS
<1>4. \A y \in Plays(e) : \E x \in Plays(d) : x >= y
  OBVIOUS
<1> HIDE DEF Plays
<1>5. Max(Plays(d)) = Max(Plays(e))
  BY <1>1, <1>3, <1>4, MaxSame
<1> QED
  BY <1>2, <1>5

(* The readings play no part in what is kept of the tracks, and the other way       *)
(* round.                                                                           *)
LEMMA MusicApart ==
  ASSUME NEW d, NEW e, e.tracks = d.tracks, e.albums = d.albums, NEW p
  PROVE  /\ PlaysAt(e, p) = PlaysAt(d, p) /\ LikedAt(e, p) = LikedAt(d, p)
         /\ ListedAt(e, p) = ListedAt(d, p) /\ ArtistsAt(e, p) = ArtistsAt(d, p)
BY DEF PlaysAt, LikedAt, ListedAt, ArtistsAt, AlbumsAt

LEMMA ReadingsApart ==
  ASSUME NEW d, NEW e, e.readings = d.readings, NEW p, NEW r
  PROVE  MarkAt(e, p, r) = MarkAt(d, p, r)
BY DEF MarkAt

LEMMA SameReadings ==
  ASSUME NEW d, NEW e, DOMAIN e.readings = DOMAIN d.readings,
         \A i \in DOMAIN d.readings :
           RowPath(e.readings[i]) = RowPath(d.readings[i]) /\ e.readings[i].mark = d.readings[i].mark
  PROVE  /\ \A p, r : MarkAt(e, p, r) = MarkAt(d, p, r)
         /\ Files(e.readings) = Files(d.readings)
         /\ \A n : MarksBelow(d, n) => MarksBelow(e, n)
<1>1. \A p : At(e.readings, p) = At(d.readings, p) /\ At(d.readings, p) \subseteq DOMAIN d.readings
  BY DEF At
<1>2. ASSUME NEW p, NEW r PROVE MarkAt(e, p, r) = MarkAt(d, p, r)
  <2>1. {e.readings[i].mark[r] : i \in At(e.readings, p)} = {d.readings[i].mark[r] : i \in At(d.readings, p)}
    BY <1>1
  <2> QED
    BY <2>1 DEF MarkAt
<1>3. Files(e.readings) = Files(d.readings)
  BY DEF Files
<1>4. ASSUME NEW n, MarksBelow(d, n) PROVE MarksBelow(e, n)
  BY <1>4 DEF MarksBelow
<1> QED
  BY <1>2, <1>3, <1>4

LEMMA SameMusic ==
  ASSUME NEW d, NEW e, DOMAIN e.tracks = DOMAIN d.tracks, DOMAIN e.albums = DOMAIN d.albums,
         \A i \in DOMAIN d.tracks : d.tracks[i].album \in DOMAIN d.albums,
         \A i \in DOMAIN d.tracks :
           /\ RowPath(e.tracks[i]) = RowPath(d.tracks[i]) /\ e.tracks[i].album = d.tracks[i].album
           /\ e.tracks[i].plays = d.tracks[i].plays /\ e.tracks[i].liked = d.tracks[i].liked
           /\ e.tracks[i].listed = d.tracks[i].listed,
         \A a \in DOMAIN d.albums :
           RowPath(e.albums[a]) = RowPath(d.albums[a]) /\ e.albums[a].artists = d.albums[a].artists,
         NEW p
  PROVE  /\ PlaysAt(e, p) = PlaysAt(d, p) /\ LikedAt(e, p) = LikedAt(d, p)
         /\ ListedAt(e, p) = ListedAt(d, p) /\ ArtistsAt(e, p) = ArtistsAt(d, p)
<1>1. At(e.tracks, p) = At(d.tracks, p) /\ At(d.tracks, p) \subseteq DOMAIN d.tracks
  BY DEF At
<1>2. \A a \in DOMAIN d.albums :
        SamePlace(e.albums, a) = SamePlace(d.albums, a) /\ SamePlace(d.albums, a) \subseteq DOMAIN d.albums
  BY DEF SamePlace, At
<1>3. PlaysAt(e, p) = PlaysAt(d, p)
  <2>1. {e.tracks[i].plays : i \in At(e.tracks, p)} = {d.tracks[i].plays : i \in At(d.tracks, p)}
    BY <1>1
  <2> QED
    BY <2>1 DEF PlaysAt
<1>4. LikedAt(e, p) = LikedAt(d, p) /\ ListedAt(e, p) = ListedAt(d, p)
  BY <1>1 DEF LikedAt, ListedAt
<1>5. AlbumsAt(e, p) = AlbumsAt(d, p) /\ AlbumsAt(d, p) \subseteq DOMAIN d.albums
  BY <1>1, <1>2 DEF AlbumsAt
<1>6. ArtistsAt(e, p) = ArtistsAt(d, p)
  BY <1>5 DEF ArtistsAt
<1> QED
  BY <1>3, <1>4, <1>6

(* One row for each file, with the latest mark of each reader.                      *)
LEMMA MergedReadings ==
  ASSUME NEW d, Tabled(d), NEW e, e = ReadingDuplicates(d)
  PROVE  /\ \A p, r : r \in Readers => MarkAt(e, p, r) = MarkAt(d, p, r)
         /\ Files(e.readings) = Files(d.readings)
         /\ \A n : MarksBelow(d, n) => MarksBelow(e, n)
<1> DEFINE old == d.readings
           new == e.readings
<1>1. /\ DOMAIN new \subseteq DOMAIN old
      /\ \A i \in DOMAIN new : RowPath(new[i]) = RowPath(old[i]) /\ new[i].mark = LatestMark(old, i)
      /\ \A i \in DOMAIN old : \E s \in DOMAIN new : RowPath(old[s]) = RowPath(old[i])
      /\ Table(new, ReadingRow) /\ Table(old, ReadingRow)
  <2>1. MergesReadings(old, new)
    BY ReadingDuplicatesOf
  <2>2. Table(old, ReadingRow)
    BY DEF Tabled
  <2> HIDE DEF old, new
  <2> QED
    BY <2>1, <2>2 DEF MergesReadings
<1> HIDE DEF old, new
<1>2. ASSUME NEW i \in DOMAIN new, NEW r \in Readers
      PROVE  /\ \E j \in SamePlace(old, i) : new[i].mark[r] = old[j].mark[r]
             /\ \A j \in SamePlace(old, i) : new[i].mark[r] >= old[j].mark[r]
  BY <1>1, LatestMarkIs
<1>3. ASSUME NEW i \in DOMAIN old, NEW r \in Readers PROVE old[i].mark[r] \in Nat
  BY <1>1 DEF Table, ReadingRow
<1>4. ASSUME NEW p, NEW r \in Readers PROVE MarkAt(e, p, r) = MarkAt(d, p, r)
  <2>1. ASSUME NEW i \in At(old, p) PROVE \E j \in At(new, p) : new[j].mark[r] >= old[i].mark[r]
    <3>1. i \in DOMAIN old /\ RowPath(old[i]) = p
      BY DEF At
    <3>2. PICK s \in DOMAIN new : RowPath(old[s]) = p
      BY <1>1, <3>1
    <3>3. i \in SamePlace(old, s) /\ s \in At(new, p)
      BY <1>1, <3>1, <3>2 DEF SamePlace, At
    <3> QED
      BY <1>2, <3>2, <3>3
  <2>2. ASSUME NEW j \in At(new, p) PROVE \E i \in At(old, p) : old[i].mark[r] >= new[j].mark[r]
    <3>1. j \in DOMAIN new /\ RowPath(old[j]) = p
      BY <1>1 DEF At
    <3>2. PICK i \in SamePlace(old, j) : new[j].mark[r] = old[i].mark[r]
      BY <1>2, <3>1
    <3>3. i \in At(old, p) /\ i \in DOMAIN old
      BY <3>1 DEF SamePlace, At
    <3>4. old[i].mark[r] >= new[j].mark[r]
      BY <1>3, <3>2, <3>3
    <3> QED
      BY <3>3, <3>4
  <2> QED
    BY <1>1, <2>1, <2>2, MarkSame DEF old, new
<1>5. Files(new) = Files(old)
  <2>1. ASSUME NEW f \in Files(new) PROVE f \in Files(old)
    BY <1>1 DEF Files
  <2>2. ASSUME NEW f \in Files(old) PROVE f \in Files(new)
    <3>1. PICK i \in DOMAIN old : f = RowPath(old[i])
      BY DEF Files
    <3>2. PICK s \in DOMAIN new : RowPath(old[s]) = RowPath(old[i])
      BY <1>1
    <3>3. RowPath(new[s]) = f
      BY <1>1, <3>1, <3>2
    <3> QED
      BY <3>3 DEF Files
  <2> QED
    BY <2>1, <2>2
<1>6. ASSUME NEW n, MarksBelow(d, n) PROVE MarksBelow(e, n)
  <2> SUFFICES ASSUME NEW i \in DOMAIN new, NEW r \in Readers PROVE new[i].mark[r] < n
    BY DEF MarksBelow, new
  <2>1. PICK j \in SamePlace(old, i) : new[i].mark[r] = old[j].mark[r]
    BY <1>2
  <2>2. j \in DOMAIN old
    BY DEF SamePlace, At
  <2> QED
    BY <1>6, <2>1, <2>2 DEF MarksBelow, old
<1> QED
  BY <1>4, <1>5, <1>6 DEF old, new

LEMMA MergedMusic ==
  ASSUME NEW d, Tabled(d), NEW e, e = MusicPaths(d), e # Failed, NEW p \in Places
  PROVE  /\ PlaysAt(e, p) = PlaysAt(d, p) /\ LikedAt(e, p) = LikedAt(d, p)
         /\ ListedAt(e, p) = ListedAt(d, p) /\ ArtistsAt(e, p) = ArtistsAt(d, p)
<1> DEFINE old == d.tracks
           new == e.tracks
           Artists(a) == UNION {d.albums[b].artists : b \in SamePlace(d.albums, a)}
<1>1. MergesMusic(d, e) /\ Tabled(e)
  BY MusicPathsOf
<1>2. /\ DOMAIN new \subseteq DOMAIN old
      /\ \A i \in DOMAIN new :
           /\ RowPath(new[i]) = RowPath(old[i])
           /\ new[i].liked <=> \E j \in SamePlace(old, i) : old[j].liked
           /\ new[i].listed <=> \E j \in SamePlace(old, i) : old[j].listed
           /\ new[i].plays = MostPlays(old, i)
      /\ \A i \in DOMAIN old : \E s \in DOMAIN new : RowPath(old[s]) = RowPath(old[i])
  BY <1>1 DEF MergesMusic
<1>3. Table(old, TrackRow) /\ Table(new, TrackRow) /\ Tabled(e)
  BY <1>1 DEF Tabled
<1>4. /\ \A i \in DOMAIN new : new[i].album \in SamePlace(d.albums, old[i].album)
      /\ \A a \in DOMAIN e.albums :
           RowPath(e.albums[a]) = RowPath(d.albums[a]) /\ e.albums[a].artists = Artists(a)
      /\ DOMAIN e.albums \subseteq DOMAIN d.albums /\ Told(e.albums)
      /\ \A i \in DOMAIN new : new[i].album \in DOMAIN e.albums
  <2>1. \A i \in DOMAIN new : new[i].album \in DOMAIN e.albums
    BY <1>1 DEF Tabled
  <2> QED
    BY <1>1, <2>1 DEF MergesMusic
<1>5. /\ \A i \in DOMAIN old : old[i].album \in DOMAIN d.albums
      /\ \A i, j \in DOMAIN old : RowPath(old[i]) = RowPath(old[j]) /\ RowPath(old[i]) # Elsewhere =>
           RowPath(d.albums[old[i].album]) = RowPath(d.albums[old[j].album])
  BY DEF Tabled
<1> HIDE DEF old, new, Artists
<1>6. ASSUME NEW i \in DOMAIN new
      PROVE  SamePlace(old, i) = At(old, RowPath(old[i])) /\ i \in DOMAIN old
  BY <1>2 DEF SamePlace
<1>7. At(new, p) \subseteq DOMAIN new /\ \A i \in At(new, p) : SamePlace(old, i) = At(old, p)
  BY <1>2, <1>6 DEF At
<1>8. \A i \in At(old, p) : i \in DOMAIN old /\ \E s \in DOMAIN new : s \in At(new, p)
  BY <1>2 DEF At
<1>9. PlaysAt(e, p) = PlaysAt(d, p)
  <2>1. ASSUME NEW i \in At(new, p)
        PROVE  /\ \E j \in At(old, p) : new[i].plays = old[j].plays
               /\ \A j \in At(old, p) : new[i].plays >= old[j].plays
    <3>1. i \in DOMAIN new /\ i \in DOMAIN old /\ SamePlace(old, i) = At(old, p)
      BY <1>6, <1>7
    <3>2. new[i].plays = MostPlays(old, i)
      BY <1>2, <3>1
    <3>3. /\ \E j \in SamePlace(old, i) : new[i].plays = old[j].plays
          /\ \A j \in SamePlace(old, i) : new[i].plays >= old[j].plays
      BY <1>3, <3>1, <3>2, MostPlaysIs
    <3> QED
      BY <3>1, <3>3
  <2>2. \A i \in DOMAIN old : old[i].plays \in Nat
    BY <1>3 DEF Table, TrackRow
  <2>3. ASSUME NEW i \in At(old, p) PROVE \E j \in At(new, p) : new[j].plays >= old[i].plays
    BY <1>8, <2>1
  <2>4. ASSUME NEW j \in At(new, p) PROVE \E i \in At(old, p) : old[i].plays >= new[j].plays
    <3>1. PICK i \in At(old, p) : new[j].plays = old[i].plays
      BY <2>1
    <3>2. old[i].plays >= new[j].plays
      BY <1>8, <2>2, <3>1
    <3> QED
      BY <3>2
  <2> QED
    BY <1>3, <2>3, <2>4, PlaysSame DEF old, new
<1>10. LikedAt(e, p) <=> LikedAt(d, p)
  <2>1. LikedAt(e, p) <=> \E i \in At(new, p) : new[i].liked
    BY DEF LikedAt, new
  <2>2. LikedAt(d, p) <=> \E i \in At(old, p) : old[i].liked
    BY DEF LikedAt, old
  <2>3. ASSUME NEW i \in At(new, p) PROVE new[i].liked <=> \E j \in At(old, p) : old[j].liked
    <3>1. i \in DOMAIN new /\ SamePlace(old, i) = At(old, p)
      BY <1>7
    <3>2. new[i].liked <=> \E j \in SamePlace(old, i) : old[j].liked
      BY <1>2, <3>1
    <3> QED
      BY <3>1, <3>2
  <2> QED
    BY <1>8, <2>1, <2>2, <2>3
<1>11. ListedAt(e, p) <=> ListedAt(d, p)
  <2>1. ListedAt(e, p) <=> \E i \in At(new, p) : new[i].listed
    BY DEF ListedAt, new
  <2>2. ListedAt(d, p) <=> \E i \in At(old, p) : old[i].listed
    BY DEF ListedAt, old
  <2>3. ASSUME NEW i \in At(new, p) PROVE new[i].listed <=> \E j \in At(old, p) : old[j].listed
    <3>1. i \in DOMAIN new /\ SamePlace(old, i) = At(old, p)
      BY <1>7
    <3>2. new[i].listed <=> \E j \in SamePlace(old, i) : old[j].listed
      BY <1>2, <3>1
    <3> QED
      BY <3>1, <3>2
  <2> QED
    BY <1>8, <2>1, <2>2, <2>3
<1>12. ASSUME NEW a \in DOMAIN e.albums PROVE SamePlace(e.albums, a) = {a}
  <2>1. Pathed(e.albums)
    BY <1>3, TablesPathed
  <2> QED
    BY <1>4, <2>1, ToldPlaces DEF SamePlace, At
<1>13. ArtistsAt(e, p) = ArtistsAt(d, p)
  <2>1. AlbumsAt(e, p) = {new[i].album : i \in At(new, p)}
    BY <1>4, <1>7, <1>12 DEF AlbumsAt, new
  <2>2. ASSUME NEW i \in At(new, p), NEW j \in At(old, p)
        PROVE  SamePlace(d.albums, new[i].album) = SamePlace(d.albums, old[j].album)
    <3>1. i \in DOMAIN old /\ j \in DOMAIN old /\ RowPath(old[i]) = p /\ RowPath(old[j]) = p
      BY <1>2, <1>7 DEF At
    <3>2. RowPath(d.albums[old[i].album]) = RowPath(d.albums[old[j].album])
      BY <1>5, <3>1, PlacesAssumption
    <3>3. RowPath(d.albums[new[i].album]) = RowPath(d.albums[old[i].album])
      BY <1>4, <1>7 DEF SamePlace, At
    <3> QED
      BY <3>2, <3>3 DEF SamePlace
  <2>3. ASSUME NEW x PROVE x \in ArtistsAt(d, p) <=>
          \E j \in At(old, p) : \E a \in SamePlace(d.albums, old[j].album) : x \in d.albums[a].artists
    BY DEF ArtistsAt, AlbumsAt, old
  <2>4. ASSUME NEW x PROVE x \in ArtistsAt(e, p) <=> \E i \in At(new, p) : x \in e.albums[new[i].album].artists
    BY <2>1 DEF ArtistsAt
  <2>5. ASSUME NEW i \in At(new, p), NEW x
        PROVE  x \in e.albums[new[i].album].artists <=>
                 \E a \in SamePlace(d.albums, new[i].album) : x \in d.albums[a].artists
    <3>1. e.albums[new[i].album].artists = Artists(new[i].album)
      BY <1>4, <1>7
    <3> QED
      BY <3>1 DEF Artists
  <2>6. \A i \in At(new, p) : i \in At(old, p)
    BY <1>2, <1>7 DEF At
  <2>7. ASSUME NEW x \in ArtistsAt(e, p) PROVE x \in ArtistsAt(d, p)
    <3>1. PICK i \in At(new, p) : x \in e.albums[new[i].album].artists
      BY <2>4
    <3>2. PICK a \in SamePlace(d.albums, new[i].album) : x \in d.albums[a].artists
      BY <2>5, <3>1
    <3>3. a \in SamePlace(d.albums, old[i].album)
      BY <2>2, <2>6, <3>2
    <3> QED
      BY <2>3, <2>6, <3>2, <3>3
  <2>8. ASSUME NEW x \in ArtistsAt(d, p) PROVE x \in ArtistsAt(e, p)
    <3>1. PICK j \in At(old, p) : \E a \in SamePlace(d.albums, old[j].album) : x \in d.albums[a].artists
      BY <2>3
    <3>2. PICK i \in At(new, p) : TRUE
      BY <1>8
    <3> QED
      BY <2>2, <2>4, <2>5, <3>1, <3>2
  <2> QED
    BY <2>7, <2>8
<1>14. LikedAt(e, p) = LikedAt(d, p) /\ ListedAt(e, p) = ListedAt(d, p)
  BY <1>10, <1>11 DEF LikedAt, ListedAt
<1> QED
  BY <1>9, <1>13, <1>14

-----------------------------------------------------------------------------------
(* A migration does nothing, or what its version says.                              *)
Operation(d, v, onDisk, e) ==
  \/ v = 11 /\ e = VideoPaths(d)
  \/ v = 12 /\ e = ReadingPaths(d, onDisk)
  \/ v = 13 /\ e = ReadingDuplicates(d)
  \/ v = 14 /\ e = MusicPaths(d)
  \/ v = 15 /\ e = LegacyAccounts(d)
  \/ v = 16 /\ e = DeviceOnly(d)
  \/ v = 17 /\ e = DeletedNames(d)
  \/ v = 18 /\ e = AccountNames(d)

LEMMA MigratedCases ==
  ASSUME NEW d, Tabled(d), NEW v \in 11..Target, NEW onDisk, NEW e, e = Migrated(d, v, onDisk)
  PROVE  \/ (d.version >= v \/ v = Target) /\ e = d
         \/ d.version < v /\ v # Target /\ Operation(d, v, onDisk, e)
<1>1. d.version \in Nat /\ v \in Int /\ Target = 19
  BY DEF Tabled, Target
<1>2. CASE d.version >= v
  BY <1>2 DEF Migrated
<1>3. CASE d.version < v
  <2>1. ~(d.version >= v)
    BY <1>1, <1>3
  <2>2. v \in {11, 12, 13, 14, 15, 16, 17, 18, 19}
    BY <1>1
  <2>3. CASE v \in {11, 12, 13, 14}
    BY <1>1, <1>3, <2>1, <2>3 DEF Migrated, Operation
  <2>4. CASE v \in {15, 16, 17, 18, 19}
    BY <1>1, <1>3, <2>1, <2>4 DEF Migrated, Operation
  <2> QED
    BY <2>2, <2>3, <2>4
<1> QED
  BY <1>1, <1>2, <1>3

ShelfStays(d, e) ==
  /\ Shelf(e) = Shelf(d) /\ Files(e.readings) = Files(d.readings)
  /\ \A n : MarksBelow(d, n) => MarksBelow(e, n)

LEMMA OtherColumns ==
  ASSUME NEW d, NEW e, e.readings = d.readings, e.tracks = d.tracks, e.albums = d.albums
  PROVE  ShelfStays(d, e)
<1>1. Shelf(e) = Shelf(d)
  BY MusicApart, ReadingsApart, ShelfSame
<1> QED
  BY <1>1 DEF ShelfStays, MarksBelow

(* A migration that is not refused loses nothing people own.                        *)
LEMMA OperationKeeps ==
  ASSUME NEW d, Tabled(d), Named(d.accounts), NEW v, NEW onDisk,
         NEW e, Operation(d, v, onDisk, e), e # Failed
  PROVE  Tabled(e) /\ e.version = d.version /\ e.profiles = d.profiles /\ ShelfStays(d, e)
<1>1. CASE e = VideoPaths(d)
  <2>1. Tabled(e) /\ Keeps(d, e, {"videos"})
    BY <1>1, VideoPathsOf
  <2>2. /\ e.version = d.version /\ e.profiles = d.profiles
        /\ e.readings = d.readings /\ e.tracks = d.tracks /\ e.albums = d.albums
    BY <2>1 DEF Keeps, Columns
  <2> QED
    BY <2>1, <2>2, OtherColumns
<1>2. CASE e = ReadingPaths(d, onDisk)
  <2>1. /\ Tabled(e) /\ Keeps(d, e, {"readings"}) /\ DOMAIN e.readings = DOMAIN d.readings
        /\ \A i \in DOMAIN d.readings :
             RowPath(e.readings[i]) = RowPath(d.readings[i]) /\ e.readings[i].mark = d.readings[i].mark
    BY <1>2, ReadingPathsOf
  <2>2. /\ e.version = d.version /\ e.profiles = d.profiles
        /\ e.tracks = d.tracks /\ e.albums = d.albums
    BY <2>1 DEF Keeps, Columns
  <2>3. /\ \A p, r : MarkAt(e, p, r) = MarkAt(d, p, r)
        /\ Files(e.readings) = Files(d.readings)
        /\ \A n : MarksBelow(d, n) => MarksBelow(e, n)
    BY <2>1, SameReadings
  <2>4. Shelf(e) = Shelf(d)
    BY <2>2, <2>3, MusicApart, ShelfSame
  <2> QED
    BY <2>1, <2>2, <2>3, <2>4 DEF ShelfStays
<1>3. CASE e = ReadingDuplicates(d)
  <2>1. Tabled(e) /\ Keeps(d, e, {"readings"})
    BY <1>3, ReadingDuplicatesOf
  <2>2. /\ e.version = d.version /\ e.profiles = d.profiles
        /\ e.tracks = d.tracks /\ e.albums = d.albums
    BY <2>1 DEF Keeps, Columns
  <2>3. /\ \A p, r : r \in Readers => MarkAt(e, p, r) = MarkAt(d, p, r)
        /\ Files(e.readings) = Files(d.readings)
        /\ \A n : MarksBelow(d, n) => MarksBelow(e, n)
    BY <1>3, MergedReadings
  <2>4. Shelf(e) = Shelf(d)
    BY <2>2, <2>3, MusicApart, ShelfSame
  <2> QED
    BY <2>1, <2>2, <2>3, <2>4 DEF ShelfStays
<1>4. CASE e = MusicPaths(d)
  <2>1. Tabled(e) /\ Keeps(d, e, {"tracks", "albums"})
    BY <1>4, MusicPathsOf
  <2>2. e.version = d.version /\ e.profiles = d.profiles /\ e.readings = d.readings
    BY <2>1 DEF Keeps, Columns
  <2>3. ASSUME NEW p \in Places
        PROVE  /\ PlaysAt(e, p) = PlaysAt(d, p) /\ LikedAt(e, p) = LikedAt(d, p)
               /\ ListedAt(e, p) = ListedAt(d, p) /\ ArtistsAt(e, p) = ArtistsAt(d, p)
    BY <1>4, MergedMusic
  <2>4. Shelf(e) = Shelf(d)
    BY <2>2, <2>3, ReadingsApart, ShelfSame
  <2> QED
    BY <2>1, <2>2, <2>4 DEF ShelfStays, MarksBelow
<1>5. CASE e = LegacyAccounts(d) \/ e = DeviceOnly(d) \/ e = DeletedNames(d) \/ e = AccountNames(d)
  <2>1. Tabled(e) /\ \/ Keeps(d, e, {"accounts", "device"}) \/ Keeps(d, e, {"device"})
                     \/ Keeps(d, e, {"accounts"})
    BY <1>5, LegacyAccountsOf, DeviceOnlyOf, DeletedNamesOf, AccountNamesOf
  <2>2. /\ e.version = d.version /\ e.profiles = d.profiles
        /\ e.readings = d.readings /\ e.tracks = d.tracks /\ e.albums = d.albums
    BY <2>1 DEF Keeps, Columns
  <2> QED
    BY <2>1, <2>2, OtherColumns
<1> QED
  BY <1>1, <1>2, <1>3, <1>4, <1>5 DEF Operation

LEMMA AppliedKeeps ==
  ASSUME NEW d, Tabled(d), CanApply(d), NEW e, e = Applied(d)
  PROVE  ShelfStays(d, e)
<1>1. /\ \A t \in Tables : DOMAIN e[t] = DOMAIN d[t]
      /\ \A t \in Tables : \A i \in DOMAIN d[t] :
           /\ RowPath(e[t][i]) = RowPath(d[t][i])
           /\ \A c \in DOMAIN d[t][i] \ {"path", "old"} : e[t][i][c] = d[t][i][c]
  BY AppliedOf
<1>2. \A i \in DOMAIN d.readings : "mark" \in DOMAIN d.readings[i] \ {"path", "old"}
  BY DEF Tabled, Table, ReadingRow
<1>3. \A i \in DOMAIN d.tracks :
        {"album", "liked", "plays", "listed"} \subseteq DOMAIN d.tracks[i] \ {"path", "old"}
  BY DEF Tabled, Table, TrackRow
<1>4. \A a \in DOMAIN d.albums : "artists" \in DOMAIN d.albums[a] \ {"path", "old"}
  BY DEF Tabled, Table, AlbumRow
<1>5. /\ \A p, r : MarkAt(e, p, r) = MarkAt(d, p, r)
      /\ Files(e.readings) = Files(d.readings)
      /\ \A n : MarksBelow(d, n) => MarksBelow(e, n)
  <2>1. "readings" \in Tables
    BY DEF Tables
  <2>2. /\ DOMAIN e.readings = DOMAIN d.readings
        /\ \A i \in DOMAIN d.readings :
             RowPath(e.readings[i]) = RowPath(d.readings[i]) /\ e.readings[i].mark = d.readings[i].mark
    BY <1>1, <1>2, <2>1
  <2> QED
    BY <2>2, SameReadings
<1>6. ASSUME NEW p
      PROVE  /\ PlaysAt(e, p) = PlaysAt(d, p) /\ LikedAt(e, p) = LikedAt(d, p)
             /\ ListedAt(e, p) = ListedAt(d, p) /\ ArtistsAt(e, p) = ArtistsAt(d, p)
  <2>1. "tracks" \in Tables /\ "albums" \in Tables
    BY DEF Tables
  <2>2. DOMAIN e.tracks = DOMAIN d.tracks /\ DOMAIN e.albums = DOMAIN d.albums
    BY <1>1, <2>1
  <2>3. ASSUME NEW i \in DOMAIN d.tracks
        PROVE  /\ RowPath(e.tracks[i]) = RowPath(d.tracks[i]) /\ e.tracks[i].album = d.tracks[i].album
               /\ e.tracks[i].plays = d.tracks[i].plays /\ e.tracks[i].liked = d.tracks[i].liked
               /\ e.tracks[i].listed = d.tracks[i].listed
    BY <1>1, <1>3, <2>1
  <2>4. ASSUME NEW a \in DOMAIN d.albums
        PROVE  RowPath(e.albums[a]) = RowPath(d.albums[a]) /\ e.albums[a].artists = d.albums[a].artists
    BY <1>1, <1>4, <2>1
  <2>5. \A i \in DOMAIN d.tracks : d.tracks[i].album \in DOMAIN d.albums
    BY DEF Tabled
  <2> QED
    BY <2>2, <2>3, <2>4, <2>5, SameMusic
<1> QED
  BY <1>5, <1>6, ShelfSame DEF ShelfStays

-----------------------------------------------------------------------------------
(* What can be mapped.                                                              *)
Mapped(rows) == \A i \in DOMAIN rows : RowPath(rows[i]) # Elsewhere
Mappable(d) == Told(d.videos) /\ Mapped(d.readings) /\ Mapped(d.tracks) /\ Mapped(d.albums)

LEMMA MappableIs == ASSUME NEW d, Tabled(d) PROVE Mappable(d) <=> ~Unmappable(d)
<1>1. \A i \in DOMAIN d.videos : d.videos[i].path.form \in {"relative", "absolute"}
  BY DEF Tabled, Table, VideoRow, Stored
<1>2. VideoPaths(d) = Failed <=> ~Told(d.videos)
  BY <1>1, VideoPathsOf DEF Told, AllRelative
<1>3. Tables \ {"videos"} = {"readings", "tracks", "albums"}
  BY DEF Tables
<1> QED
  BY <1>2, <1>3 DEF Unmappable, Mappable, Mapped

LEMMA OperationMaps ==
  ASSUME NEW d, Tabled(d), Named(d.accounts), Mappable(d), NEW v, NEW onDisk,
         NEW e, Operation(d, v, onDisk, e)
  PROVE  e # Failed /\ Mappable(e)
<1>1. CASE e = VideoPaths(d)
  <2>1. \A i \in DOMAIN d.videos : d.videos[i].path.form # "absolute"
    BY DEF Mappable, Told, AllRelative
  <2>2. e # Failed
    BY <1>1, <2>1, VideoPathsOf DEF Mappable, Told
  <2>3. Keeps(d, e, {"videos"}) /\ Told(e.videos)
    BY <1>1, <2>2, VideoPathsOf
  <2>4. e.readings = d.readings /\ e.tracks = d.tracks /\ e.albums = d.albums
    BY <2>3 DEF Keeps, Columns
  <2> QED
    BY <2>2, <2>3, <2>4 DEF Mappable
<1>2. CASE e = ReadingPaths(d, onDisk)
  <2>1. e # Failed
    BY <1>2, ReadingPathsOf DEF Mappable, Mapped
  <2>2. /\ Keeps(d, e, {"readings"}) /\ DOMAIN e.readings = DOMAIN d.readings
        /\ \A i \in DOMAIN d.readings : RowPath(e.readings[i]) = RowPath(d.readings[i])
    BY <1>2, <2>1, ReadingPathsOf
  <2>3. e.videos = d.videos /\ e.tracks = d.tracks /\ e.albums = d.albums
    BY <2>2 DEF Keeps, Columns
  <2> QED
    BY <2>1, <2>2, <2>3 DEF Mappable, Mapped
<1>3. CASE e = ReadingDuplicates(d)
  <2>1. e # Failed /\ Keeps(d, e, {"readings"}) /\ MergesReadings(d.readings, e.readings)
    BY <1>3, ReadingDuplicatesOf
  <2>2. e.videos = d.videos /\ e.tracks = d.tracks /\ e.albums = d.albums
    BY <2>1 DEF Keeps, Columns
  <2>3. Mapped(e.readings)
    BY <2>1 DEF MergesReadings, Mappable, Mapped
  <2> QED
    BY <2>1, <2>2, <2>3 DEF Mappable
<1>4. CASE e = MusicPaths(d)
  <2>1. e # Failed
    BY <1>4, MusicPathsOf DEF Mappable, Mapped
  <2>2. Keeps(d, e, {"tracks", "albums"}) /\ MergesMusic(d, e)
    BY <1>4, <2>1, MusicPathsOf
  <2>3. e.videos = d.videos /\ e.readings = d.readings
    BY <2>2 DEF Keeps, Columns
  <2>4. Mapped(e.tracks) /\ Mapped(e.albums)
    BY <2>2 DEF MergesMusic, Mappable, Mapped
  <2> QED
    BY <2>1, <2>3, <2>4 DEF Mappable
<1>5. CASE e = LegacyAccounts(d) \/ e = DeviceOnly(d) \/ e = DeletedNames(d) \/ e = AccountNames(d)
  <2>1. e # Failed /\ \/ Keeps(d, e, {"accounts", "device"}) \/ Keeps(d, e, {"device"})
                      \/ Keeps(d, e, {"accounts"})
    BY <1>5, LegacyAccountsOf, DeviceOnlyOf, DeletedNamesOf, AccountNamesOf
  <2>2. /\ e.videos = d.videos /\ e.readings = d.readings
        /\ e.tracks = d.tracks /\ e.albums = d.albums
    BY <2>1 DEF Keeps, Columns
  <2> QED
    BY <2>1, <2>2 DEF Mappable
<1> QED
  BY <1>1, <1>2, <1>3, <1>4, <1>5 DEF Operation

LEMMA AppliedMaps ==
  ASSUME NEW d, Tabled(d), CanApply(d), NEW e, e = Applied(d) PROVE Mappable(e)
<1>1. Tabled(e) /\ \A t \in Tables : Told(e[t])
  BY AppliedOf
<1>2. Told(e.videos) /\ Told(e.readings) /\ Told(e.tracks) /\ Told(e.albums)
  BY <1>1 DEF Tables
<1>3. ASSUME NEW rows, Pathed(rows), Told(rows) PROVE Mapped(rows)
  BY <1>3, ToldPlaces, PlacesAssumption DEF Mapped
<1>4. Pathed(e.readings) /\ Pathed(e.tracks) /\ Pathed(e.albums)
  BY <1>1, TablesPathed
<1> QED
  BY <1>2, <1>3, <1>4 DEF Mappable

-----------------------------------------------------------------------------------
(* What a copy shows.                                                               *)
LEMMA SameCatalog ==
  ASSUME NEW d, NEW e,
         \A t \in Tables : DOMAIN e[t] = DOMAIN d[t] /\
           \A i \in DOMAIN d[t] : e[t][i].path = d[t][i].path /\ e[t][i].old = d[t][i].old
  PROVE  Catalog(e) = Catalog(d) /\ (HasCatalog(e) <=> HasCatalog(d))
<1> DEFINE Rows(x, t) == [i \in DOMAIN x[t] |-> <<x[t][i].path, x[t][i].old>>]
<1>1. ASSUME NEW t \in Tables PROVE Rows(e, t) = Rows(d, t)
  OBVIOUS
<1>2. ASSUME NEW x PROVE Catalog(x) = [t \in Tables |-> Rows(x, t)]
  BY DEF Catalog
<1> HIDE DEF Rows
<1>3. Catalog(e) = Catalog(d)
  BY <1>1, <1>2
<1>4. HasCatalog(e) <=> HasCatalog(d)
  BY DEF HasCatalog, Tables
<1> QED
  BY <1>3, <1>4

LEMMA CatalogTells ==
  ASSUME NEW d, NEW e, Catalog(e) = Catalog(d)
  PROVE  \A t \in Tables : DOMAIN e[t] = DOMAIN d[t]
<1> DEFINE Rows(x, t) == [i \in DOMAIN x[t] |-> <<x[t][i].path, x[t][i].old>>]
<1>1. ASSUME NEW x, NEW t \in Tables PROVE Catalog(x)[t] = Rows(x, t)
  BY DEF Catalog
<1>2. ASSUME NEW t \in Tables PROVE DOMAIN Rows(e, t) = DOMAIN Rows(d, t)
  <2> HIDE DEF Rows
  <2> QED
    BY <1>1
<1> QED
  BY <1>2

(* A database without rows has nothing to change.                                   *)
LEMMA OperationOnNothing ==
  ASSUME NEW d, Tabled(d), Named(d.accounts), ~HasCatalog(d), DOMAIN d.albums = {},
         NEW v, NEW onDisk, NEW e, Operation(d, v, onDisk, e), e # Failed
  PROVE  Catalog(e) = Catalog(d) /\ ~HasCatalog(e)
<1>1. DOMAIN d.videos = {} /\ DOMAIN d.readings = {} /\ DOMAIN d.tracks = {}
  BY DEF HasCatalog
<1>2. /\ DOMAIN e.videos = {} /\ DOMAIN e.readings = {}
      /\ DOMAIN e.tracks = {} /\ DOMAIN e.albums = {}
  <2>1. CASE e = VideoPaths(d)
    <3>1. Keeps(d, e, {"videos"}) /\ DOMAIN e.videos = DOMAIN d.videos
      BY <2>1, VideoPathsOf
    <3> QED
      BY <1>1, <3>1 DEF Keeps, Columns
  <2>2. CASE e = ReadingPaths(d, onDisk)
    <3>1. Keeps(d, e, {"readings"}) /\ DOMAIN e.readings = DOMAIN d.readings
      BY <2>2, ReadingPathsOf
    <3> QED
      BY <1>1, <3>1 DEF Keeps, Columns
  <2>3. CASE e = ReadingDuplicates(d)
    <3>1. Keeps(d, e, {"readings"}) /\ MergesReadings(d.readings, e.readings)
      BY <2>3, ReadingDuplicatesOf
    <3>2. DOMAIN e.readings \subseteq DOMAIN d.readings
      BY <3>1 DEF MergesReadings
    <3> QED
      BY <1>1, <3>1, <3>2 DEF Keeps, Columns
  <2>4. CASE e = MusicPaths(d)
    <3>1. Keeps(d, e, {"tracks", "albums"}) /\ MergesMusic(d, e)
      BY <2>4, MusicPathsOf
    <3>2. DOMAIN e.tracks \subseteq DOMAIN d.tracks /\ DOMAIN e.albums \subseteq DOMAIN d.albums
      BY <3>1 DEF MergesMusic
    <3> QED
      BY <1>1, <3>1, <3>2 DEF Keeps, Columns
  <2>5. CASE e = LegacyAccounts(d) \/ e = DeviceOnly(d) \/ e = DeletedNames(d) \/ e = AccountNames(d)
    <3>1. \/ Keeps(d, e, {"accounts", "device"}) \/ Keeps(d, e, {"device"}) \/ Keeps(d, e, {"accounts"})
      BY <2>5, LegacyAccountsOf, DeviceOnlyOf, DeletedNamesOf, AccountNamesOf
    <3> QED
      BY <1>1, <3>1 DEF Keeps, Columns
  <2> QED
    BY <2>1, <2>2, <2>3, <2>4, <2>5 DEF Operation
<1>3. \A t \in Tables : DOMAIN e[t] = {} /\ DOMAIN d[t] = {}
  BY <1>1, <1>2 DEF Tables
<1>4. Catalog(e) = Catalog(d)
  BY <1>3, SameCatalog
<1> QED
  BY <1>2, <1>4 DEF HasCatalog

-----------------------------------------------------------------------------------
(* A bookmark: the mark of one reader in some rows of one file, later than all.     *)
Bookmarked(rows, G, r, n) ==
  [j \in DOMAIN rows |-> IF j \in G THEN [rows[j] EXCEPT !.mark[r] = n] ELSE rows[j]]

Marks(d, e, G, r, n) ==
  /\ Keeps(d, e, {"readings"}) /\ Tabled(e) /\ DOMAIN e.readings = DOMAIN d.readings
  /\ \A j \in DOMAIN d.readings :
       /\ e.readings[j].path = d.readings[j].path /\ e.readings[j].old = d.readings[j].old
       /\ RowPath(e.readings[j]) = RowPath(d.readings[j])
       /\ \A q \in Readers : e.readings[j].mark[q] =
            IF j \in G /\ q = r THEN n ELSE d.readings[j].mark[q]

LEMMA BookmarkOf ==
  ASSUME NEW d, Tabled(d), NEW G \in SUBSET DOMAIN d.readings, NEW r \in Readers, NEW n \in Nat,
         NEW e, e = [d EXCEPT !.readings = Bookmarked(d.readings, G, r, n)]
  PROVE  Marks(d, e, G, r, n)
<1> DEFINE old == d.readings
           new == Bookmarked(d.readings, G, r, n)
<1>1. DOMAIN d = Columns /\ Table(old, ReadingRow)
  BY HasColumns DEF Tabled
<1>2. DOMAIN e = Columns /\ e.readings = new /\ \A f \in Columns \ {"readings"} : e[f] = d[f]
  BY <1>1 DEF Columns
<1>3. DOMAIN new = DOMAIN old /\ new = [j \in DOMAIN old |-> new[j]]
      /\ \A j \in DOMAIN old : new[j] = IF j \in G THEN [old[j] EXCEPT !.mark[r] = n] ELSE old[j]
  BY DEF Bookmarked
<1> HIDE DEF old, new
<1>4. ASSUME NEW j \in DOMAIN old
      PROVE  /\ new[j] \in ReadingRow /\ new[j].path = old[j].path /\ new[j].old = old[j].old
             /\ \A q \in Readers : new[j].mark[q] = IF j \in G /\ q = r THEN n ELSE old[j].mark[q]
  <2>1. old[j] \in ReadingRow
    BY <1>1 DEF Table
  <2>2. CASE j \in G
    BY <1>3, <2>1, <2>2 DEF ReadingRow
  <2>3. CASE j \notin G
    BY <1>3, <2>1, <2>3
  <2> QED
    BY <2>2, <2>3
<1>5. Table(new, ReadingRow)
  BY <1>1, <1>3, <1>4 DEF Table
<1>6. Tabled(e)
  BY <1>1, <1>2, <1>5 DEF Tabled, Columns
<1>7. \A j \in DOMAIN old : RowPath(new[j]) = RowPath(old[j])
  BY <1>4 DEF RowPath
<1>8. Keeps(d, e, {"readings"})
  BY <1>2 DEF Keeps
<1> QED
  BY <1>2, <1>3, <1>4, <1>6, <1>7, <1>8 DEF old, Marks

MarksFile(d, e, f, r, n) ==
  /\ \A p, q : q \in Readers =>
       MarkAt(e, p, q) = IF p = f /\ q = r THEN n ELSE MarkAt(d, p, q)
  /\ Files(e.readings) = Files(d.readings) /\ MarksBelow(e, n + 1)

LEMMA BookmarkMarks ==
  ASSUME NEW d, Tabled(d), NEW G \in SUBSET DOMAIN d.readings, NEW r \in Readers, NEW n \in Nat,
         NEW e, e = [d EXCEPT !.readings = Bookmarked(d.readings, G, r, n)],
         NEW f, G # {}, \A j \in G : RowPath(d.readings[j]) = f, MarksBelow(d, n)
  PROVE  MarksFile(d, e, f, r, n)
<1> DEFINE old == d.readings
           new == e.readings
<1>1. Marks(d, e, G, r, n)
  BY BookmarkOf
<1>2. DOMAIN new = DOMAIN old
  BY <1>1 DEF Marks
<1>3. \A j \in DOMAIN old :
        /\ RowPath(new[j]) = RowPath(old[j])
        /\ \A q \in Readers : new[j].mark[q] = IF j \in G /\ q = r THEN n ELSE old[j].mark[q]
  BY <1>1 DEF Marks
<1>4. \A j \in DOMAIN old, q \in Readers : old[j].mark[q] \in Nat /\ old[j].mark[q] < n
  BY DEF Tabled, Table, ReadingRow, MarksBelow
<1>5. \A p : At(new, p) = At(old, p) /\ At(old, p) \subseteq DOMAIN old
  BY <1>2, <1>3 DEF At
<1>6. G \subseteq At(old, f)
  BY DEF At
<1>7. Files(new) = Files(old)
  BY <1>2, <1>3 DEF Files
<1>8. MarksBelow(e, n + 1)
  <2> SUFFICES ASSUME NEW j \in DOMAIN old, NEW q \in Readers PROVE new[j].mark[q] < n + 1
    BY <1>2 DEF MarksBelow
  <2>1. new[j].mark[q] = n \/ new[j].mark[q] = old[j].mark[q]
    BY <1>3
  <2> QED
    BY <1>4, <2>1
<1> HIDE DEF old, new
<1>9. ASSUME NEW q \in Readers PROVE MarkAt(e, f, r) = n
  <2> DEFINE S == {new[i].mark[r] : i \in At(new, f)} \cup {0}
  <2>1. MarkAt(e, f, r) = Max(S)
    BY DEF MarkAt, new
  <2>2. \A y \in S : y \in Nat /\ n >= y
    <3>1. \A i \in At(new, f) : new[i].mark[r] = n \/ new[i].mark[r] = old[i].mark[r]
      BY <1>3, <1>5
    <3>2. \A i \in At(new, f) : new[i].mark[r] \in Nat /\ n >= new[i].mark[r]
      BY <1>4, <1>5, <3>1
    <3> QED
      BY <3>2
  <2>3. n \in S
    <3>1. PICK g \in G : TRUE
      OBVIOUS
    <3>2. g \in At(new, f) /\ new[g].mark[r] = n
      BY <1>3, <1>5, <1>6
    <3> QED
      BY <3>2
  <2> HIDE DEF S
  <2>4. S \subseteq Nat
    BY <2>2
  <2> QED
    BY <2>1, <2>2, <2>3, <2>4, MaxIs
<1>10. ASSUME NEW p, NEW q \in Readers, ~(p = f /\ q = r) PROVE MarkAt(e, p, q) = MarkAt(d, p, q)
  <2>1. \A i \in At(old, p) : new[i].mark[q] = old[i].mark[q]
    <3>1. \A i \in At(old, p) : ~(i \in G /\ q = r)
      BY <1>6, <1>10 DEF At
    <3> QED
      BY <1>3, <1>5, <3>1
  <2>2. {new[i].mark[q] : i \in At(new, p)} = {old[i].mark[q] : i \in At(old, p)}
    BY <1>5, <2>1
  <2> QED
    BY <2>2 DEF MarkAt, new, old
<1> QED
  BY <1>7, <1>8, <1>9, <1>10 DEF old, new, MarksFile

LEMMA ShelfTells ==
  ASSUME NEW d, NEW e, Shelf(e) = Shelf(d), NEW p \in Places
  PROVE  /\ \A r \in Readers : MarkAt(e, p, r) = MarkAt(d, p, r)
         /\ PlaysAt(e, p) = PlaysAt(d, p) /\ LikedAt(e, p) = LikedAt(d, p)
         /\ ListedAt(e, p) = ListedAt(d, p) /\ ArtistsAt(e, p) = ArtistsAt(d, p)
<1>1. ASSUME NEW x
      PROVE  /\ \A r \in Readers : Shelf(x)[p].mark[r] = MarkAt(x, p, r)
             /\ Shelf(x)[p].plays = PlaysAt(x, p) /\ Shelf(x)[p].liked = LikedAt(x, p)
             /\ Shelf(x)[p].listed = ListedAt(x, p) /\ Shelf(x)[p].artists = ArtistsAt(x, p)
  BY DEF Shelf, MarkAt, LikedAt, PlaysAt, ListedAt, ArtistsAt, AlbumsAt
<1>2. Shelf(e)[p] = Shelf(d)[p]
  OBVIOUS
<1> QED
  BY <1>1, <1>2

-----------------------------------------------------------------------------------
(* The invariant of the rows, and the steps that leave it as it was.                *)
DataInv ==
  VersionInv /\ PathsInv /\ CopyInv /\ RefusalInv /\ AccountsInv /\ DeviceInv /\ ShelfInv

LEMMA InitData == ASSUME Init PROVE DataInv
<1>1. /\ original = db /\ snapshots = {} /\ phase = "down" /\ todo = 11
      /\ tool = "idle" /\ failure = "none" /\ writes = 0
  BY DEF Init
<1>2. OfItsVersion(db)
  BY UpgradeAssumption DEF Init
<1>3. db.version \in Nat /\ db.version <= 19 /\ Target = 19
  BY <1>2 DEF OfItsVersion, Tabled, Target
<1>4. VersionInv
  BY <1>1, <1>2, <1>3 DEF VersionInv, OfItsVersion
<1>5. PathsInv
  BY <1>1, <1>2 DEF PathsInv, OfItsVersion, Done
<1>6. CopyInv
  BY <1>1, <1>2 DEF CopyInv, OfItsVersion
<1>7. RefusalInv
  BY <1>1 DEF RefusalInv
<1>8. AccountsInv
  BY <1>1, <1>2 DEF AccountsInv, OfItsVersion, Done, Plain
<1>9. DeviceInv
  BY <1>1, <1>2, <1>3 DEF DeviceInv, OfItsVersion, Done
<1>10. ShelfInv
  BY <1>1, <1>2 DEF ShelfInv, OfItsVersion, MarksBelow
<1> QED
  BY <1>4, <1>5, <1>6, <1>7, <1>8, <1>9, <1>10 DEF DataInv

LEMMA QuietData ==
  ASSUME DataInv, UNCHANGED <<db, original, snapshots, writes>>,
         \/ phase' # "upgrade" /\ todo' = todo
         \/ UNCHANGED <<phase, todo>>,
         failure' \in {failure, "none", "identity", "other"}, tool' \in {tool, "idle", "analysed"}
  PROVE  DataInv'
<1>1. \A v \in Int : Done(v)' => Done(v)
  BY DEF Done
<1>2. VersionInv'
  BY DEF DataInv, VersionInv
<1>3. PathsInv'
  BY <1>1 DEF DataInv, PathsInv
<1>4. CopyInv'
  BY DEF DataInv, CopyInv, Safe
<1>5. RefusalInv'
  BY DEF DataInv, RefusalInv
<1>6. AccountsInv'
  BY <1>1 DEF DataInv, AccountsInv
<1>7. DeviceInv'
  BY <1>1 DEF DataInv, DeviceInv
<1>8. ShelfInv'
  BY DEF DataInv, ShelfInv
<1> QED
  BY <1>2, <1>3, <1>4, <1>5, <1>6, <1>7, <1>8 DEF DataInv

LEMMA BackupData == ASSUME DataInv, PreMigrationBackup PROVE DataInv'
<1>1. /\ phase = "backup" /\ phase' = "upgrade" /\ todo' = 11
      /\ UNCHANGED <<db, original, writes, tool, failure>>
  BY DEF PreMigrationBackup, life, counts
<1>2. \A v \in Int : v >= 11 /\ Done(v)' => Done(v)
  BY <1>1 DEF Done
<1>3. db.version \in Nat /\ db.version <= Target /\ Target = 19
  BY DEF DataInv, VersionInv, Tabled, Target
<1>4. VersionInv'
  BY <1>1, <1>3 DEF DataInv, VersionInv
<1>5. PathsInv'
  BY <1>1, <1>2 DEF DataInv, PathsInv
<1>6. CopyInv'
  <2>1. snapshots' = IF SnapshotNeeded THEN snapshots \cup {Catalog(db)} ELSE snapshots
    BY DEF PreMigrationBackup
  <2>2. Safe => Safe'
    BY <1>1, <2>1 DEF Safe
  <2>3. SnapshotNeeded => Safe'
    BY <1>1, <2>1, <2>2 DEF DataInv, CopyInv, Safe
  <2>4. SnapshotNeeded \/ db.version = Target \/ ~HasCatalog(db)
    BY <1>3 DEF SnapshotNeeded
  <2> QED
    BY <1>1, <2>2, <2>3, <2>4 DEF DataInv, CopyInv
<1>7. RefusalInv'
  BY <1>1 DEF DataInv, RefusalInv
<1>8. AccountsInv'
  BY <1>1, <1>2 DEF DataInv, AccountsInv
<1>9. DeviceInv'
  BY <1>1, <1>2 DEF DataInv, DeviceInv
<1>10. ShelfInv'
  BY <1>1 DEF DataInv, ShelfInv
<1> QED
  BY <1>4, <1>5, <1>6, <1>7, <1>8, <1>9, <1>10 DEF DataInv

-----------------------------------------------------------------------------------
(* A migration that is committed.                                                   *)
Committed ==
  /\ phase = "upgrade" /\ todo \in 11..18 /\ db.version < todo
  /\ Operation(db, todo, Seen, db') /\ db' # Failed
  /\ todo' = todo + 1
  /\ UNCHANGED <<phase, original, snapshots, tool, failure, writes>>

LEMMA CommittedRows ==
  ASSUME DataInv, Committed
  PROVE  /\ Tabled(db) /\ Named(db.accounts) /\ db.version \in Nat /\ todo \in Nat
         /\ db'.version = db.version /\ db'.profiles = db.profiles
         /\ Tabled(db') /\ ShelfStays(db, db')
<1>1. Tabled(db) /\ Named(db.accounts)
  BY DEF DataInv, VersionInv, AccountsInv
<1>2. db.version \in Nat /\ todo \in Nat
  BY <1>1 DEF Tabled, Committed
<1>3. Tabled(db') /\ db'.version = db.version /\ db'.profiles = db.profiles /\ ShelfStays(db, db')
  BY <1>1, OperationKeeps DEF Committed
<1> QED
  BY <1>1, <1>2, <1>3

LEMMA CommittedDone ==
  ASSUME DataInv, Committed, NEW v \in 11..19
  PROVE  /\ Done(v)' <=> (Done(v) \/ v = todo)
         /\ v < todo => Done(v)
         /\ v > todo => ~Done(v)'
<1>1. /\ phase = "upgrade" /\ phase' = "upgrade" /\ todo' = todo + 1 /\ todo \in Nat
      /\ db.version \in Nat /\ db.version < todo /\ db'.version = db.version
  BY CommittedRows DEF Committed
<1> QED
  BY <1>1 DEF Done

LEMMA CommittedVersion == ASSUME DataInv, Committed PROVE VersionInv'
<1>1. todo' \in 11..(Target + 1)
  BY DEF Committed, Target
<1>2. /\ original' = original /\ writes' = writes /\ Tabled(db') /\ db'.version = db.version
  BY CommittedRows DEF Committed
<1> QED
  BY <1>1, <1>2 DEF DataInv, VersionInv

LEMMA CommittedPaths == ASSUME DataInv, Committed PROVE PathsInv'
<1> DEFINE e == db'
<1>1. Tabled(db) /\ Operation(db, todo, Seen, e) /\ e # Failed /\ Tabled(e) /\ todo \in 11..18
      /\ Named(db.accounts)
  BY CommittedRows DEF Committed
<1>2. /\ Done(11) => Told(db.videos)
      /\ Done(12) => AllRelative(db.readings)
      /\ Done(13) => Told(db.readings)
      /\ Done(14) => Told(db.tracks) /\ Told(db.albums)
  BY DEF DataInv, PathsInv
<1>3. \A v \in 11..19 : /\ Done(v)' <=> (Done(v) \/ v = todo)
                        /\ v < todo => Done(v)
                        /\ v > todo => ~Done(v)'
  BY CommittedDone
<1>4. SUFFICES /\ Done(11)' => Told(e.videos)
               /\ Done(12)' => AllRelative(e.readings)
               /\ Done(13)' => Told(e.readings)
               /\ Done(14)' => Told(e.tracks) /\ Told(e.albums)
  BY DEF PathsInv
<1> HIDE DEF e
<1>5. CASE todo = 11
  <2>1. e = VideoPaths(db)
    BY <1>1, <1>5 DEF Operation
  <2>2. Told(e.videos)
    BY <1>1, <2>1, VideoPathsOf
  <2> QED
    BY <1>3, <1>5, <2>2
<1>6. CASE todo = 12
  <2>1. e = ReadingPaths(db, Seen)
    BY <1>1, <1>6 DEF Operation
  <2>2. AllRelative(e.readings) /\ Keeps(db, e, {"readings"})
    BY <1>1, <2>1, ReadingPathsOf
  <2>3. e.videos = db.videos
    BY <2>2 DEF Keeps, Columns
  <2> QED
    BY <1>2, <1>3, <1>6, <2>2, <2>3
<1>7. CASE todo = 13
  <2>1. e = ReadingDuplicates(db)
    BY <1>1, <1>7 DEF Operation
  <2>2. Keeps(db, e, {"readings"}) /\ MergesReadings(db.readings, e.readings)
    BY <1>1, <2>1, ReadingDuplicatesOf
  <2>3. e.videos = db.videos
    BY <2>2 DEF Keeps, Columns
  <2>4. AllRelative(db.readings)
    BY <1>2, <1>3, <1>7
  <2>5. AllRelative(e.readings)
    BY <2>2, <2>4 DEF AllRelative, MergesReadings
  <2>6. Pathed(e.readings)
    BY <1>1, TablesPathed
  <2>7. Told(e.readings)
    BY <2>2, <2>5, <2>6, PlacesTold DEF MergesReadings
  <2> QED
    BY <1>2, <1>3, <1>7, <2>3, <2>5, <2>7
<1>8. CASE todo = 14
  <2>1. e = MusicPaths(db)
    BY <1>1, <1>8 DEF Operation
  <2>2. Keeps(db, e, {"tracks", "albums"}) /\ MergesMusic(db, e)
    BY <1>1, <2>1, MusicPathsOf
  <2>3. e.videos = db.videos /\ e.readings = db.readings
    BY <2>2 DEF Keeps, Columns
  <2>4. Told(e.tracks) /\ Told(e.albums)
    BY <2>2 DEF MergesMusic
  <2> QED
    BY <1>2, <1>3, <1>8, <2>3, <2>4
<1>9. CASE todo \in 15..18
  <2>1. e = LegacyAccounts(db) \/ e = DeviceOnly(db) \/ e = DeletedNames(db) \/ e = AccountNames(db)
    BY <1>1, <1>9 DEF Operation
  <2>2. \/ Keeps(db, e, {"accounts", "device"}) \/ Keeps(db, e, {"device"})
        \/ Keeps(db, e, {"accounts"})
    BY <1>1, <2>1, LegacyAccountsOf, DeviceOnlyOf, DeletedNamesOf, AccountNamesOf
  <2>3. /\ e.videos = db.videos /\ e.readings = db.readings
        /\ e.tracks = db.tracks /\ e.albums = db.albums
    BY <2>2 DEF Keeps, Columns
  <2> QED
    BY <1>2, <1>3, <1>9, <2>3
<1> QED
  BY <1>1, <1>5, <1>6, <1>7, <1>8, <1>9

LEMMA CommittedCopy == ASSUME DataInv, Committed PROVE CopyInv'
<1>1. /\ UNCHANGED <<original, snapshots, tool, phase>> /\ phase = "upgrade"
      /\ db.version < Target /\ db.version \in Nat
  BY CommittedRows DEF Committed, Target
<1>2. HasCatalog(original) \/ DOMAIN original.albums = {}
  BY DEF DataInv, CopyInv
<1>3. CASE Safe
  <2>1. Safe'
    BY <1>1, <1>3 DEF Safe
  <2> QED
    BY <1>1, <1>2, <2>1 DEF CopyInv
<1>4. CASE ~Safe
  <2>1. ~HasCatalog(db) /\ Catalog(db) = Catalog(original) /\ tool # "saved"
    BY <1>1, <1>4 DEF DataInv, CopyInv
  <2>2. \A t \in Tables : DOMAIN db[t] = DOMAIN original[t]
    BY <2>1, CatalogTells
  <2>3. DOMAIN db.albums = {}
    BY <1>2, <2>1, <2>2 DEF HasCatalog, Tables
  <2>4. Tabled(db) /\ Named(db.accounts) /\ Operation(db, todo, Seen, db') /\ db' # Failed
    BY CommittedRows DEF Committed
  <2>5. Catalog(db') = Catalog(db) /\ ~HasCatalog(db')
    BY <2>1, <2>3, <2>4, OperationOnNothing
  <2> QED
    BY <1>1, <1>2, <2>1, <2>5 DEF CopyInv
<1> QED
  BY <1>3, <1>4

LEMMA CommittedRefusal == ASSUME DataInv, Committed PROVE RefusalInv'
<1>1. UNCHANGED <<original, tool, failure>>
  BY DEF Committed
<1>2. Tabled(db) /\ Named(db.accounts) /\ Operation(db, todo, Seen, db') /\ Tabled(db')
  BY CommittedRows DEF Committed
<1>3. Mappable(db) => Mappable(db')
  BY <1>2, OperationMaps
<1>4. Unmappable(db') => Unmappable(db)
  BY <1>2, <1>3, MappableIs
<1> QED
  BY <1>1, <1>4 DEF DataInv, RefusalInv

LEMMA CommittedShelf == ASSUME DataInv, Committed PROVE ShelfInv'
<1>1. UNCHANGED <<original, writes>> /\ ShelfStays(db, db')
  BY CommittedRows DEF Committed
<1> QED
  BY <1>1 DEF DataInv, ShelfInv, ShelfStays

-----------------------------------------------------------------------------------
(* The accounts and the device, through each migration.                             *)
LEMMA CommittedLegacy ==
  ASSUME DataInv, Committed, todo = 15 PROVE AccountsInv' /\ DeviceInv'
<1> DEFINE keys == AccountKeys(db)
           e == db'
<1>1. /\ Tabled(db) /\ e = LegacyAccounts(db) /\ e.version = db.version /\ db.version < 15
      /\ original' = original /\ e.profiles = db.profiles /\ db.version \in Nat
      /\ phase = "upgrade" /\ phase' = "upgrade" /\ todo' = 16
  BY CommittedRows DEF Committed, Operation
<1>2. /\ DOMAIN e.accounts = keys
      /\ \A k \in keys :
           e.accounts[k] = IF k \in DOMAIN db.accounts THEN db.accounts[k] ELSE AccountOf(k)
      /\ e.device.profile = db.device.profile
      /\ e.device.account = IF db.device.account = Nobody /\ db.device.profile \in keys
                            THEN db.device.profile ELSE db.device.account
  BY <1>1, LegacyAccountsOf DEF MakesAccounts
<1>3. /\ db.profiles = original.profiles /\ DOMAIN original.accounts \subseteq DOMAIN db.accounts
      /\ Plain(db.accounts)
  BY <1>1 DEF DataInv, AccountsInv
<1>4. original.version < 15 /\ ~(original.version >= 15)
  <2>1. db.version \in {original.version, 19} /\ db.version # 19 /\ ~(db.version >= 15)
    BY <1>1 DEF DataInv, VersionInv, Target
  <2> QED
    BY <1>1, <2>1
<1>5. Nobody \notin keys
  BY <1>1 DEF Tabled, Nobody, AccountKeys
<1> HIDE DEF keys, e
<1>6. Plain(e.accounts)
  <2> SUFFICES ASSUME NEW k \in keys
               PROVE  e.accounts[k].name = k /\ e.accounts[k].display = Nobody /\ ~e.accounts[k].deleted
    BY <1>2 DEF Plain
  <2>1. CASE k \in DOMAIN db.accounts
    BY <1>2, <1>3, <2>1 DEF Plain
  <2>2. CASE k \notin DOMAIN db.accounts
    <3>1. e.accounts[k] = AccountOf(k)
      BY <1>2, <2>2
    <3>2. AccountOf(k).name = k /\ AccountOf(k).display = Nobody /\ AccountOf(k).deleted = FALSE
      BY DEF AccountOf
    <3> QED
      BY <3>1, <3>2
  <2> QED
    BY <2>1, <2>2
<1>7. Named(e.accounts)
  BY <1>6 DEF Plain, Named, IsInjective
<1>8. NamesFree(e.accounts)
  BY <1>6 DEF Plain, NamesFree
<1>9. original.profiles \subseteq DOMAIN e.accounts /\ DOMAIN original.accounts \subseteq DOMAIN e.accounts
  BY <1>2, <1>3 DEF keys, AccountKeys
<1>10. AccountsInv'
  BY <1>1, <1>3, <1>6, <1>7, <1>8, <1>9 DEF AccountsInv, e
<1>11. DeviceInv'
  <2>1. /\ db.device.profile \in {original.device.profile, Nobody}
        /\ original.device.profile \in original.profiles \cup {"default", Nobody}
        /\ IF original.device.account # Nobody
           THEN db.device.account = original.device.account
           ELSE db.device.account = original.device.profile \/ db.device = original.device
    BY <1>4 DEF DataInv, DeviceInv
  <2>2. IF original.device.account # Nobody
        THEN e.device.account = original.device.account
        ELSE e.device.account = original.device.profile
    <3>1. CASE original.device.account # Nobody
      BY <1>2, <2>1, <3>1
    <3>2. CASE original.device.account = Nobody /\ db.device.account = original.device.profile
      BY <1>2, <1>5, <2>1, <3>2
    <3>3. CASE original.device.account = Nobody /\ db.device = original.device
      <4>1. CASE original.device.profile = Nobody
        BY <1>2, <3>3, <4>1
      <4>2. CASE original.device.profile # Nobody
        <5>1. original.device.profile \in keys
          BY <1>3, <2>1, <4>2 DEF keys, AccountKeys
        <5> QED
          BY <1>2, <3>3, <5>1
      <4> QED
        BY <4>1, <4>2
    <3> QED
      BY <2>1, <3>1, <3>2, <3>3
  <2>3. e.device.profile \in {original.device.profile, Nobody}
    BY <1>2, <2>1
  <2> QED
    BY <1>1, <1>4, <2>1, <2>2, <2>3 DEF DeviceInv, e
<1> QED
  BY <1>10, <1>11

(* A deleted account's new name is nobody's, and the name it gives back is free.    *)
LEMMA ArchivedNamed ==
  ASSUME NEW a, Named(a), NamesFree(a), NEW b, DOMAIN b = DOMAIN a,
         \A k \in DOMAIN a : b[k].deleted = a[k].deleted
           /\ b[k].name = IF a[k].deleted THEN ArchivedName(k) ELSE a[k].name
  PROVE  Named(b) /\ NamesFree(b)
<1>1. \A k, l \in DOMAIN a : a[k].name = a[l].name => k = l
  BY DEF Named, IsInjective
<1>2. \A k, l \in DOMAIN a : a[k].deleted =>
        /\ a[l].name = ArchivedName(k) => k = l
        /\ a[l].deleted /\ ArchivedName(l) = ArchivedName(k) => k = l
  BY DEF NamesFree
<1>3. ASSUME NEW k \in DOMAIN a, NEW l \in DOMAIN a, b[k].name = b[l].name PROVE k = l
  <2>1. CASE a[k].deleted /\ a[l].deleted
    BY <1>2, <1>3, <2>1
  <2>2. CASE a[k].deleted /\ ~a[l].deleted
    BY <1>2, <1>3, <2>2
  <2>3. CASE ~a[k].deleted /\ a[l].deleted
    BY <1>2, <1>3, <2>3
  <2>4. CASE ~a[k].deleted /\ ~a[l].deleted
    BY <1>1, <1>3, <2>4
  <2> QED
    BY <2>1, <2>2, <2>3, <2>4
<1>4. Named(b)
  BY <1>3 DEF Named, IsInjective
<1>5. NamesFree(b)
  <2> SUFFICES ASSUME NEW k \in DOMAIN a, NEW l \in DOMAIN a, a[k].deleted,
                      b[l].name = ArchivedName(k) \/ (a[l].deleted /\ ArchivedName(l) = ArchivedName(k))
               PROVE  k = l
    BY DEF NamesFree
  <2>1. CASE a[l].deleted
    BY <1>2, <2>1
  <2>2. CASE ~a[l].deleted
    BY <1>2, <2>2
  <2> QED
    BY <2>1, <2>2
<1> QED
  BY <1>4, <1>5

LEMMA CommittedDeleted ==
  ASSUME DataInv, Committed, todo = 17 PROVE AccountsInv' /\ DeviceInv'
<1> DEFINE e == db'
<1>1. /\ Tabled(db) /\ e = DeletedNames(db) /\ e.version = db.version /\ db.version < 17
      /\ original' = original /\ e.profiles = db.profiles /\ db.version \in Nat
      /\ phase = "upgrade" /\ phase' = "upgrade" /\ todo' = 18
  BY CommittedRows DEF Committed, Operation
<1>2. /\ Keeps(db, e, {"accounts"}) /\ DOMAIN e.accounts = DOMAIN db.accounts
      /\ \A k \in DOMAIN db.accounts :
           /\ e.accounts[k].deleted = db.accounts[k].deleted
           /\ e.accounts[k].display = db.accounts[k].display
           /\ e.accounts[k].name =
                IF db.accounts[k].deleted THEN ArchivedName(k) ELSE db.accounts[k].name
  BY <1>1, DeletedNamesOf
<1>3. e.device = db.device
  BY <1>2 DEF Keeps, Columns
<1>4. Done(15)
  BY CommittedDone DEF Committed
<1>5. /\ db.profiles = original.profiles /\ DOMAIN original.accounts \subseteq DOMAIN db.accounts
      /\ original.profiles \subseteq DOMAIN db.accounts
      /\ Named(db.accounts) /\ NamesFree(db.accounts)
      /\ db.version < 15 => Plain(db.accounts)
  BY <1>1, <1>4 DEF DataInv, AccountsInv
<1> HIDE DEF e
<1>6. Named(e.accounts) /\ NamesFree(e.accounts)
  BY <1>2, <1>5, ArchivedNamed
<1>7. Plain(db.accounts) => Plain(e.accounts)
  BY <1>2 DEF Plain
<1>8. AccountsInv'
  BY <1>1, <1>2, <1>5, <1>6, <1>7 DEF AccountsInv, e
<1>9. DeviceInv'
  BY <1>1, <1>3, <1>4 DEF DataInv, DeviceInv, e
<1> QED
  BY <1>8, <1>9

(* The names the display names become: what a deleted account got stays nobody      *)
(* else's.                                                                          *)
LEMMA TakenNamed ==
  ASSUME NEW a, Named(a), NEW b, DOMAIN b = DOMAIN a,
         \A k \in DOMAIN a : b[k].deleted = a[k].deleted /\ b[k].name = NewName(a, k)
  PROVE  /\ Named(b)
         /\ \A k \in DOMAIN a : a[k].deleted => b[k].name = a[k].name
         /\ NamesFree(a) /\ (\A k \in DOMAIN a : a[k].deleted => a[k].name = ArchivedName(k)) =>
              NamesFree(b)
<1>1. Named(b)
  BY NewNamesDistinct DEF Named, IsInjective
<1>2. \A k \in DOMAIN a : a[k].deleted => b[k].name = a[k].name
  BY DEF NewName, MayTake
<1>3. ASSUME NamesFree(a), \A k \in DOMAIN a : a[k].deleted => a[k].name = ArchivedName(k)
      PROVE  NamesFree(b)
  <2>1. \A k, l \in DOMAIN a : b[k].name = b[l].name => k = l
    BY <1>1 DEF Named, IsInjective
  <2>2. \A k, l \in DOMAIN a : a[k].deleted /\ a[l].deleted /\ ArchivedName(l) = ArchivedName(k) => k = l
    BY <1>3 DEF NamesFree
  <2> SUFFICES ASSUME NEW k \in DOMAIN a, NEW l \in DOMAIN a, a[k].deleted,
                      b[l].name = ArchivedName(k) \/ (a[l].deleted /\ ArchivedName(l) = ArchivedName(k))
               PROVE  k = l
    BY DEF NamesFree
  <2>3. b[k].name = ArchivedName(k)
    BY <1>2, <1>3
  <2> QED
    BY <2>1, <2>2, <2>3
<1> QED
  BY <1>1, <1>2, <1>3

LEMMA CommittedNames ==
  ASSUME DataInv, Committed, todo = 18 PROVE AccountsInv' /\ DeviceInv'
<1> DEFINE e == db'
<1>1. /\ Tabled(db) /\ e = AccountNames(db) /\ e.version = db.version /\ Named(db.accounts)
      /\ original' = original /\ e.profiles = db.profiles /\ db.version \in Nat
      /\ phase = "upgrade" /\ phase' = "upgrade" /\ todo' = 19 /\ todo = 18
  BY CommittedRows DEF Committed, Operation
<1>2. /\ Keeps(db, e, {"accounts"}) /\ DOMAIN e.accounts = DOMAIN db.accounts
      /\ \A k \in DOMAIN db.accounts :
           /\ e.accounts[k].deleted = db.accounts[k].deleted
           /\ e.accounts[k].display = Nobody
           /\ e.accounts[k].name = NewName(db.accounts, k)
  BY <1>1, AccountNamesOf
<1>3. e.device = db.device
  BY <1>2 DEF Keeps, Columns
<1>4. Done(15)
  BY CommittedDone DEF Committed
<1>5. /\ db.profiles = original.profiles /\ DOMAIN original.accounts \subseteq DOMAIN db.accounts
      /\ original.profiles \subseteq DOMAIN db.accounts
      /\ db.version < 17 => NamesFree(db.accounts)
      /\ db.version < 15 => Plain(db.accounts)
      /\ db.version < 17 => \A k \in DOMAIN db.accounts :
           db.accounts[k].deleted => db.accounts[k].name = ArchivedName(k)
  BY <1>1, <1>4 DEF DataInv, AccountsInv
<1> HIDE DEF e
<1>6. /\ Named(e.accounts)
      /\ \A k \in DOMAIN db.accounts : db.accounts[k].deleted => e.accounts[k].name = db.accounts[k].name
      /\ db.version < 17 => NamesFree(e.accounts)
  BY <1>1, <1>2, <1>5, TakenNamed
<1>7. Plain(db.accounts) => Plain(e.accounts)
  BY <1>2 DEF Plain, NewName, MayTake
<1>8. db.version < 17 => \A k \in DOMAIN e.accounts :
        e.accounts[k].deleted => e.accounts[k].name = ArchivedName(k)
  BY <1>2, <1>5, <1>6
<1>9. AccountsInv'
  BY <1>1, <1>2, <1>5, <1>6, <1>7, <1>8 DEF AccountsInv, e
<1>10. DeviceInv'
  BY <1>1, <1>3, <1>4 DEF DataInv, DeviceInv, e
<1> QED
  BY <1>9, <1>10

LEMMA CommittedAccounts == ASSUME DataInv, Committed PROVE AccountsInv' /\ DeviceInv'
<1> DEFINE e == db'
<1>1. /\ Tabled(db) /\ Operation(db, todo, Seen, e) /\ e # Failed /\ e.version = db.version
      /\ original' = original /\ e.profiles = db.profiles /\ db.version \in Nat /\ Named(db.accounts)
      /\ phase = "upgrade" /\ phase' = "upgrade" /\ todo' = todo + 1 /\ todo \in 11..18
      /\ db.version < todo
  BY CommittedRows DEF Committed
<1>2. CASE todo \in 11..14
  <2>1. /\ e = VideoPaths(db) \/ e = ReadingPaths(db, Seen) \/ e = ReadingDuplicates(db)
             \/ e = MusicPaths(db)
    BY <1>1, <1>2 DEF Operation
  <2>2. Keeps(db, e, {"videos"}) \/ Keeps(db, e, {"readings"}) \/ Keeps(db, e, {"tracks", "albums"})
    BY <1>1, <2>1, VideoPathsOf, ReadingPathsOf, ReadingDuplicatesOf, MusicPathsOf
  <2>3. e.accounts = db.accounts /\ e.device = db.device
    BY <2>2 DEF Keeps, Columns
  <2>4. ~Done(15)'
    BY <1>2, CommittedDone
  <2>5. ~(todo' > 17) /\ ~Done(15)
    BY <1>1, <1>2, CommittedDone
  <2>6. AccountsInv'
    BY <1>1, <2>3, <2>4, <2>5 DEF DataInv, AccountsInv, e
  <2>7. DeviceInv'
    BY <1>1, <2>3, <2>4, <2>5 DEF DataInv, DeviceInv, e
  <2> QED
    BY <2>6, <2>7
<1>3. CASE todo = 16
  <2>1. e = DeviceOnly(db)
    BY <1>1, <1>3 DEF Operation
  <2>2. /\ Keeps(db, e, {"device"})
        /\ e.device.profile = Nobody /\ e.device.account = db.device.account
    BY <1>1, <2>1, DeviceOnlyOf
  <2>3. e.accounts = db.accounts
    BY <2>2 DEF Keeps, Columns
  <2>4. Done(15) /\ ~(todo' > 17)
    BY <1>1, <1>3, CommittedDone
  <2>5. AccountsInv'
    BY <1>1, <2>3, <2>4 DEF DataInv, AccountsInv, e
  <2>6. DeviceInv'
    BY <1>1, <2>2, <2>4 DEF DataInv, DeviceInv, e
  <2> QED
    BY <2>5, <2>6
<1> QED
  BY <1>1, <1>2, <1>3, CommittedLegacy, CommittedDeleted, CommittedNames

LEMMA CommittedData == ASSUME DataInv, Committed PROVE DataInv'
BY CommittedVersion, CommittedPaths, CommittedCopy, CommittedRefusal, CommittedShelf,
   CommittedAccounts DEF DataInv

-----------------------------------------------------------------------------------
(* What Migrate, SetVersion and the tool do, and when they refuse.                  *)
LEMMA MigrateRefuses ==
  ASSUME DataInv, phase = "upgrade", todo \in 11..19, Migrated(db, todo, Seen) = Failed
  PROVE  Unmappable(db)
<1>1. Tabled(db) /\ Named(db.accounts) /\ Target = 19
  BY DEF DataInv, VersionInv, AccountsInv, Target
<1>2. db # Failed
  BY <1>1, HasColumns, NotFailed
<1>3. Operation(db, todo, Seen, Failed)
  BY <1>1, <1>2, MigratedCases
<1>4. ~Mappable(db)
  BY <1>1, <1>3, OperationMaps
<1> QED
  BY <1>1, <1>4, MappableIs

LEMMA MigrateData == ASSUME DataInv, Migrate PROVE DataInv'
<1> DEFINE after == Migrated(db, todo, Seen)
<1>1. /\ phase = "upgrade" /\ todo \in 11..19 /\ Target = 19 /\ UNCHANGED <<snapshots, writes>>
      /\ db.version \in Nat /\ Tabled(db)
  BY DEF Migrate, DataInv, VersionInv, Tabled, Target, counts
<1>2. CASE after = Failed
  <2>1. Unmappable(original)
    BY <1>1, <1>2, MigrateRefuses DEF DataInv, RefusalInv
  <2>2. /\ phase' = "down" /\ failure' = "rows" /\ todo' = todo
        /\ UNCHANGED <<db, original, tool>>
    BY <1>2 DEF Migrate, EndStart
  <2>3. \A v \in Int : Done(v)' => Done(v)
    BY <2>2 DEF Done
  <2>4. VersionInv' /\ PathsInv'
    BY <1>1, <2>2, <2>3 DEF DataInv, VersionInv, PathsInv
  <2>5. CopyInv' /\ RefusalInv'
    BY <1>1, <2>1, <2>2 DEF DataInv, CopyInv, Safe, RefusalInv
  <2>6. AccountsInv' /\ DeviceInv'
    BY <1>1, <2>2, <2>3 DEF DataInv, AccountsInv, DeviceInv
  <2>7. ShelfInv'
    BY <1>1, <2>2 DEF DataInv, ShelfInv
  <2> QED
    BY <2>4, <2>5, <2>6, <2>7 DEF DataInv
<1>3. CASE after # Failed
  <2>1. /\ db' = after /\ todo' = todo + 1
        /\ UNCHANGED <<original, phase, failure, tool>>
    BY <1>3 DEF Migrate
  <2>2. \/ (db.version >= todo \/ todo = Target) /\ db' = db
        \/ db.version < todo /\ todo # Target /\ Operation(db, todo, Seen, db')
    BY <1>1, <2>1, MigratedCases
  <2> HIDE DEF after
  <2>3. CASE (db.version >= todo \/ todo = Target) /\ db' = db
    <3>1. \A v \in 11..18 : Done(v)' => Done(v)
      BY <1>1, <2>1, <2>3 DEF Done
    <3>2. VersionInv'
      BY <1>1, <2>1, <2>3 DEF DataInv, VersionInv
    <3>3. PathsInv'
      BY <2>3, <3>1 DEF DataInv, PathsInv
    <3>4. CopyInv' /\ RefusalInv'
      BY <1>1, <2>1, <2>3 DEF DataInv, CopyInv, Safe, RefusalInv
    <3>5. db.version < 17 /\ todo' > 17 => todo > 17
      BY <1>1, <2>1, <2>3
    <3>6. AccountsInv' /\ DeviceInv'
      BY <1>1, <2>1, <2>3, <3>1, <3>5 DEF DataInv, AccountsInv, DeviceInv
    <3>7. ShelfInv'
      BY <1>1, <2>1, <2>3 DEF DataInv, ShelfInv
    <3> QED
      BY <3>2, <3>3, <3>4, <3>6, <3>7 DEF DataInv
  <2>4. CASE db.version < todo /\ todo # Target /\ Operation(db, todo, Seen, db')
    <3>1. Committed
      BY <1>1, <1>3, <2>1, <2>4 DEF Committed
    <3> QED
      BY <3>1, CommittedData
  <2> QED
    BY <2>2, <2>3, <2>4
<1> QED
  BY <1>2, <1>3

(* Once every migration has run no two rows are of one file.                        *)
LEMMA VersionSet ==
  ASSUME DataInv, SetVersion
  PROVE  /\ db' = [db EXCEPT !.version = Target] /\ phase' = "storage"
         /\ UNCHANGED <<original, snapshots, tool, failure, writes, todo>>
<1>1. phase = "upgrade" /\ todo > Target /\ Target = 19 /\ todo \in Nat
  BY DEF SetVersion, DataInv, VersionInv, Target
<1>2. Done(13) /\ Done(14)
  BY <1>1 DEF Done
<1>3. Told(db.readings) /\ Told(db.tracks) /\ Told(db.albums)
  BY <1>2 DEF DataInv, PathsInv
<1>4. Pathed(db.readings) /\ Pathed(db.tracks) /\ Pathed(db.albums)
  BY TablesPathed DEF DataInv, VersionInv
<1>5. ~Duplicates(db.readings) /\ ~Duplicates(db.tracks) /\ ~Duplicates(db.albums)
  BY <1>3, <1>4, ToldPlaces
<1>6. Versioned(db) = [db EXCEPT !.version = Target]
  BY <1>5 DEF Versioned
<1>7. [db EXCEPT !.version = Target] # Failed
  <2>1. DOMAIN [db EXCEPT !.version = Target] = Columns
    BY HasColumns DEF DataInv, VersionInv
  <2> QED
    BY <2>1, NotFailed
<1> QED
  BY <1>6, <1>7 DEF SetVersion, counts

LEMMA VersionData == ASSUME DataInv, SetVersion PROVE DataInv'
<1> DEFINE e == db'
<1>1. /\ e = [db EXCEPT !.version = Target] /\ phase' = "storage"
      /\ UNCHANGED <<original, snapshots, tool, failure, writes, todo>>
  BY VersionSet
<1>2. DOMAIN db = Columns /\ Tabled(db) /\ phase = "upgrade" /\ todo > Target /\ todo \in Nat
  BY HasColumns DEF DataInv, VersionInv, SetVersion
<1>3. /\ DOMAIN e = Columns /\ e.version = Target
      /\ \A f \in Columns \ {"version"} : e[f] = db[f]
  BY <1>1, <1>2 DEF Columns
<1>4. /\ e.videos = db.videos /\ e.readings = db.readings /\ e.tracks = db.tracks
      /\ e.albums = db.albums /\ e.profiles = db.profiles /\ e.accounts = db.accounts
      /\ e.device = db.device
  BY <1>3 DEF Columns
<1> HIDE DEF e
<1>5. \A v \in 11..18 : Done(v)
  BY <1>2 DEF Done, Target
<1>6. Tabled(e)
  <2>1. Target \in Nat
    BY DEF Target
  <2> QED
    BY <1>2, <1>3, <1>4, <2>1 DEF Tabled, Tables, Columns
<1>7. VersionInv'
  BY <1>1, <1>3, <1>6 DEF DataInv, VersionInv, e
<1>8. PathsInv'
  BY <1>4, <1>5 DEF DataInv, PathsInv, e
<1>9. Catalog(e) = Catalog(db)
  <2>1. \A t \in Tables : e[t] = db[t]
    BY <1>4 DEF Tables
  <2> QED
    BY <2>1, SameCatalog
<1>10. CopyInv'
  BY <1>1, <1>9 DEF DataInv, CopyInv, Safe, e
<1>11. Unmappable(e) <=> Unmappable(db)
  BY <1>2, <1>4, <1>6, MappableIs DEF Mappable
<1>12. RefusalInv'
  BY <1>1, <1>11 DEF DataInv, RefusalInv, e
<1>13. e.version = 19
  BY <1>3 DEF Target
<1>14. AccountsInv' /\ DeviceInv'
  BY <1>1, <1>4, <1>5, <1>13 DEF DataInv, AccountsInv, DeviceInv, e
<1>15. ShelfInv'
  <2>1. ShelfStays(db, e)
    BY <1>4, OtherColumns
  <2> QED
    BY <1>1, <2>1 DEF DataInv, ShelfInv, ShelfStays, e
<1> QED
  BY <1>7, <1>8, <1>10, <1>12, <1>14, <1>15 DEF DataInv

-----------------------------------------------------------------------------------
(* A bookmark.                                                                      *)
LEMMA BookmarkIs ==
  ASSUME DataInv, SaveBookmark
  PROVE  \E i \in DOMAIN db.readings, r \in Readers :
           /\ db' = [db EXCEPT !.readings = Bookmarked(db.readings, {i}, r, 10 + writes)]
           /\ original' = [original EXCEPT !.readings = Bookmarked(original.readings,
                  At(original.readings, RowPath(db.readings[i])), r, 10 + writes)]
<1>1. PICK i \in DOMAIN db.readings, r \in Readers :
        /\ db' = [db EXCEPT !.readings[i].mark[r] = 10 + writes]
        /\ original' = [original EXCEPT !.readings = [j \in DOMAIN @ |->
             IF RowPath(@[j]) = RowPath(db.readings[i])
             THEN [@[j] EXCEPT !.mark[r] = 10 + writes] ELSE @[j]]]
  BY DEF SaveBookmark
<1> DEFINE rows == db.readings
           f == RowPath(db.readings[i])
<1>2. rows = [j \in DOMAIN rows |-> rows[j]]
  BY DEF DataInv, VersionInv, Tabled, Table
<1>3. [rows EXCEPT ![i].mark[r] = 10 + writes] = Bookmarked(rows, {i}, r, 10 + writes)
  BY <1>2 DEF Bookmarked
<1>4. db' = [db EXCEPT !.readings = Bookmarked(rows, {i}, r, 10 + writes)]
  BY <1>1, <1>3
<1>5. [j \in DOMAIN original.readings |->
         IF RowPath(original.readings[j]) = f
         THEN [original.readings[j] EXCEPT !.mark[r] = 10 + writes] ELSE original.readings[j]]
      = Bookmarked(original.readings, At(original.readings, f), r, 10 + writes)
  <2>1. \A j \in DOMAIN original.readings :
          j \in At(original.readings, f) <=> RowPath(original.readings[j]) = f
    BY DEF At
  <2> QED
    BY <2>1 DEF Bookmarked
<1>6. original' = [original EXCEPT !.readings =
                     Bookmarked(original.readings, At(original.readings, f), r, 10 + writes)]
  BY <1>1, <1>5
<1> QED
  BY <1>4, <1>6

(* It is the latest of its file in both databases, and of no other.                 *)
LEMMA BookmarkRows ==
  ASSUME DataInv, SaveBookmark
  PROVE  /\ Tabled(db') /\ Tabled(original')
         /\ Keeps(db, db', {"readings"}) /\ Keeps(original, original', {"readings"})
         /\ ShelfInv' /\ writes \in Nat /\ writes' = writes + 1
         /\ DOMAIN db'.readings = DOMAIN db.readings
         /\ DOMAIN original'.readings = DOMAIN original.readings
         /\ \A j \in DOMAIN db.readings :
              /\ db'.readings[j].path = db.readings[j].path
              /\ db'.readings[j].old = db.readings[j].old
         /\ \A j \in DOMAIN original.readings :
              /\ original'.readings[j].path = original.readings[j].path
              /\ original'.readings[j].old = original.readings[j].old
<1> DEFINE n == 10 + writes
           e == db'
           o == original'
<1>1. Tabled(db) /\ Tabled(original) /\ writes \in Nat /\ n \in Nat /\ writes' = writes + 1
  BY DEF DataInv, VersionInv, SaveBookmark
<1>2. /\ Shelf(db) = Shelf(original) /\ Files(db.readings) = Files(original.readings)
      /\ MarksBelow(db, n) /\ MarksBelow(original, n)
  BY DEF DataInv, ShelfInv
<1> HIDE DEF n
<1>3. PICK i \in DOMAIN db.readings, r \in Readers :
        /\ e = [db EXCEPT !.readings = Bookmarked(db.readings, {i}, r, n)]
        /\ o = [original EXCEPT !.readings = Bookmarked(original.readings,
                  At(original.readings, RowPath(db.readings[i])), r, n)]
  BY BookmarkIs DEF n
<1> DEFINE f == RowPath(db.readings[i])
           G == At(original.readings, f)
<1> HIDE DEF e, o
<1>4. {i} \in SUBSET DOMAIN db.readings /\ {i} # {} /\ \A j \in {i} : RowPath(db.readings[j]) = f
  OBVIOUS
<1>5. G \in SUBSET DOMAIN original.readings /\ \A j \in G : RowPath(original.readings[j]) = f
  BY DEF At
<1>6. G # {}
  <2>1. f \in Files(db.readings)
    BY DEF Files
  <2>2. f \in Files(original.readings)
    BY <1>2, <2>1
  <2> QED
    BY <2>2 DEF Files, At
<1> HIDE DEF f, G
<1>7. o = [original EXCEPT !.readings = Bookmarked(original.readings, G, r, n)]
  BY <1>3 DEF f, G
<1>8. Marks(db, e, {i}, r, n)
  BY <1>1, <1>3, <1>4, BookmarkOf
<1>9. Marks(original, o, G, r, n)
  BY <1>1, <1>5, <1>7, BookmarkOf
<1>10. MarksFile(db, e, f, r, n)
  BY <1>1, <1>2, <1>3, <1>4, BookmarkMarks
<1>11. MarksFile(original, o, f, r, n)
  BY <1>1, <1>2, <1>5, <1>6, <1>7, BookmarkMarks
<1>12. /\ Tabled(e) /\ Tabled(o)
       /\ Keeps(db, e, {"readings"}) /\ Keeps(original, o, {"readings"})
  BY <1>8, <1>9 DEF Marks
<1>13. /\ e.tracks = db.tracks /\ e.albums = db.albums
       /\ o.tracks = original.tracks /\ o.albums = original.albums
  BY <1>12 DEF Keeps, Columns
<1>14. Shelf(e) = Shelf(o)
  <2> SUFFICES ASSUME NEW p \in Places
               PROVE  /\ \A q \in Readers : MarkAt(e, p, q) = MarkAt(o, p, q)
                      /\ PlaysAt(e, p) = PlaysAt(o, p) /\ LikedAt(e, p) = LikedAt(o, p)
                      /\ ListedAt(e, p) = ListedAt(o, p) /\ ArtistsAt(e, p) = ArtistsAt(o, p)
    BY ShelfSame
  <2>1. /\ \A q \in Readers : MarkAt(db, p, q) = MarkAt(original, p, q)
        /\ PlaysAt(db, p) = PlaysAt(original, p) /\ LikedAt(db, p) = LikedAt(original, p)
        /\ ListedAt(db, p) = ListedAt(original, p) /\ ArtistsAt(db, p) = ArtistsAt(original, p)
    BY <1>2, ShelfTells
  <2>2. /\ PlaysAt(e, p) = PlaysAt(db, p) /\ LikedAt(e, p) = LikedAt(db, p)
        /\ ListedAt(e, p) = ListedAt(db, p) /\ ArtistsAt(e, p) = ArtistsAt(db, p)
    BY <1>13, MusicApart
  <2>3. /\ PlaysAt(o, p) = PlaysAt(original, p) /\ LikedAt(o, p) = LikedAt(original, p)
        /\ ListedAt(o, p) = ListedAt(original, p) /\ ArtistsAt(o, p) = ArtistsAt(original, p)
    BY <1>13, MusicApart
  <2>4. \A q \in Readers : MarkAt(e, p, q) = MarkAt(o, p, q)
    BY <1>10, <1>11, <2>1 DEF MarksFile
  <2> QED
    BY <2>1, <2>2, <2>3, <2>4
<1>15. ShelfInv'
  <2>1. 10 + writes' = n + 1
    BY <1>1 DEF n
  <2>2. /\ Shelf(db') = Shelf(original') /\ Files(db'.readings) = Files(original'.readings)
        /\ MarksBelow(db', 10 + writes') /\ MarksBelow(original', 10 + writes')
    BY <1>2, <1>10, <1>11, <1>14, <2>1 DEF e, o, MarksFile
  <2> QED
    BY <2>2 DEF ShelfInv
<1>16. /\ DOMAIN e.readings = DOMAIN db.readings /\ DOMAIN o.readings = DOMAIN original.readings
       /\ \A j \in DOMAIN db.readings :
            e.readings[j].path = db.readings[j].path /\ e.readings[j].old = db.readings[j].old
       /\ \A j \in DOMAIN original.readings :
            o.readings[j].path = original.readings[j].path /\ o.readings[j].old = original.readings[j].old
  BY <1>8, <1>9 DEF Marks
<1> QED
  BY <1>1, <1>12, <1>15, <1>16 DEF e, o

(* Nothing else of the two databases changes.                                       *)
LEMMA SameRows ==
  ASSUME NEW d, Tabled(d), NEW e, Tabled(e), Keeps(d, e, {"readings"}),
         DOMAIN e.readings = DOMAIN d.readings,
         \A j \in DOMAIN d.readings :
           e.readings[j].path = d.readings[j].path /\ e.readings[j].old = d.readings[j].old
  PROVE  /\ Catalog(e) = Catalog(d) /\ (HasCatalog(e) <=> HasCatalog(d))
         /\ (Unmappable(e) <=> Unmappable(d))
         /\ (AllRelative(e.readings) <=> AllRelative(d.readings))
         /\ (Told(e.readings) <=> Told(d.readings))
<1>1. e.videos = d.videos /\ e.tracks = d.tracks /\ e.albums = d.albums
  BY DEF Keeps, Columns
<1>2. \A t \in Tables : t = "readings" \/ e[t] = d[t]
  BY <1>1 DEF Tables
<1>3. Catalog(e) = Catalog(d) /\ (HasCatalog(e) <=> HasCatalog(d))
  <2>1. \A t \in Tables : DOMAIN e[t] = DOMAIN d[t] /\
          \A i \in DOMAIN d[t] : e[t][i].path = d[t][i].path /\ e[t][i].old = d[t][i].old
    BY <1>2
  <2> QED
    BY <2>1, SameCatalog
<1>4. \A j \in DOMAIN d.readings : RowPath(e.readings[j]) = RowPath(d.readings[j])
  BY DEF RowPath
<1>5. Mapped(e.readings) <=> Mapped(d.readings)
  BY <1>4 DEF Mapped
<1>6. Unmappable(e) <=> Unmappable(d)
  BY <1>1, <1>5, MappableIs DEF Mappable
<1>7. (AllRelative(e.readings) <=> AllRelative(d.readings)) /\ (Told(e.readings) <=> Told(d.readings))
  BY DEF AllRelative, Told
<1> QED
  BY <1>3, <1>6, <1>7

LEMMA BookmarkData == ASSUME DataInv, SaveBookmark PROVE DataInv'
<1> DEFINE e == db'
           o == original'
<1>1. UNCHANGED <<snapshots, phase, todo, tool, failure>>
  BY DEF SaveBookmark
<1>2. Tabled(db) /\ Tabled(original)
  BY DEF DataInv, VersionInv
<1>3. /\ Tabled(e) /\ Tabled(o) /\ Keeps(db, e, {"readings"}) /\ Keeps(original, o, {"readings"})
      /\ ShelfInv' /\ writes \in Nat /\ writes' = writes + 1
  BY BookmarkRows
<1>4. /\ Catalog(e) = Catalog(db)
      /\ (HasCatalog(e) <=> HasCatalog(db))
      /\ (Unmappable(e) <=> Unmappable(db))
      /\ (AllRelative(e.readings) <=> AllRelative(db.readings))
      /\ (Told(e.readings) <=> Told(db.readings))
  <2>1. /\ DOMAIN e.readings = DOMAIN db.readings
        /\ \A j \in DOMAIN db.readings :
             e.readings[j].path = db.readings[j].path /\ e.readings[j].old = db.readings[j].old
    BY BookmarkRows
  <2> HIDE DEF e
  <2> QED
    BY <1>2, <1>3, <2>1, SameRows
<1>5. /\ Catalog(o) = Catalog(original)
      /\ (HasCatalog(o) <=> HasCatalog(original))
      /\ (Unmappable(o) <=> Unmappable(original))
  <2>1. /\ DOMAIN o.readings = DOMAIN original.readings
        /\ \A j \in DOMAIN original.readings :
             o.readings[j].path = original.readings[j].path /\ o.readings[j].old = original.readings[j].old
    BY BookmarkRows
  <2> HIDE DEF o
  <2> QED
    BY <1>2, <1>3, <2>1, SameRows
<1>6. /\ e.version = db.version /\ e.videos = db.videos /\ e.tracks = db.tracks
      /\ e.albums = db.albums /\ e.profiles = db.profiles /\ e.accounts = db.accounts
      /\ e.device = db.device
  BY <1>3 DEF Keeps, Columns
<1>7. /\ o.version = original.version /\ o.profiles = original.profiles
      /\ o.accounts = original.accounts /\ o.device = original.device
      /\ o.albums = original.albums
  BY <1>3 DEF Keeps, Columns
<1> HIDE DEF e, o
<1>8. \A v \in 11..19 : Done(v)' <=> Done(v)
  BY <1>1, <1>6 DEF Done, e
<1>9. VersionInv'
  BY <1>1, <1>3, <1>6, <1>7 DEF DataInv, VersionInv, e, o
<1>10. PathsInv'
  BY <1>4, <1>6, <1>8 DEF DataInv, PathsInv, e
<1>11. Safe' <=> Safe
  BY <1>1, <1>5 DEF Safe, o
<1>12. CopyInv'
  BY <1>1, <1>4, <1>5, <1>6, <1>7, <1>11 DEF DataInv, CopyInv, e, o
<1>13. RefusalInv'
  BY <1>1, <1>4, <1>5 DEF DataInv, RefusalInv, e, o
<1>14. AccountsInv'
  BY <1>1, <1>6, <1>7, <1>8 DEF DataInv, AccountsInv, e, o
<1>15. DeviceInv'
  BY <1>6, <1>7, <1>8 DEF DataInv, DeviceInv, e, o
<1> QED
  BY <1>3, <1>9, <1>10, <1>12, <1>13, <1>14, <1>15 DEF DataInv

-----------------------------------------------------------------------------------
(* The tool.                                                                        *)
LEMMA ToolSavesData == ASSUME DataInv, ToolBacksUp PROVE DataInv'
<1>1. /\ snapshots' = snapshots \cup {Catalog(db)} /\ tool' = "saved"
      /\ UNCHANGED <<db, original, phase, todo, failure, writes>>
  BY DEF ToolBacksUp, counts
<1>2. Safe'
  BY <1>1 DEF DataInv, CopyInv, Safe
<1>3. \A v \in Int : Done(v)' <=> Done(v)
  BY <1>1 DEF Done
<1>4. VersionInv' /\ PathsInv'
  BY <1>1, <1>3 DEF DataInv, VersionInv, PathsInv
<1>5. CopyInv'
  BY <1>1, <1>2 DEF DataInv, CopyInv
<1>6. RefusalInv'
  BY <1>1 DEF DataInv, RefusalInv
<1>7. AccountsInv' /\ DeviceInv'
  BY <1>1, <1>3 DEF DataInv, AccountsInv, DeviceInv
<1>8. ShelfInv'
  BY <1>1 DEF DataInv, ShelfInv
<1> QED
  BY <1>4, <1>5, <1>6, <1>7, <1>8 DEF DataInv

LEMMA ToolAppliesData == ASSUME DataInv, ToolApplies PROVE DataInv'
<1> DEFINE e == db'
<1>1. /\ tool = "saved" /\ UNCHANGED <<original, snapshots, phase, todo, failure, writes>>
  BY DEF ToolApplies, counts
<1>2. CASE tool' = "idle" /\ db' = db
  BY <1>1, <1>2, QuietData
<1>3. CASE CanApply(db) /\ e = Applied(db) /\ tool' = "applied"
  <2>1. Tabled(db)
    BY DEF DataInv, VersionInv
  <2>2. Keeps(db, e, Tables) /\ Tabled(e) /\ \A t \in Tables : Told(e[t])
    BY <1>3, <2>1, AppliedOf
  <2>3. ShelfStays(db, e) /\ ~Unmappable(e)
    BY <1>3, <2>1, <2>2, AppliedKeeps, AppliedMaps, MappableIs
  <2>4. /\ e.version = db.version /\ e.profiles = db.profiles /\ e.accounts = db.accounts
        /\ e.device = db.device
    BY <2>2 DEF Keeps, Columns, Tables
  <2>5. Told(e.videos) /\ Told(e.readings) /\ Told(e.tracks) /\ Told(e.albums)
    BY <2>2 DEF Tables
  <2> HIDE DEF e
  <2>6. \A v \in 11..19 : Done(v)' <=> Done(v)
    BY <1>1, <2>4 DEF Done, e
  <2>7. VersionInv'
    BY <1>1, <2>2, <2>4 DEF DataInv, VersionInv, e
  <2>8. PathsInv'
    BY <2>5 DEF PathsInv, Told, e
  <2>9. CopyInv'
    <3>1. Safe'
      BY <1>1 DEF DataInv, CopyInv, Safe
    <3> QED
      BY <1>1, <3>1 DEF DataInv, CopyInv
  <2>10. RefusalInv'
    BY <1>1, <2>3 DEF DataInv, RefusalInv, e
  <2>11. AccountsInv'
    BY <1>1, <2>4, <2>6 DEF DataInv, AccountsInv, e
  <2>12. DeviceInv'
    BY <1>1, <2>4, <2>6 DEF DataInv, DeviceInv, e
  <2>13. ShelfInv'
    BY <1>1, <2>3 DEF DataInv, ShelfInv, ShelfStays, e
  <2> QED
    BY <2>7, <2>8, <2>9, <2>10, <2>11, <2>12, <2>13 DEF DataInv
<1> QED
  BY <1>2, <1>3 DEF ToolApplies

-----------------------------------------------------------------------------------
(* Every step.                                                                      *)
LEMMA NextData == ASSUME DataInv, [Next]_vars PROVE DataInv'
<1>1. CASE PreMigrationBackup \/ Migrate \/ SetVersion \/ SaveBookmark \/ ToolBacksUp \/ ToolApplies
  BY <1>1, BackupData, MigrateData, VersionData, BookmarkData, ToolSavesData, ToolAppliesData
<1>2. CASE Start \/ BackupFails
  BY <1>2, QuietData DEF Start, BackupFails, EndStart, life, counts
<1>3. CASE InitializeStorage \/ EnsureIdentity \/ IdentityUnreadable
  BY <1>3, QuietData DEF InitializeStorage, EnsureIdentity, IdentityUnreadable, EndStart, life, counts
<1>4. CASE InsertIdentity \/ InsertIdentityFails \/ RemoveMarker \/ MarkerStays
  BY <1>4, QuietData DEF InsertIdentity, InsertIdentityFails, RemoveMarker, MarkerStays, EndStart,
     life, counts
<1>5. CASE Listen \/ PortTaken \/ Request \/ Respond
  BY <1>5, QuietData DEF Listen, PortTaken, Request, Respond, EndStart, life, counts
<1>6. CASE BackupDue \/ BackupDone \/ ScheduledBackupFails
  BY <1>6, QuietData DEF BackupDue, BackupDone, ScheduledBackupFails, counts
<1>7. CASE Signal \/ Closed \/ CloseTimeout \/ Stop
  BY <1>7, QuietData DEF Signal, Closed, CloseTimeout, Stop, Over, life, counts
<1>8. CASE ToolAnalyses \/ ToolStops \/ Mount
  BY <1>8, QuietData DEF ToolAnalyses, ToolStops, Mount, life, counts
<1>9. CASE UNCHANGED vars
  BY <1>9, QuietData DEF vars, life, counts
<1> QED
  BY <1>1, <1>2, <1>3, <1>4, <1>5, <1>6, <1>7, <1>8, <1>9 DEF Next

LEMMA DataAlways == Spec => []DataInv
<1>1. Init => DataInv
  BY InitData
<1>2. DataInv /\ [Next]_vars => DataInv'
  BY NextData
<1> QED
  BY <1>1, <1>2, PTL DEF Spec

(* Whatever stop, repeated start or run of the tool comes between, every file keeps *)
(* the latest bookmark, the favourite, the listening count, the playlist place and  *)
(* the artists its rows had between them (database.js:590-838).                     *)
THEOREM NothingOwnedLost == Spec => []ShelfKept
<1>1. DataInv => ShelfKept
  BY DEF DataInv, ShelfInv, ShelfKept
<1> QED
  BY <1>1, DataAlways, PTL

(* A database of the target version has relative paths and one row for each file,   *)
(* an account for each profile, distinct names and the device bound to the account  *)
(* of its profile (database.js:842-937, account-service.js:315-442).                *)
THEOREM VersionIsTrue == Spec => []VersionTells
<1>1. DataInv => VersionTells
  <2> SUFFICES ASSUME DataInv, db.version = Target PROVE PathsTold /\ AccountsTold
    BY DEF VersionTells
  <2>1. \A v \in 11..18 : Done(v)
    BY DEF Done, Target
  <2>2. PathsTold
    BY <2>1 DEF DataInv, PathsInv, PathsTold, Tables
  <2>3. /\ original.profiles \subseteq DOMAIN db.accounts
        /\ DOMAIN original.accounts \subseteq DOMAIN db.accounts /\ Named(db.accounts)
    BY <2>1 DEF DataInv, AccountsInv
  <2>4. db.device.account =
          IF original.device.account # Nobody \/ original.version >= 15
          THEN original.device.account ELSE original.device.profile
    BY <2>1 DEF DataInv, DeviceInv
  <2> QED
    BY <2>2, <2>3, <2>4 DEF AccountsTold
<1> QED
  BY <1>1, DataAlways, PTL

(* Before a path of the catalogue is rewritten or a row merged away a copy of the   *)
(* catalogue as it was has been made, by the start or by the tool, which may run at *)
(* the same time (database.js:52-67, storage-migration-service.js:787).             *)
THEOREM CopyIsThere == Spec => []OriginalKept
<1>1. DataInv => OriginalKept
  BY DEF DataInv, CopyInv, Safe, OriginalKept
<1> QED
  BY <1>1, DataAlways, PTL

(* The migrations end a start only for rows nobody can map; what was migrated or    *)
(* merged before a stop never does (database.js:842-937).                           *)
THEOREM RefusedForCause == Spec => []RefusedOnlyUnmappable
<1>1. DataInv => RefusedOnlyUnmappable
  BY DEF DataInv, RefusalInv, RefusedOnlyUnmappable
<1> QED
  BY <1>1, DataAlways, PTL

(* What the tool has applied no start refuses.                                      *)
THEOREM AppliedIsAccepted == Spec => ToolUnblocks
<1>1. ASSUME DataInv, [Next]_vars, tool = "applied", failure' = "rows" PROVE failure = "rows"
  <2>1. ~Unmappable(db)
    BY <1>1 DEF DataInv, RefusalInv
  <2>2. CASE Migrate
    <3>1. phase = "upgrade" /\ todo \in 11..19
      BY <1>1, <2>2 DEF Migrate, DataInv, VersionInv, Target
    <3>2. Migrated(db, todo, Seen) # Failed
      BY <1>1, <2>1, <3>1, MigrateRefuses
    <3> QED
      BY <1>1, <2>2, <3>2 DEF Migrate
  <2>3. CASE SetVersion
    BY <1>1, <2>3, VersionSet
  <2>4. CASE \/ PreMigrationBackup \/ InsertIdentity \/ InsertIdentityFails \/ Listen
             \/ Request \/ SaveBookmark \/ Respond
             \/ BackupDue \/ BackupDone \/ ScheduledBackupFails
             \/ Signal \/ Closed \/ CloseTimeout \/ Stop
             \/ ToolAnalyses \/ ToolBacksUp \/ ToolApplies \/ ToolStops \/ Mount
             \/ InitializeStorage \/ UNCHANGED vars
    BY <1>1, <2>4 DEF PreMigrationBackup, InsertIdentity, InsertIdentityFails, Listen, Request,
       SaveBookmark, Respond, BackupDue, BackupDone, ScheduledBackupFails, Signal, Closed,
       CloseTimeout, Stop, ToolAnalyses, ToolBacksUp, ToolApplies, ToolStops, Mount,
       InitializeStorage, vars
  <2>5. CASE Start \/ BackupFails \/ IdentityUnreadable \/ RemoveMarker \/ MarkerStays \/ PortTaken
    BY <1>1, <2>5 DEF Start, BackupFails, IdentityUnreadable, RemoveMarker, MarkerStays, PortTaken,
       EndStart
  <2>6. CASE EnsureIdentity
    BY <1>1, <2>6 DEF EnsureIdentity, EndStart
  <2> QED
    BY <1>1, <2>2, <2>3, <2>4, <2>5, <2>6 DEF Next
<1> QED
  BY <1>1, DataAlways, PTL DEF Spec, ToolUnblocks
===================================================================================
