------------------------- MODULE MusicLibraryProofs -------------------------
(***************************************************************************)
(* Theorems about MusicLibrary, for every number of directories, files,    *)
(* rows and requests and any number of faults, stops, changes by hand and  *)
(* availability checks:                                                    *)
(*   - no state is malformed (TypeCorrect);                                *)
(*   - an edit or a deletion is all or nothing (AtomicEdits);              *)
(*   - no recording is lost unless an answer says so (NothingIsLost);      *)
(*   - a scan that nothing disturbed leaves the rows true (ScansHeal).     *)
(*                                                                         *)
(* All rest on the inductive invariant Shaped /\ Queued /\ Working /\      *)
(* NothingLost.  Shaped is what the variables are; Queued, that the        *)
(* operation at work is that of the request at the head of the queue;      *)
(* Working, what the disk and the rows are at each of its phases, in terms *)
(* of what it found when it began: Editing (SoFar going forward, Back when *)
(* it is undone), Scanning, Deleting, Ended.                               *)
(***************************************************************************)
EXTENDS MusicLibrary, TLAPS

-----------------------------------------------------------------------------
(* The shape of the variables. A row of a track has its album, and no two rows one  *)
(* path; requests wait for something the page can ask.                              *)
JobFields ==
  {"phase", "entries", "moved", "installed", "todo", "seen", "trash", "before", "clean"}

Wishes ==
  [op : {"track"}, target : Rows, dest : Places] \cup
  [op : {"album"}, target : Albums, dest : Dirs] \cup
  [op : {"delete"}, target : Albums, dest : {None}] \cup
  [op : {"scan"}, target : {None}, dest : {None}]

DiskShaped == at \in [Places -> File \cup {None}]

RowsShaped ==
  /\ rows \in [Rows -> Row \cup {None}]
  /\ albums \in [Albums -> Dirs \cup {None}]
  /\ \A r \in Rows : rows[r] # None => albums[rows[r].album] # None
  /\ \A r, s \in Rows : rows[r] # None /\ rows[s] # None /\ r # s =>
       rows[r].place # rows[s].place

JobShaped(j) ==
  /\ DOMAIN j = JobFields
  /\ j.phase \in Phases
  /\ \A r \in DOMAIN j.entries : r \in Rows /\ j.entries[r] \in Entry
  /\ j.moved \subseteq DOMAIN j.entries /\ j.installed \subseteq DOMAIN j.entries
  /\ \A f \in j.trash : f \in Places \X File
  /\ j.clean \in BOOLEAN

QueueShaped ==
  /\ requests \in [Requests -> Wishes \cup {Idle}]
  /\ queue \in Seq(Requests)
  /\ asked \in 0..MaxAsked

CheckShaped ==
  /\ DOMAIN check = {"row", "place", "file", "phase"}
  /\ check.phase \in {"idle", "listed", "seen"}
  /\ check.phase = "listed" => check.place \in Places
  /\ check.phase = "seen" => check.file \in File \cup {None}

HistoryShaped == left \subseteq Audios /\ gone \subseteq Audios /\ troubles \in 0..MaxTroubles

Shaped ==
  DiskShaped /\ RowsShaped /\ JobShaped(job) /\ QueueShaped /\ CheckShaped /\ HistoryShaped

(* The operation that works is that of the request at the head of the queue.        *)
Queued ==
  /\ \A i \in 1..Len(queue) : requests[queue[i]] # Idle
  /\ \A i, j \in 1..Len(queue) : queue[i] = queue[j] => i = j
  /\ job.phase # "free" => queue # <<>>
  /\ job.phase \in EditPhases => Request.op \in {"track", "album"}
  /\ job.phase \in ScanPhases => Request.op = "scan"
  /\ job.phase \in DeletePhases => Request.op = "delete"

-----------------------------------------------------------------------------
(* What the operation found. *)
RowsBefore ==
  /\ \A r \in Rows : rows[r] = None <=> Before.rows[r] = None
  /\ \A r \in Rows : rows[r] # None => rows[r].place = Before.rows[r].place
  /\ albums = Before.albums

EntriesSound ==
  /\ Entries # {}
  /\ \A r \in Entries : rows[r] # None /\ Before.at[From(r)] = job.entries[r].old
  /\ \A r, s \in Entries : From(r) = From(s) => r = s
  /\ Request.op = "track" => Entries = {Request.target}
  /\ Request.op = "album" => \A r \in Entries : To(r)[1] = Request.dest

Froms(R) == {From(r) : r \in R}
Tos(R) == {To(r) : r \in R}

TosFree ==
  /\ \A r, s \in Entries : To(r) = To(s) => r = s
  /\ \A r \in Entries : Before.at[To(r)] # None => To(r) \in Froms(Entries)

(* The disk while an edit goes forward. *)
SoFar ==
  /\ \A r \in job.installed : at[To(r)] = Copy(r)
  /\ \A p \in Places \ Tos(job.installed) :
       at[p] = IF p \in Froms(job.moved) THEN None ELSE Before.at[p]
  /\ job.installed # {} => job.moved = Entries

(* The disk while an edit goes back. *)
Back ==
  /\ \A p \in Places \ Froms(Entries) : Before.at[p] # None => at[p] = Before.at[p]
  /\ \A r \in Entries \ job.moved :
       \/ at[From(r)] = job.entries[r].old
       \/ ~job.clean /\ job.entries[r].old.audio \in gone
  /\ \A r \in job.moved : at[From(r)] # None => \E k \in Entries : at[From(r)] = Copy(k)

Moved ==
  \A r \in Entries :
    rows[r] # None /\ rows[r].place = To(r) /\ albums[rows[r].album] = To(r)[1]

Editing ==
  /\ job.trash = {}
  /\ EntriesSound
  /\ job.phase \in EditPhases \ {"clean"} =>
       RowsBefore /\ \A r \in Entries : rows[r].place = From(r)
  /\ job.phase # "staged" => TosFree
  /\ job.phase # "restore" => SoFar
  /\ job.phase = "staged" => job.moved = {}
  /\ job.phase \in {"staged", "aside"} => job.installed = {}
  /\ job.phase = "install" => job.moved = Entries
  /\ job.phase \in {"rows", "clean"} => job.moved = Entries /\ job.installed = Entries
  /\ job.phase = "clean" => Moved
  /\ job.phase = "restore" => job.moved # {} /\ Back

(* The scan. *)
Listed(p) == \E r \in RowsAt(p) : rows[r].shown
Scanning ==
  /\ job.moved = {} /\ job.trash = {}
  /\ job.phase = "scan" => job.todo \subseteq Places
  /\ job.phase = "missing" => \A r \in job.todo : r \in Rows /\ rows[r] # None
  /\ job.clean /\ job.phase = "scan" =>
       /\ \A p \in Places : At(p) => p \in job.todo \cup job.seen
       /\ \A p \in job.todo : At(p)
       /\ \A p \in job.seen : At(p) /\ (at[p].home = p => Listed(p))
  /\ job.clean /\ job.phase = "missing" =>
       /\ \A p \in Places : At(p) /\ at[p].home = p => Listed(p)
       /\ \A p \in job.seen : At(p)
       /\ \A r \in Rows \ job.todo : rows[r] # None /\ rows[r].shown => At(rows[r].place)

(* The deletion. *)
Deleting ==
  /\ job.moved = {}
  /\ job.phase = "folder" =>
       /\ job.trash = {} /\ RowsBefore /\ at = Before.at /\ albums[Request.target] # None
  /\ job.phase \in {"unlist", "unfolder"} =>
       LET d == albums[Request.target] IN
       /\ RowsBefore
       /\ \A p \in Places : at[p] = IF p[1] = d THEN None ELSE Before.at[p]
       /\ job.trash = {<<p, Before.at[p]>> : p \in {p \in Places : p[1] = d /\ Before.at[p] # None}}

Ended ==
  /\ job.moved = {} /\ job.trash = {}
  /\ job.phase = "ok" /\ Request.op \in {"track", "album"} =>
       /\ Moved
       /\ \A r \in Entries :
            /\ at[To(r)] = Copy(r)
            /\ From(r) \notin Tos(Entries) => at[From(r)] = None
  /\ job.phase = "refused" =>
       /\ RowsBefore
       /\ \A p \in Places : Before.at[p] # None => at[p] = Before.at[p]
  /\ job.phase = "ok" /\ Request.op = "scan" /\ job.clean =>
       /\ \A r \in Rows : rows[r] # None /\ rows[r].shown => At(rows[r].place)
       /\ \A p \in Places : At(p) /\ at[p].home = p => Listed(p)

Working ==
  /\ job.phase = "free" => job = Free
  /\ job.phase \in EditPhases => Editing
  /\ job.phase \in ScanPhases => Scanning
  /\ job.phase \in DeletePhases => Deleting
  /\ job.phase \in Answers => Ended

-----------------------------------------------------------------------------
(* What the shape of the variables gives, and how steps keep it. *)
LEMMA ShapedIsTypeOK == Shaped => TypeOK
BY DEF Shaped, DiskShaped, RowsShaped, JobShaped, QueueShaped, CheckShaped, HistoryShaped, TypeOK,
   Wishes, Idle

LEMMA FileIsThere ==
  ASSUME DiskShaped, NEW p \in Places, at[p] # None
  PROVE  at[p] \in File
BY DEF DiskShaped

LEMMA RowIsThere ==
  ASSUME RowsShaped, NEW r \in Rows, rows[r] # None
  PROVE  /\ rows[r] \in Row /\ rows[r].place \in Places /\ rows[r].album \in Albums
         /\ albums[rows[r].album] \in Dirs
BY DEF RowsShaped, Row

LEMMA FreeShaped == JobShaped(Free) /\ JobShaped(Refused)
BY DEF JobShaped, Free, Refused, JobFields, Phases, Answers, NoEntries

LEMMA EntryShaped ==
  ASSUME JobShaped(job), NEW r \in Entries
  PROVE  /\ r \in Rows /\ From(r) \in Places /\ To(r) \in Places /\ job.entries[r].old \in File
         /\ Copy(r) \in File /\ Copy(r) # None /\ Copy(r).audio = job.entries[r].old.audio
         /\ Copy(r).home = To(r) /\ job.entries[r].old.audio \in Audios
<1>1. r \in Rows /\ job.entries[r] \in Entry
  BY DEF JobShaped, Entries
<1>2. /\ From(r) \in Places /\ To(r) \in Places /\ job.entries[r].old \in File
  BY <1>1 DEF Entry, From, To
<1>3. Copy(r) \in File /\ Copy(r).audio = job.entries[r].old.audio /\ Copy(r).home = To(r)
  BY <1>2 DEF Copy, File
<1> QED
  BY <1>1, <1>2, <1>3, NoneAssumption DEF File

LEMMA AudiosOfEntries ==
  ASSUME JobShaped(job), NEW R, R \subseteq Entries
  PROVE  OldAudios(R) \subseteq Audios
BY EntryShaped DEF OldAudios

LEMMA AudiosTrashed == ASSUME JobShaped(job) PROVE Trashed \subseteq Audios
BY DEF JobShaped, Trashed, File

-----------------------------------------------------------------------------
(* One more thing is asked for. *)
LEMMA AskShaped ==
  ASSUME Shaped, NEW op, NEW target, NEW dest, Ask(op, target, dest),
         [op |-> op, target |-> target, dest |-> dest] \in Wishes
  PROVE  Shaped'
<1>1. NextRequest \in Requests
  BY DEF Ask, NextRequest
<1>2. QueueShaped'
  BY <1>1, ConstantsAssumption DEF Ask, Shaped, QueueShaped
<1> QED
  BY <1>2 DEF Ask, Shaped, DiskShaped, RowsShaped, JobShaped, CheckShaped, HistoryShaped, disk,
     catalogue

LEMMA UsersAsk ==
  ASSUME Shaped, Users
  PROVE  \E op, target, dest : /\ Ask(op, target, dest)
                               /\ [op |-> op, target |-> target, dest |-> dest] \in Wishes
<1>1. CASE \E r \in Rows, p \in Places : AskTrackEdit(r, p)
  BY <1>1 DEF AskTrackEdit, Wishes
<1>2. CASE \E a \in Albums : AskDelete(a)
  BY <1>2 DEF AskDelete, Wishes
<1>3. CASE \E a \in Albums, d \in Dirs : AskAlbumEdit(a, d)
  BY <1>3 DEF AskAlbumEdit, Wishes
<1>4. CASE AskScan
  BY <1>4 DEF AskScan, Wishes
<1> QED
  BY <1>1, <1>2, <1>3, <1>4 DEF Users

LEMMA UsersShaped == ASSUME Shaped, Users PROVE Shaped'
BY UsersAsk, AskShaped

(* The request at work is one of those there are. *)
LEMMA RequestShaped ==
  ASSUME QueueShaped, queue # <<>>
  PROVE  /\ Head(queue) \in Requests /\ Len(queue) \in Nat \ {0} /\ Head(queue) = queue[1]
         /\ Request \in Wishes \cup {Idle}
<1>1. Head(queue) \in Requests /\ Len(queue) \in Nat \ {0} /\ Head(queue) = queue[1]
  BY DEF QueueShaped
<1> QED
  BY <1>1 DEF QueueShaped, Request

LEMMA ReleaseShaped == ASSUME Shaped, Release PROVE Shaped'
<1>1. QueueShaped'
  BY RequestShaped DEF Release, Shaped, QueueShaped
<1>2. JobShaped(job)'
  BY FreeShaped DEF Release, JobShaped
<1> QED
  BY <1>1, <1>2 DEF Release, Shaped, DiskShaped, RowsShaped, CheckShaped, HistoryShaped, disk,
     catalogue

LEMMA GoesTo ==
  ASSUME JobShaped(job), NEW phase \in Phases, GoTo(phase)
  PROVE  /\ JobShaped(job') /\ job'.phase = phase /\ job'.clean = job.clean
         /\ job'.entries = job.entries /\ job'.moved = job.moved
         /\ job'.installed = job.installed /\ job'.todo = job.todo /\ job'.seen = job.seen
         /\ job'.trash = job.trash /\ job'.before = job.before
BY DEF JobShaped, JobFields, GoTo

LEMMA Counted == ASSUME HistoryShaped, Trouble \/ UNCHANGED troubles PROVE troubles' \in 0..MaxTroubles
BY ConstantsAssumption DEF HistoryShaped, Trouble

LEMMA PhasesAre ==
  /\ EditPhases \cup ScanPhases \cup DeletePhases \cup Answers \cup {"free"} = Phases
  /\ \A x \in EditPhases : x \notin ScanPhases \cup DeletePhases \cup Answers \cup {"free"}
  /\ \A x \in ScanPhases : x \notin DeletePhases \cup Answers \cup {"free"}
  /\ \A x \in DeletePhases : x \notin Answers \cup {"free"}
  /\ \A x \in Answers : x # "free"
BY DEF Phases, EditPhases, ScanPhases, DeletePhases, Answers

LEMMA BeginEditShaped == ASSUME Shaped, Queued, BeginEdit PROVE JobShaped(job')
<1>1. queue # <<>> /\ Request.op \in {"track", "album"}
  BY DEF BeginEdit, Running
<1>2. Request \in Wishes
  BY <1>1, RequestShaped DEF Shaped, Idle
<1>3. /\ Request.op = "track" => Request.target \in Rows /\ Request.dest \in Places
      /\ Request.op = "album" => Request.target \in Albums /\ Request.dest \in Dirs
  BY <1>2 DEF Wishes
<1>4. \A r \in Edited : r \in Rows /\ rows[r] # None
  BY <1>1, <1>3 DEF Edited, RowsOf
<1>5. ASSUME NEW r \in Edited, NEW names \in [Edited -> Names]
      PROVE  rows[r].place \in Places /\ Destination(r, names) \in Places
  <2>1. r \in Rows /\ rows[r].place \in Places
    BY <1>4, <1>5, RowIsThere DEF Shaped
  <2>2. names[r] \in Names
    BY <1>5
  <2> QED
    BY <2>1, <2>2, <1>1, <1>3 DEF Destination, Places
<1>6. CASE Edited # {} /\ \A r \in Edited : At(rows[r].place)
  <2> PICK names \in [Edited -> Names] : Begin(Staged(names))
    BY <1>6 DEF BeginEdit
  <2> DEFINE E == [r \in Edited |->
                     [from |-> rows[r].place, to |-> Destination(r, names),
                      old |-> at[rows[r].place]]]
  <2>1. ASSUME NEW r \in Edited PROVE r \in Rows /\ E[r] \in Entry
    <3>1. at[rows[r].place] \in File
      BY <1>5, <1>6, <2>1, FileIsThere DEF At, Shaped
    <3> QED
      BY <1>4, <1>5, <2>1, <3>1 DEF Entry
  <2>2. /\ DOMAIN job' = JobFields /\ job'.phase = "staged" /\ job'.entries = E
        /\ job'.moved = {} /\ job'.installed = {} /\ job'.trash = {} /\ job'.clean = TRUE
    BY DEF Staged, Begin, Free, JobFields
  <2> HIDE DEF E
  <2>3. DOMAIN E = Edited
    BY DEF E
  <2> QED
    BY <2>1, <2>2, <2>3 DEF JobShaped, Phases, EditPhases
<1>7. CASE ~(Edited # {} /\ \A r \in Edited : At(rows[r].place))
  <2>1. job' = [Refused EXCEPT !.before = [at |-> at, rows |-> rows, albums |-> albums]]
    BY <1>7 DEF BeginEdit, Begin
  <2> QED
    BY <2>1, FreeShaped DEF JobShaped, JobFields
<1> QED
  BY <1>6, <1>7

LEMMA JobStays ==
  ASSUME Shaped, BeginEdit \/ CheckDestinations \/ MoveFails \/ CommitRefused \/ CommitFails, Queued
  PROVE  Shaped'
<1>1. JobShaped(job')
  <2>1. CASE BeginEdit
    BY <2>1, BeginEditShaped
  <2>2. CASE CheckDestinations \/ MoveFails \/ CommitRefused \/ CommitFails
    <3>1. \E phase \in {"aside", "refused", "remove"} : GoTo(phase)
      BY <2>2 DEF CheckDestinations, MoveFails, CommitRefused, CommitFails
    <3>2. \A phase \in {"aside", "refused", "remove"} : phase \in Phases
      BY DEF Phases, EditPhases, Answers
    <3> QED
      BY <3>1, <3>2, GoesTo DEF Shaped
  <2> QED
    BY <2>1, <2>2
<1>2. UNCHANGED <<disk, catalogue, requests, queue, check, asked, gone>>
  BY DEF BeginEdit, CheckDestinations, MoveFails, CommitRefused, CommitFails
<1>3. HistoryShaped'
  <2>1. Trouble \/ UNCHANGED troubles
    BY DEF BeginEdit, CheckDestinations, MoveFails, CommitRefused, CommitFails
  <2> QED
    BY <1>2, <2>1, Counted DEF Shaped, HistoryShaped, disk
<1> QED
  BY <1>1, <1>2, <1>3 DEF Shaped, DiskShaped, RowsShaped, QueueShaped, CheckShaped, disk, catalogue,
     JobShaped

LEMMA MovesShaped ==
  ASSUME Shaped, NEW r \in Rows, MoveAside(r) \/ Install(r)
  PROVE  Shaped'
<1>1. r \in Entries
  BY DEF MoveAside, Install
<1>2. JobShaped(job')
  <2>1. CASE MoveAside(r)
    <3>1. /\ job'.phase \in {job.phase, "install"} /\ job'.entries = job.entries
          /\ job'.moved = job.moved \cup {r} /\ job'.installed = job.installed
          /\ job'.trash = job.trash /\ DOMAIN job' = DOMAIN job /\ job'.clean = job.clean
      BY <2>1 DEF MoveAside, Shaped, JobShaped, JobFields
    <3> QED
      BY <1>1, <3>1 DEF Shaped, JobShaped, Entries, Phases, EditPhases
  <2>2. CASE Install(r)
    <3>1. /\ job'.phase \in {job.phase, "rows"} /\ job'.entries = job.entries
          /\ job'.moved = job.moved /\ job'.installed = job.installed \cup {r}
          /\ job'.trash = job.trash /\ DOMAIN job' = DOMAIN job /\ job'.clean = job.clean
      BY <2>2 DEF Install, Shaped, JobShaped, JobFields
    <3> QED
      BY <1>1, <3>1 DEF Shaped, JobShaped, Entries, Phases, EditPhases
  <2> QED
    BY <2>1, <2>2
<1>3. DiskShaped'
  BY <1>1, EntryShaped DEF MoveAside, Install, Shaped, DiskShaped
<1> QED
  BY <1>2, <1>3 DEF MoveAside, Install, Shaped, RowsShaped, QueueShaped, CheckShaped, HistoryShaped,
     disk, catalogue, JobShaped

LEMMA BackShaped ==
  ASSUME Shaped, NEW r \in Rows, Restore(r) \/ RestoreFails(r)
  PROVE  Shaped'
<1>1. r \in Entries
  BY DEF Restore, RestoreFails, Shaped, JobShaped, Entries
<1>2. PICK broken \in BOOLEAN : AfterRestore(r, broken)
  BY DEF Restore, RestoreFails
<1>3. JobShaped(job')
  BY <1>1, <1>2 DEF AfterRestore, Shaped, JobShaped, JobFields, Phases, Answers
<1>4. DiskShaped'
  BY <1>1, EntryShaped DEF Restore, RestoreFails, Shaped, DiskShaped
<1>5. OldAudios({r}) \subseteq Audios
  BY <1>1, AudiosOfEntries DEF Shaped
<1>6. HistoryShaped'
  <2>1. troubles' \in 0..MaxTroubles
    BY Counted DEF Restore, RestoreFails, Shaped
  <2> QED
    BY <1>5, <2>1 DEF Restore, RestoreFails, Shaped, HistoryShaped
<1> QED
  BY <1>3, <1>4, <1>6 DEF Restore, RestoreFails, Shaped, RowsShaped, QueueShaped, CheckShaped,
     catalogue, JobShaped

LEMMA RemovesShaped == ASSUME Shaped, RemoveBackups \/ RemoveInstalled PROVE Shaped'
<1>1. JobShaped(job')
  BY ZenonT(60) DEF RemoveBackups, RemoveInstalled, GoTo, Shaped, JobShaped, JobFields, Phases, EditPhases,
     Answers
<1>2. DiskShaped'
  <2>1. CASE RemoveBackups
    BY <2>1 DEF RemoveBackups, Shaped, DiskShaped
  <2>2. CASE RemoveInstalled
    BY <2>2 DEF RemoveInstalled, Shaped, DiskShaped
  <2> QED
    BY <2>1, <2>2
<1>3. HistoryShaped'
  <2>1. \A r \in Entries : OldAudios({r}) \subseteq Audios
    BY AudiosOfEntries DEF Shaped
  <2>2. troubles' \in 0..MaxTroubles
    BY Counted DEF RemoveBackups, RemoveInstalled, Shaped
  <2>3. left' \subseteq Audios /\ gone' \subseteq Audios
    BY <2>1 DEF RemoveBackups, RemoveInstalled, Shaped, HistoryShaped
  <2> QED
    BY <2>2, <2>3 DEF HistoryShaped
<1> QED
  BY <1>1, <1>2, <1>3 DEF RemoveBackups, RemoveInstalled, Shaped, RowsShaped, QueueShaped,
     CheckShaped, catalogue, JobShaped

-----------------------------------------------------------------------------
(* The rows an edit leaves. *)
LEMMA RowsEdited ==
  ASSUME Shaped, NEW a \in Albums, PathsUnique, rows' = RowsAfterEdit(a),
         \A r, s \in Entries : To(r) = To(s) => r = s
  PROVE  /\ rows' \in [Rows -> Row \cup {None}]
         /\ \A r \in Entries : /\ r \in Rows /\ rows'[r] # None /\ rows'[r].place = To(r)
                               /\ rows'[r].album = a
         /\ \A r \in Rows \ Entries : rows'[r] = rows[r]
         /\ \A r, s \in Rows : rows'[r] # None /\ rows'[s] # None /\ r # s =>
              rows'[r].place # rows'[s].place
<1>1. ASSUME NEW r \in Entries
      PROVE  /\ r \in Rows /\ RowAfterEdit(r, a) \in Row /\ RowAfterEdit(r, a) # None
             /\ RowAfterEdit(r, a).place = To(r) /\ RowAfterEdit(r, a).album = a
  <2>1. r \in Rows /\ To(r) \in Places /\ Copy(r) \in File
    BY <1>1, EntryShaped DEF Shaped
  <2>2. RowAfterEdit(r, a) \in Row
    BY <2>1 DEF RowAfterEdit, Row
  <2>3. RowAfterEdit(r, a).place = To(r) /\ RowAfterEdit(r, a).album = a
    BY DEF RowAfterEdit
  <2> QED
    BY <2>1, <2>2, <2>3, NoneAssumption
<1>2. rows' \in [Rows -> Row \cup {None}]
  BY <1>1 DEF RowsAfterEdit, Shaped, RowsShaped
<1>3. \A r \in Entries : rows'[r] = RowAfterEdit(r, a)
  BY <1>1 DEF RowsAfterEdit
<1>4. \A r \in Rows \ Entries : rows'[r] = rows[r]
  BY DEF RowsAfterEdit
<1>5. ASSUME NEW r \in Rows, NEW s \in Rows, rows'[r] # None, rows'[s] # None, r # s
      PROVE  rows'[r].place # rows'[s].place
  <2>1. ASSUME NEW x \in Entries, NEW y \in Rows \ Entries, rows'[y] # None
        PROVE  rows'[x].place # rows'[y].place
    BY <1>1, <1>3, <1>4, <2>1 DEF PathsUnique, RowsAt
  <2>2. CASE r \in Entries /\ s \in Entries
    BY <1>1, <1>3, <1>5, <2>2
  <2>3. CASE r \notin Entries /\ s \notin Entries
    BY <1>4, <1>5, <2>3 DEF Shaped, RowsShaped
  <2> QED
    BY <1>5, <2>1, <2>2, <2>3
<1> QED
  BY <1>1, <1>2, <1>3, <1>4, <1>5

(* The albums a track's edit leaves. *)
LEMMA TrackCommitted ==
  ASSUME Shaped, NEW r \in Rows, NEW a \in Albums, CommitTrack(r, a), Entries = {r}
  PROVE  /\ RowsShaped' /\ rows'[r] # None /\ rows'[r].place = To(r) /\ rows'[r].album = a
         /\ albums'[a] = To(r)[1]
<1>1. r \in Entries
  OBVIOUS
<1>2. To(r) \in Places /\ To(r)[1] \in Dirs
  BY <1>1, EntryShaped DEF Shaped, Places
<1>3. /\ rows' \in [Rows -> Row \cup {None}]
      /\ rows'[r] # None /\ rows'[r].place = To(r) /\ rows'[r].album = a
      /\ \A s \in Rows \ Entries : rows'[s] = rows[s]
      /\ \A s, t \in Rows : rows'[s] # None /\ rows'[t] # None /\ s # t =>
           rows'[s].place # rows'[t].place
  BY RowsEdited DEF CommitTrack
<1>4. /\ albums' \in [Albums -> Dirs \cup {None}] /\ albums'[a] = To(r)[1]
      /\ \A b \in Albums \ {a} : albums'[b] = IF LeavesEmpty(r, b) THEN None ELSE albums[b]
  BY <1>2 DEF CommitTrack, Shaped, RowsShaped
<1>5. ASSUME NEW s \in Rows, rows'[s] # None PROVE albums'[rows'[s].album] # None
  <2>1. CASE s = r
    BY <1>2, <1>3, <1>4, <2>1, ConstantsAssumption
  <2>2. CASE s # r
    <3>1. rows[s] # None /\ rows'[s] = rows[s]
      BY <1>3, <1>5, <2>2
    <3>2. rows[s].album \in Albums /\ albums[rows[s].album] # None
      BY <3>1, RowIsThere, ConstantsAssumption DEF Shaped
    <3>3. ~LeavesEmpty(r, rows[s].album)
      BY <2>2, <3>1 DEF LeavesEmpty, RowsOf
    <3> QED
      BY <1>2, <1>4, <3>1, <3>2, <3>3, ConstantsAssumption
  <2> QED
    BY <2>1, <2>2
<1> QED
  BY <1>3, <1>4, <1>5 DEF RowsShaped

LEMMA AlbumCommitted ==
  ASSUME Shaped, Queued, CommitAlbum, \A r, s \in Entries : To(r) = To(s) => r = s
  PROVE  /\ RowsShaped' /\ Request.target \in Albums /\ albums'[Request.target] = Request.dest
         /\ \A r \in Entries : /\ r \in Rows /\ rows'[r] # None /\ rows'[r].place = To(r)
                               /\ rows'[r].album = Request.target
<1>1. Request.target \in Albums /\ Request.dest \in Dirs
  <2>1. queue # <<>> /\ Request.op = "album"
    BY DEF CommitAlbum, Running
  <2>2. Request \in Wishes
    BY <2>1, RequestShaped DEF Shaped, Idle
  <2> QED
    BY <2>1, <2>2 DEF Wishes
<1>2. /\ rows' \in [Rows -> Row \cup {None}]
      /\ \A r \in Entries : /\ r \in Rows /\ rows'[r] # None /\ rows'[r].place = To(r)
                            /\ rows'[r].album = Request.target
      /\ \A r \in Rows \ Entries : rows'[r] = rows[r]
      /\ \A r, s \in Rows : rows'[r] # None /\ rows'[s] # None /\ r # s =>
           rows'[r].place # rows'[s].place
  BY <1>1, RowsEdited DEF CommitAlbum
<1>3. /\ albums' \in [Albums -> Dirs \cup {None}] /\ albums'[Request.target] = Request.dest
      /\ \A b \in Albums : albums[b] # None => albums'[b] # None
  BY <1>1, ConstantsAssumption DEF CommitAlbum, Shaped, RowsShaped
<1>4. ASSUME NEW r \in Rows, rows'[r] # None PROVE albums'[rows'[r].album] # None
  <2>1. CASE r \in Entries
    BY <1>1, <1>2, <1>3, <2>1, ConstantsAssumption
  <2>2. CASE r \notin Entries
    BY <1>2, <1>3, <1>4, <2>2, RowIsThere, ConstantsAssumption DEF Shaped
  <2> QED
    BY <2>1, <2>2
<1> QED
  BY <1>1, <1>2, <1>3, <1>4 DEF RowsShaped

LEMMA CommitShaped ==
  ASSUME Shaped, RowsShaped', GoTo("clean"),
         UNCHANGED <<disk, requests, queue, check, asked, troubles, gone>>
  PROVE  Shaped'
<1>1. JobShaped(job')
  BY GoesTo DEF Phases, EditPhases, Shaped
<1> QED
  BY <1>1 DEF Shaped, DiskShaped, QueueShaped, CheckShaped, HistoryShaped, disk, JobShaped

-----------------------------------------------------------------------------
(* The scan. *)
LEMMA Seeing ==
  ASSUME JobShaped(job), NEW p
  PROVE  /\ JobShaped(Scanned(p)) /\ JobShaped([Scanned(p) EXCEPT !.clean = FALSE])
         /\ \A j \in {Scanned(p), [Scanned(p) EXCEPT !.clean = FALSE]} :
              /\ j.phase = job.phase /\ j.entries = job.entries /\ j.moved = job.moved
              /\ j.trash = job.trash /\ j.todo = job.todo \ {p} /\ j.seen = job.seen \cup {p}
         /\ Scanned(p).clean = job.clean
         /\ [Scanned(p) EXCEPT !.clean = FALSE].clean = FALSE
BY DEF JobShaped, JobFields, Scanned

LEMMA Indexed ==
  ASSUME Shaped, NEW p \in Places, NEW r \in Rows, NEW a \in Albums, ScanIndexes(p, r, a)
  PROVE  /\ RowsShaped' /\ rows'[r] # None /\ rows'[r].place = p /\ rows'[r].shown
         /\ \A s \in Rows \ {r} : rows'[s] = rows[s]
         /\ rows[r] # None => rows[r].place = p
<1>1. p[1] \in Dirs /\ at[p] \in File
  BY FileIsThere DEF ScanIndexes, At, Shaped, Places
<1>2. [place |-> p, album |-> a, shown |-> TRUE, tags |-> at[p], stat |-> at[p]] \in Row
  BY <1>1 DEF Row
<1>3. /\ rows' \in [Rows -> Row \cup {None}] /\ rows'[r] # None /\ rows'[r].place = p
      /\ rows'[r].album = a /\ rows'[r].shown
      /\ \A s \in Rows \ {r} : rows'[s] = rows[s]
  BY <1>2, NoneAssumption DEF ScanIndexes, Shaped, RowsShaped
<1>4. /\ albums' \in [Albums -> Dirs \cup {None}] /\ albums'[a] # None
      /\ \A b \in Albums : albums[b] # None => albums'[b] # None
  BY <1>1, ConstantsAssumption DEF ScanIndexes, Shaped, RowsShaped
<1>5. \A s \in Rows : rows'[s] # None => albums'[rows'[s].album] # None
  BY <1>3, <1>4, RowIsThere, ConstantsAssumption DEF Shaped
<1>6. /\ rows[r] # None => rows[r].place = p
      /\ \A s \in Rows \ {r} : rows[s] # None => rows[s].place # p
  BY DEF ScanIndexes, RowsAt, Shaped, RowsShaped
<1>7. \A s, t \in Rows : rows'[s] # None /\ rows'[t] # None /\ s # t => rows'[s].place # rows'[t].place
  BY <1>3, <1>6 DEF Shaped, RowsShaped
<1> QED
  BY <1>3, <1>4, <1>5, <1>6, <1>7 DEF RowsShaped

LEMMA BeginsShaped ==
  ASSUME NEW j, JobShaped(j), Begin(j)
  PROVE  /\ JobShaped(job') /\ job'.phase = j.phase /\ job'.entries = j.entries
         /\ job'.moved = j.moved /\ job'.installed = j.installed /\ job'.todo = j.todo
         /\ job'.seen = j.seen /\ job'.trash = j.trash /\ job'.clean = j.clean
         /\ job'.before = [at |-> at, rows |-> rows, albums |-> albums]
BY DEF Begin, JobShaped, JobFields

LEMMA ScanShaped ==
  ASSUME Shaped, Working, ScanStep
  PROVE  Shaped'
<1>1. CASE BeginScan
  <2> DEFINE j == [Free EXCEPT !.phase = "scan", !.todo = {p \in Places : At(p)}]
  <2>1. JobShaped(j)
    BY DEF JobShaped, Free, JobFields, Phases, ScanPhases, NoEntries
  <2>2. Begin(j)
    BY <1>1 DEF BeginScan
  <2> HIDE DEF j
  <2>3. JobShaped(job')
    BY <2>1, <2>2, BeginsShaped
  <2> QED
    BY <1>1, <2>3 DEF BeginScan, Shaped, DiskShaped, RowsShaped, QueueShaped, CheckShaped,
       HistoryShaped, disk, catalogue, JobShaped
<1>2. CASE BeginMissing \/ EndScan
  <2>1. JobShaped(job')
    BY <1>2 DEF BeginMissing, EndScan, GoTo, Shaped, JobShaped, JobFields, Phases, ScanPhases, Answers
  <2> QED
    BY <1>2, <2>1 DEF BeginMissing, EndScan, Shaped, DiskShaped, RowsShaped, QueueShaped, CheckShaped,
       HistoryShaped, disk, catalogue, JobShaped
<1>3. ASSUME NEW p \in Places, ScanPasses(p) \/ ScanRefuses(p) PROVE Shaped'
  <2>1. JobShaped(job')
    BY <1>3, Seeing, ZenonT(60) DEF ScanPasses, ScanRefuses, Shaped
  <2>2. troubles' \in 0..MaxTroubles
    BY <1>3, Counted DEF ScanPasses, ScanRefuses, Shaped
  <2> QED
    BY <1>3, <2>1, <2>2 DEF ScanPasses, ScanRefuses, Shaped, DiskShaped, RowsShaped, QueueShaped,
       CheckShaped, HistoryShaped, disk, catalogue, JobShaped
<1>4. ASSUME NEW p \in Places, NEW r \in Rows, NEW a \in Albums, ScanIndexes(p, r, a) PROVE Shaped'
  <2>1. JobShaped(job') /\ RowsShaped'
    BY <1>4, Seeing, Indexed DEF ScanIndexes, Shaped
  <2> QED
    BY <1>4, <2>1 DEF ScanIndexes, Shaped, DiskShaped, QueueShaped, CheckShaped, HistoryShaped, disk,
       JobShaped
<1>5. ASSUME NEW r \in Rows, MarkMissing(r) PROVE Shaped'
  <2>1. JobShaped(job')
    BY <1>5 DEF MarkMissing, Shaped, JobShaped, JobFields
  <2>2. RowsShaped'
    <3>1. CASE UNCHANGED rows
      BY <1>5, <3>1 DEF MarkMissing, Shaped, RowsShaped
    <3>2. CASE rows[r] # None /\ rows' = [rows EXCEPT ![r].shown = FALSE]
      <4>1. /\ rows' \in [Rows -> Row \cup {None}]
            /\ \A s \in Rows : /\ rows'[s] # None <=> rows[s] # None
                               /\ rows[s] # None => /\ rows'[s].place = rows[s].place
                                                    /\ rows'[s].album = rows[s].album
        <5>1. rows[r] \in Row
          BY <3>2, RowIsThere DEF Shaped
        <5>2. [rows[r] EXCEPT !.shown = FALSE] \in Row
          BY <5>1 DEF Row
        <5>3. /\ [rows[r] EXCEPT !.shown = FALSE].place = rows[r].place
              /\ [rows[r] EXCEPT !.shown = FALSE].album = rows[r].album
          BY <5>1 DEF Row
        <5>4. /\ rows'[r] = [rows[r] EXCEPT !.shown = FALSE]
              /\ \A s \in Rows \ {r} : rows'[s] = rows[s]
              /\ DOMAIN rows' = Rows /\ rows' = [s \in Rows |-> rows'[s]]
          BY <3>2 DEF Shaped, RowsShaped
        <5> QED
          BY <3>2, <5>2, <5>3, <5>4, NoneAssumption DEF Shaped, RowsShaped
      <4> QED
        BY <1>5, <4>1 DEF MarkMissing, Shaped, RowsShaped
    <3>3. rows[r] # None
      BY <1>5 DEF MarkMissing, Running, Working, Scanning, ScanPhases
    <3> QED
      BY <1>5, <3>1, <3>2, <3>3 DEF MarkMissing
  <2> QED
    BY <1>5, <2>1, <2>2 DEF MarkMissing, Shaped, DiskShaped, QueueShaped, CheckShaped, HistoryShaped,
       disk, JobShaped
<1> QED
  BY <1>1, <1>2, <1>3, <1>4, <1>5 DEF ScanStep

-----------------------------------------------------------------------------
(* The deletion. *)
LEMMA DeleteShaped == ASSUME Shaped, Queued, Working, DeleteStep PROVE Shaped'
<1>1. CASE BeginDelete
  <2>1. PICK j \in {[Free EXCEPT !.phase = "folder"], Refused} : Begin(j)
    BY <1>1 DEF BeginDelete
  <2>2. JobShaped([Free EXCEPT !.phase = "folder"])
    BY DEF JobShaped, Free, JobFields, Phases, DeletePhases, NoEntries
  <2>3. JobShaped(job')
    BY <2>1, <2>2, FreeShaped, BeginsShaped
  <2> QED
    BY <1>1, <2>3 DEF BeginDelete, Shaped, DiskShaped, RowsShaped, QueueShaped, CheckShaped,
       HistoryShaped, disk, catalogue, JobShaped
<1>2. CASE StageFails \/ DeleteFails
  <2>1. PICK phase \in {"refused", "unfolder"} : GoTo(phase)
    BY <1>2 DEF StageFails, DeleteFails
  <2>2. JobShaped(job')
    BY <2>1, GoesTo DEF Shaped, Phases, DeletePhases, Answers
  <2>3. troubles' \in 0..MaxTroubles
    BY <1>2, Counted DEF StageFails, DeleteFails, Shaped
  <2> QED
    BY <1>2, <2>2, <2>3 DEF StageFails, DeleteFails, Shaped, DiskShaped, RowsShaped, QueueShaped,
       CheckShaped, HistoryShaped, disk, catalogue, JobShaped
<1>3. CASE StageFolder
  <2>1. FilesIn(albums[Request.target]) \subseteq Places \X File
    BY FileIsThere DEF FilesIn, At, Shaped
  <2>2. JobShaped(job')
    BY <1>3, <2>1 DEF StageFolder, Shaped, JobShaped, JobFields, Phases, DeletePhases
  <2>3. DiskShaped'
    BY <1>3 DEF StageFolder, Shaped, DiskShaped
  <2> QED
    BY <1>3, <2>2, <2>3 DEF StageFolder, Shaped, RowsShaped, QueueShaped, CheckShaped, HistoryShaped,
       catalogue, JobShaped
<1>4. CASE DeleteRows
  <2>1. JobShaped(job')
    BY <1>4, GoesTo DEF DeleteRows, Shaped, Phases, DeletePhases
  <2>2. /\ rows' \in [Rows -> Row \cup {None}] /\ albums' \in [Albums -> Dirs \cup {None}]
        /\ \A r \in Rows : rows'[r] # None =>
             rows'[r] = rows[r] /\ rows[r].album # Request.target
    BY <1>4 DEF DeleteRows, Shaped, RowsShaped, RowsOf
  <2>3. \A b \in Albums : b # Request.target => albums'[b] = albums[b]
    BY <1>4 DEF DeleteRows, Shaped, RowsShaped
  <2>4. RowsShaped'
    BY <2>2, <2>3, RowIsThere DEF Shaped, RowsShaped
  <2> QED
    BY <1>4, <2>1, <2>4 DEF DeleteRows, Shaped, DiskShaped, QueueShaped, CheckShaped, HistoryShaped,
       disk, JobShaped
<1>5. CASE RestoreFolder
  <2>1. JobShaped(job')
    BY <1>5 DEF RestoreFolder, Shaped, JobShaped, JobFields, Phases, Answers
  <2>2. ASSUME NEW p \in Places, \E f \in job.trash : f[1] = p
        PROVE  (CHOOSE f \in job.trash : f[1] = p)[2] \in File
    <3>1. (CHOOSE f \in job.trash : f[1] = p) \in job.trash
      BY <2>2
    <3> QED
      BY <3>1 DEF Shaped, JobShaped
  <2>3. DiskShaped'
    BY <1>5, <2>2 DEF RestoreFolder, Shaped, DiskShaped
  <2> QED
    BY <1>5, <2>1, <2>3 DEF RestoreFolder, Shaped, RowsShaped, QueueShaped, CheckShaped, HistoryShaped,
       catalogue, JobShaped
<1>6. CASE RestoreFolderFails \/ Purge
  <2>1. JobShaped(job')
    BY <1>6 DEF RestoreFolderFails, Purge, Shaped, JobShaped, JobFields, Phases, Answers
  <2>2. HistoryShaped'
    BY <1>6, AudiosTrashed DEF RestoreFolderFails, Purge, Shaped, HistoryShaped, disk
  <2> QED
    BY <1>6, <2>1, <2>2 DEF RestoreFolderFails, Purge, Shaped, DiskShaped, RowsShaped, QueueShaped,
       CheckShaped, disk, catalogue, JobShaped
<1> QED
  BY <1>1, <1>2, <1>3, <1>4, <1>5, <1>6 DEF DeleteStep

-----------------------------------------------------------------------------
(* What the check does to a row: its place and album stay. *)
LEMMA MarkedRows ==
  ASSUME Shaped, CheckMarks
  PROVE  /\ rows' \in [Rows -> Row \cup {None}]
         /\ \A r \in Rows : /\ rows'[r] # None <=> rows[r] # None
                            /\ rows[r] # None => /\ rows'[r].place = rows[r].place
                                                 /\ rows'[r].album = rows[r].album
<1>1. ASSUME NEW r \in Rows, rows[r] # None
      PROVE  /\ Marked(rows[r]) \in Row /\ Marked(rows[r]).place = rows[r].place
             /\ Marked(rows[r]).album = rows[r].album
  <2>1. rows[r] \in Row
    BY <1>1, RowIsThere DEF Shaped
  <2>2. check.file \in File \cup {None}
    BY DEF CheckMarks, Shaped, CheckShaped
  <2>3. CASE check.file = None
    BY <2>1, <2>3 DEF Marked, Row
  <2>4. CASE check.file # None
    <3> DEFINE row == rows[r]  file == check.file
    <3>1. row \in Row /\ file \in File /\ Marked(row) = [row EXCEPT !.shown = TRUE, !.stat = file]
      BY <2>1, <2>2, <2>4 DEF Marked
    <3> HIDE DEF row, file
    <3>2. Marked(row) \in Row /\ Marked(row).place = row.place /\ Marked(row).album = row.album
      BY <3>1 DEF Row
    <3> QED
      BY <3>2 DEF row
  <2> QED
    BY <2>3, <2>4
<1>2. /\ DOMAIN rows' = Rows
      /\ rows' = [r \in Rows |-> IF r = check.row /\ rows[r] # None THEN Marked(rows[r]) ELSE rows[r]]
  BY DEF CheckMarks
<1> QED
  BY <1>1, <1>2, NoneAssumption DEF Shaped, RowsShaped

LEMMA CheckStepShaped == ASSUME Shaped, Check PROVE Shaped'
<1>1. ASSUME NEW r \in Rows, CheckReads(r) PROVE Shaped'
  <2>1. CheckShaped'
    BY <1>1, RowIsThere DEF CheckReads, Shaped, CheckShaped
  <2>2. troubles' \in 0..MaxTroubles
    BY <1>1, Counted DEF CheckReads, Shaped
  <2> QED
    BY <1>1, <2>1, <2>2 DEF CheckReads, Shaped, DiskShaped, RowsShaped, QueueShaped, HistoryShaped,
       disk, catalogue, JobShaped
<1>2. CASE CheckStats
  <2>1. CheckShaped'
    BY <1>2 DEF CheckStats, Shaped, CheckShaped, DiskShaped
  <2> QED
    BY <1>2, <2>1 DEF CheckStats, Shaped, DiskShaped, RowsShaped, QueueShaped, HistoryShaped,
       disk, catalogue, JobShaped
<1>3. CASE CheckMarks
  <2>1. CheckShaped'
    BY <1>3 DEF CheckMarks, CheckShaped, Unchecked
  <2>2. JobShaped(job')
    BY <1>3 DEF CheckMarks, Shaped, JobShaped, JobFields
  <2>3. RowsShaped'
    BY <1>3, MarkedRows DEF CheckMarks, Shaped, RowsShaped
  <2> QED
    BY <1>3, <2>1, <2>2, <2>3 DEF CheckMarks, Shaped, DiskShaped, QueueShaped, HistoryShaped, disk,
       JobShaped
<1> QED
  BY <1>1, <1>2, <1>3 DEF Check

LEMMA HandsShaped == ASSUME Shaped, Hands PROVE Shaped'
<1>1. ByHand /\ UNCHANGED <<left, catalogue, requests, queue, check, asked>>
  BY DEF Hands, RemoveByHand, PutByHand
<1>2. JobShaped(job')
  BY <1>1 DEF ByHand, Shaped, JobShaped, JobFields
<1>3. troubles' \in 0..MaxTroubles
  BY <1>1, Counted DEF ByHand, Shaped
<1>4. DiskShaped' /\ gone' \subseteq Audios
  <2>1. ASSUME NEW p \in Places, RemoveByHand(p) PROVE DiskShaped' /\ gone' \subseteq Audios
    BY <2>1, FileIsThere DEF RemoveByHand, At, File, Shaped, DiskShaped, HistoryShaped
  <2>2. ASSUME NEW p \in Places, NEW file \in File, PutByHand(p, file)
        PROVE  DiskShaped' /\ gone' \subseteq Audios
    BY <2>2, FileIsThere DEF PutByHand, At, File, Shaped, DiskShaped, HistoryShaped
  <2> QED
    BY <2>1, <2>2 DEF Hands
<1> QED
  BY <1>1, <1>2, <1>3, <1>4 DEF Shaped, RowsShaped, QueueShaped, CheckShaped, HistoryShaped, catalogue,
     JobShaped

LEMMA RestartShaped == ASSUME Shaped, Restart PROVE Shaped'
<1>1. JobShaped(job)'
  BY FreeShaped DEF Restart, JobShaped
<1>2. QueueShaped'
  BY DEF Restart, Shaped, QueueShaped
<1>3. CheckShaped'
  BY DEF Restart, CheckShaped, Unchecked
<1>4. HistoryShaped'
  <2>1. OldAudios(job.moved) \subseteq Audios
    BY AudiosOfEntries DEF Shaped, JobShaped, Entries
  <2>2. troubles' \in 0..MaxTroubles
    BY Counted DEF Restart, Shaped
  <2> QED
    BY <2>1, <2>2, AudiosTrashed DEF Restart, Shaped, HistoryShaped
<1> QED
  BY <1>1, <1>2, <1>3, <1>4 DEF Restart, Shaped, DiskShaped, RowsShaped, catalogue

-----------------------------------------------------------------------------
(* The queue stays in order: what is asked waits at its end, and what works is what *)
(* is at its head.                                                                  *)
LEMMA QueueStays ==
  ASSUME Queued, UNCHANGED <<requests, queue>>, job'.phase # "free" => queue # <<>>,
         job'.phase \in EditPhases => Request.op \in {"track", "album"},
         job'.phase \in ScanPhases => Request.op = "scan",
         job'.phase \in DeletePhases => Request.op = "delete"
  PROVE  Queued'
BY DEF Queued, Request

LEMMA EditQueued == ASSUME Shaped, Queued, EditStep PROVE Queued'
<1>1. queue # <<>> /\ UNCHANGED <<requests, queue>>
  BY DEF EditStep, BeginEdit, CheckDestinations, MoveAside, Install, Restore, RestoreFails,
     CommitTrack, CommitAlbum, CommitRefused, CommitFails, MoveFails, RemoveBackups, RemoveInstalled,
     Running
<1>2. CASE BeginEdit
  <2>1. job'.phase \in {"staged", "refused"} /\ Request.op \in {"track", "album"}
    BY <1>2, BeginEditShaped DEF BeginEdit, Begin, Staged, Free, Refused
  <2> QED
    BY <1>1, <2>1, QueueStays DEF EditPhases, ScanPhases, DeletePhases
<1>3. CASE ~BeginEdit
  <2>1. job.phase \in EditPhases
    BY <1>3 DEF EditStep, CheckDestinations, MoveAside, Install, Restore, RestoreFails, CommitTrack,
       CommitAlbum, CommitRefused, CommitFails, MoveFails, RemoveBackups, RemoveInstalled, Running,
       EditPhases
  <2>2. job'.phase \in EditPhases \cup Answers
    <3>1. CASE \E phase \in {"aside", "refused", "remove", "clean", "restore"} : GoTo(phase)
      BY <3>1 DEF GoTo, Shaped, JobShaped, JobFields, EditPhases, Answers
    <3>2. ASSUME NEW r \in Rows, MoveAside(r) \/ Install(r) PROVE job'.phase \in EditPhases \cup Answers
      BY <3>2, <2>1 DEF MoveAside, Install, Shaped, JobShaped, JobFields, EditPhases
    <3>3. ASSUME NEW r \in Rows, NEW broken \in BOOLEAN, AfterRestore(r, broken)
          PROVE  job'.phase \in EditPhases \cup Answers
      BY <3>3, <2>1 DEF AfterRestore, Shaped, JobShaped, JobFields, EditPhases, Answers
    <3>4. CASE RemoveBackups
      BY <3>4 DEF RemoveBackups, Shaped, JobShaped, JobFields, Answers
    <3>5. CASE CheckDestinations \/ MoveFails \/ CommitRefused \/ CommitFails \/ CommitAlbum
               \/ RemoveInstalled \/ \E r \in Rows, a \in Albums : CommitTrack(r, a)
      BY <3>5, <3>1 DEF CheckDestinations, MoveFails, CommitRefused, CommitFails, CommitAlbum,
         RemoveInstalled, CommitTrack
    <3> QED
      BY <1>3, <3>2, <3>3, <3>4, <3>5 DEF EditStep, Restore, RestoreFails
  <2>3. Request.op \in {"track", "album"}
    BY <2>1 DEF Queued
  <2> QED
    BY <1>1, <2>2, <2>3, PhasesAre, QueueStays
<1> QED
  BY <1>2, <1>3

LEMMA ScanQueued == ASSUME Shaped, Queued, ScanStep PROVE Queued'
<1>1. queue # <<>> /\ UNCHANGED <<requests, queue>>
  BY DEF ScanStep, BeginScan, BeginMissing, EndScan, ScanPasses, ScanRefuses, ScanIndexes, MarkMissing,
     Running, Starts
<1>2. Request.op = "scan"
  BY DEF ScanStep, BeginScan, BeginMissing, EndScan, ScanPasses, ScanRefuses, ScanIndexes, MarkMissing,
     Running, Starts, Queued, ScanPhases
<1>3. job'.phase \in {"scan", "missing", "ok"}
  <2>1. CASE BeginScan
    BY <2>1 DEF BeginScan, Begin, Free
  <2>2. CASE BeginMissing \/ EndScan
    BY <2>2 DEF BeginMissing, EndScan, GoTo, Shaped, JobShaped, JobFields
  <2>3. ASSUME NEW p \in Places,
               ScanPasses(p) \/ ScanRefuses(p) \/ \E r \in Rows, a \in Albums : ScanIndexes(p, r, a)
        PROVE  job'.phase = "scan"
    <3>1. job.phase = "scan" /\ JobShaped(job)
          /\ (job' = Scanned(p) \/ job' = [Scanned(p) EXCEPT !.clean = FALSE])
      BY <2>3 DEF ScanPasses, ScanRefuses, ScanIndexes, Running, Shaped
    <3>2. Scanned(p).phase = job.phase /\ [Scanned(p) EXCEPT !.clean = FALSE].phase = job.phase
      BY <3>1, Seeing
    <3> QED
      BY <3>1, <3>2
  <2>4. ASSUME NEW r \in Rows, MarkMissing(r) PROVE job'.phase = "missing"
    BY <2>4 DEF MarkMissing, Running, Shaped, JobShaped, JobFields
  <2> QED
    BY <2>1, <2>2, <2>3, <2>4 DEF ScanStep
<1> QED
  BY <1>1, <1>2, <1>3, QueueStays DEF EditPhases, DeletePhases

LEMMA DeleteQueued == ASSUME Shaped, Queued, DeleteStep PROVE Queued'
<1>1. queue # <<>> /\ UNCHANGED <<requests, queue>>
  BY DEF DeleteStep, BeginDelete, StageFolder, StageFails, DeleteRows, DeleteFails, RestoreFolder,
     RestoreFolderFails, Purge, Running, Starts
<1>2. Request.op = "delete"
  BY DEF DeleteStep, BeginDelete, StageFolder, StageFails, DeleteRows, DeleteFails, RestoreFolder,
     RestoreFolderFails, Purge, Running, Starts, Queued, DeletePhases
<1>3. job'.phase \in {"folder", "refused", "unlist", "purge", "unfolder", "broken", "ok"}
  <2>1. CASE BeginDelete
    BY <2>1 DEF BeginDelete, Begin, Free, Refused
  <2>2. CASE StageFolder \/ StageFails \/ DeleteRows \/ DeleteFails
    BY <2>2 DEF StageFolder, StageFails, DeleteRows, DeleteFails, GoTo, Shaped, JobShaped, JobFields
  <2>3. CASE RestoreFolder \/ RestoreFolderFails \/ Purge
    BY <2>3 DEF RestoreFolder, RestoreFolderFails, Purge, Shaped, JobShaped, JobFields
  <2> QED
    BY <2>1, <2>2, <2>3 DEF DeleteStep
<1> QED
  BY <1>1, <1>2, <1>3, QueueStays DEF EditPhases, ScanPhases

(* Asking changes neither the job nor what the job is for.                          *)
LEMMA AskQueued ==
  ASSUME Shaped, Queued, NEW op, NEW target, NEW dest, Ask(op, target, dest),
         [op |-> op, target |-> target, dest |-> dest] \in Wishes
  PROVE  Queued' /\ (job.phase # "free" => Request' = Request)
<1> DEFINE c == NextRequest
<1>1. c \in Requests /\ requests[c] = Idle
  BY DEF Ask, NextRequest
<1>2. [op |-> op, target |-> target, dest |-> dest] # Idle
  BY DEF Wishes, Idle
<1>3. \A i \in 1..Len(queue) : queue[i] \in Requests /\ queue[i] # c
  BY <1>1 DEF Shaped, QueueShaped, Queued
<1>4. requests'[c] # Idle /\ \A x \in Requests \ {c} : requests'[x] = requests[x]
  BY <1>1, <1>2 DEF Ask, Shaped, QueueShaped
<1>5. /\ queue' = Append(queue, c) /\ queue \in Seq(Requests)
      /\ Len(queue') = Len(queue) + 1 /\ queue'[Len(queue) + 1] = c
      /\ \A i \in 1..Len(queue) : queue'[i] = queue[i]
  BY <1>1 DEF Ask, Shaped, QueueShaped
<1>6. queue # <<>> => Head(queue') = Head(queue) /\ Head(queue) = queue[1] /\ 1 \in 1..Len(queue)
  BY <1>5
<1>7. queue # <<>> => Request' = Request
  BY <1>3, <1>4, <1>6 DEF Request
<1>8. queue' # <<>> /\ Len(queue) \in Nat
  BY <1>5
<1>9. UNCHANGED job
  BY DEF Ask
<1>10. \A i \in 1..Len(queue') : requests'[queue'[i]] # Idle
  <2> SUFFICES ASSUME NEW i \in 1..Len(queue') PROVE requests'[queue'[i]] # Idle
    OBVIOUS
  <2>1. CASE i = Len(queue) + 1
    BY <1>4, <1>5, <2>1
  <2>2. CASE i \in 1..Len(queue)
    BY <1>3, <1>4, <1>5, <2>2 DEF Queued
  <2> QED
    BY <1>5, <1>8, <2>1, <2>2
<1>11. \A i, j \in 1..Len(queue') : queue'[i] = queue'[j] => i = j
  <2> SUFFICES ASSUME NEW i \in 1..Len(queue'), NEW j \in 1..Len(queue'), queue'[i] = queue'[j]
               PROVE  i = j
    OBVIOUS
  <2>1. CASE i \in 1..Len(queue) /\ j \in 1..Len(queue)
    BY <1>5, <2>1 DEF Queued
  <2>2. CASE i = Len(queue) + 1 \/ j = Len(queue) + 1
    BY <1>3, <1>5, <1>8, <2>2
  <2> QED
    BY <1>5, <1>8, <2>1, <2>2
<1> HIDE DEF c
<1>12. Queued'
  <2>1. job.phase \in EditPhases \cup ScanPhases \cup DeletePhases => queue # <<>>
    BY PhasesAre DEF Queued
  <2> QED
    BY <1>7, <1>8, <1>9, <1>10, <1>11, <2>1 DEF Queued
<1> QED
  BY <1>7, <1>12 DEF Queued

LEMMA ReleaseQueued == ASSUME Shaped, Queued, Release PROVE Queued'
<1>1. /\ queue \in Seq(Requests) /\ queue # <<>> /\ queue' = Tail(queue)
      /\ Len(queue') = Len(queue) - 1 /\ Len(queue) \in Nat \ {0}
      /\ \A i \in 1..Len(queue') : queue'[i] = queue[i + 1]
  BY DEF Release, Shaped, QueueShaped
<1>2. requests' = [requests EXCEPT ![queue[1]] = Idle]
  BY <1>1 DEF Release
<1>3. ASSUME NEW i \in 1..Len(queue') PROVE requests'[queue'[i]] = requests[queue[i + 1]]
  <2>1. i + 1 \in 1..Len(queue) /\ 1 \in 1..Len(queue) /\ i + 1 # 1
    BY <1>1
  <2>2. queue[i + 1] # queue[1]
    BY <2>1 DEF Queued
  <2>3. queue[i + 1] \in Requests /\ DOMAIN requests = Requests
    BY <1>1, <2>1 DEF Shaped, QueueShaped
  <2> QED
    BY <1>1, <1>2, <2>2, <2>3
<1>4. job'.phase = "free"
  BY DEF Release, Free
<1>5. \A i \in 1..Len(queue') : requests'[queue'[i]] # Idle
  BY <1>1, <1>3 DEF Queued
<1>6. \A i, j \in 1..Len(queue') : queue'[i] = queue'[j] => i = j
  BY <1>1 DEF Queued
<1> QED
  BY <1>4, <1>5, <1>6, PhasesAre DEF Queued

LEMMA OthersQueued ==
  ASSUME Shaped, Queued, Check \/ Hands
  PROVE  Queued' /\ UNCHANGED <<requests, queue, albums>> /\ job'.phase = job.phase
         /\ \A x \in JobFields \ {"clean"} : job'[x] = job[x]
<1>1. UNCHANGED <<requests, queue, albums>>
  BY DEF Check, CheckReads, CheckStats, CheckMarks, Hands, RemoveByHand, PutByHand, catalogue
<1>2. job' = job \/ \E x \in BOOLEAN : job' = [job EXCEPT !.clean = x]
  <2>1. CASE Check
    <3>1. CASE CheckMarks
      <4>1. PICK y : job' = [job EXCEPT !.clean = y]
        BY <3>1 DEF CheckMarks
      <4> QED
        BY <3>1 DEF CheckMarks
    <3> QED
      BY <2>1, <3>1 DEF Check, CheckReads, CheckStats
  <2>2. CASE Hands
    <3>1. ByHand
      BY <2>2 DEF Hands, RemoveByHand, PutByHand
    <3> QED
      BY <3>1 DEF ByHand
  <2> QED
    BY <2>1, <2>2
<1>3. \A x \in JobFields \ {"clean"} : job'[x] = job[x]
  BY <1>2 DEF Shaped, JobShaped
<1>4. job'.phase = job.phase
  BY <1>3 DEF JobFields
<1> QED
  BY <1>1, <1>3, <1>4, QueueStays DEF Queued

LEMMA RestartQueued == ASSUME Restart PROVE Queued'
BY PhasesAre DEF Restart, Queued, Free

-----------------------------------------------------------------------------
(* Edits, step by step. *)
LEMMA EntriesStay ==
  ASSUME EntriesSound, job'.entries = job.entries, job'.before = job.before,
         UNCHANGED <<requests, queue>>, \A r \in Entries : rows'[r] # None
  PROVE  EntriesSound'
BY DEF EntriesSound, Entries, Before, From, To, Request

LEMMA RowsBeforeStay ==
  ASSUME RowsBefore, job'.before = job.before, UNCHANGED catalogue
  PROVE  RowsBefore'
BY DEF RowsBefore, Before, catalogue

LEMMA TosStay ==
  ASSUME TosFree, job'.entries = job.entries, job'.before = job.before
  PROVE  TosFree'
BY DEF TosFree, Entries, Before, To, From, Froms

LEMMA SoFarStays ==
  ASSUME SoFar, job'.entries = job.entries, job'.before = job.before, job'.moved = job.moved,
         job'.installed = job.installed, UNCHANGED at
  PROVE  SoFar'
BY DEF SoFar, Entries, Before, To, From, Froms, Tos, Copy

LEMMA BeginEditWorks == ASSUME Shaped, Queued, BeginEdit PROVE Working'
<1>1. Request.op \in {"track", "album"} /\ queue # <<>>
  BY DEF BeginEdit, Running
<1>2. UNCHANGED <<at, rows, albums, requests, queue>>
  BY DEF BeginEdit, disk, catalogue
<1>3. CASE Edited # {} /\ \A r \in Edited : At(rows[r].place)
  <2> PICK names \in [Edited -> Names] : Begin(Staged(names))
    BY <1>3 DEF BeginEdit
  <2> DEFINE E == [r \in Edited |->
                     [from |-> rows[r].place, to |-> Destination(r, names),
                      old |-> at[rows[r].place]]]
  <2>1. /\ job'.phase = "staged" /\ job'.entries = E /\ job'.moved = {} /\ job'.installed = {}
        /\ job'.trash = {} /\ job'.before = [at |-> at, rows |-> rows, albums |-> albums]
    BY DEF Staged, Begin, Free
  <2>2. DOMAIN E = Edited
    OBVIOUS
  <2>3. \A r \in Edited : /\ E[r].from = rows[r].place /\ E[r].to = Destination(r, names)
                          /\ E[r].old = at[rows[r].place]
    OBVIOUS
  <2> HIDE DEF E
  <2>4. /\ Entries' = Edited
        /\ \A r \in Edited : /\ From(r)' = rows[r].place /\ To(r)' = Destination(r, names)
                             /\ job'.entries[r].old = at[rows[r].place]
    BY <2>1, <2>2, <2>3 DEF Entries, From, To
  <2>5. Before'.at = at /\ Before'.rows = rows /\ Before'.albums = albums
    BY <2>1 DEF Before
  <2>6. RowsBefore'
    BY <1>2, <2>5 DEF RowsBefore
  <2>7. Request.op = "track" => Edited \subseteq {Request.target}
    BY DEF Edited
  <2>8. Request.op = "album" => \A r \in Edited : Destination(r, names)[1] = Request.dest
    BY DEF Destination
  <2>9. ASSUME NEW r \in Edited PROVE r \in Rows /\ rows[r] # None
    <3>1. r \in Entries'
      BY <2>4
    <3>2. r \in Rows
      BY <3>1, BeginEditShaped DEF JobShaped, Entries
    <3> QED
      BY <1>1, <3>2 DEF Edited, RowsOf
  <2>10. \A r, s \in Edited : rows[r].place = rows[s].place => r = s
    BY <2>9 DEF Shaped, RowsShaped
  <2>11. EntriesSound'
    BY <1>2, <1>3, <2>4, <2>5, <2>7, <2>8, <2>9, <2>10 DEF EntriesSound, Request
  <2>12. SoFar'
    BY <1>2, <2>1, <2>5 DEF SoFar, Froms, Tos
  <2>13. Editing'
    BY <1>2, <2>1, <2>4, <2>6, <2>11, <2>12 DEF Editing
  <2> QED
    BY <2>1, <2>13, PhasesAre DEF Working, EditPhases
<1>4. CASE ~(Edited # {} /\ \A r \in Edited : At(rows[r].place))
  <2>1. /\ job'.phase = "refused" /\ job'.moved = {} /\ job'.trash = {}
        /\ job'.before = [at |-> at, rows |-> rows, albums |-> albums]
    BY <1>4 DEF BeginEdit, Begin, Free, Refused
  <2>2. RowsBefore' /\ \A p \in Places : at'[p] = Before'.at[p]
    BY <1>2, <2>1 DEF RowsBefore, Before
  <2> QED
    BY <2>1, <2>2, PhasesAre DEF Working, Ended, Answers
<1> QED
  BY <1>3, <1>4

LEMMA AtEdit ==
  ASSUME Working, NEW phase \in EditPhases, Running(phase)
  PROVE  Editing /\ job.phase = phase
BY DEF Working, Running

LEMMA EditGoesOn ==
  ASSUME job'.phase \in EditPhases, Editing'
  PROVE  Working'
BY PhasesAre DEF Working

LEMMA WorkEnds ==
  ASSUME job'.phase \in Answers, Ended'
  PROVE  Working'
BY PhasesAre DEF Working

LEMMA CheckDestinationsWorks == ASSUME Shaped, Working, CheckDestinations PROVE Working'
<1>1. Editing /\ job.phase = "staged"
  BY AtEdit DEF CheckDestinations, EditPhases
<1>2. UNCHANGED <<at, rows, albums, requests, queue>> /\ UNCHANGED catalogue
  BY DEF CheckDestinations, disk, catalogue
<1>3. \A p \in Places : at[p] = Before.at[p]
  BY <1>1 DEF Editing, SoFar, Froms, Tos
<1>4. CASE GoTo("aside") /\ DestinationsFree
  <2>1. /\ job'.phase = "aside" /\ job'.entries = job.entries /\ job'.moved = job.moved
        /\ job'.installed = job.installed /\ job'.trash = job.trash /\ job'.before = job.before
    BY <1>4, GoesTo DEF Shaped, Phases, EditPhases
  <2>2. TosFree
    BY <1>3, <1>4, EntryShaped DEF DestinationsFree, TosFree, At, Froms, Shaped
  <2>3. TosFree' /\ SoFar' /\ RowsBefore' /\ EntriesSound'
    BY <1>1, <1>2, <2>1, <2>2, TosStay, SoFarStays, RowsBeforeStay, EntriesStay
       DEF Editing, EditPhases, EntriesSound
  <2>4. \A r \in Entries' : rows'[r].place = From(r)'
    BY <1>1, <1>2, <2>1 DEF Editing, EditPhases, Entries, From
  <2>5. Editing'
    BY <1>1, <2>1, <2>3, <2>4 DEF Editing
  <2> QED
    BY <2>1, <2>5, EditGoesOn DEF EditPhases
<1>5. CASE GoTo("refused")
  <2>1. /\ job'.phase = "refused" /\ job'.moved = job.moved
        /\ job'.trash = job.trash /\ job'.before = job.before
    BY <1>5, GoesTo DEF Shaped, Phases, Answers
  <2>2. RowsBefore'
    BY <1>1, <1>2, <2>1, RowsBeforeStay DEF Editing, EditPhases
  <2>3. Ended'
    BY <1>1, <1>2, <1>3, <2>1, <2>2 DEF Ended, Editing, Before
  <2> QED
    BY <2>1, <2>3, WorkEnds DEF Answers
<1> QED
  BY <1>4, <1>5 DEF CheckDestinations

LEMMA MoveAsideWorks == ASSUME Shaped, Working, NEW r \in Rows, MoveAside(r) PROVE Working'
<1>1. Editing /\ job.phase = "aside" /\ r \in Entries \ job.moved /\ r \in Entries
  BY AtEdit DEF MoveAside, EditPhases
<1>2. UNCHANGED <<rows, albums, requests, queue>> /\ UNCHANGED catalogue
  BY DEF MoveAside, catalogue
<1>3. /\ job'.entries = job.entries /\ job'.moved = job.moved \cup {r}
      /\ job'.phase = IF job'.moved = Entries THEN "install" ELSE "aside"
      /\ job'.installed = job.installed /\ job'.trash = job.trash /\ job'.before = job.before
  BY <1>1 DEF MoveAside, Shaped, JobShaped, JobFields
<1>4. TosFree' /\ RowsBefore' /\ EntriesSound'
  BY <1>1, <1>2, <1>3, TosStay, RowsBeforeStay, EntriesStay DEF Editing, EditPhases, EntriesSound
<1>5. \A s \in Entries' : rows'[s].place = From(s)'
  BY <1>1, <1>2, <1>3 DEF Editing, EditPhases, Entries, From
<1>6. SoFar'
  <2>1. job.installed = {} /\ \A p \in Places :
          at[p] = IF p \in Froms(job.moved) THEN None ELSE Before.at[p]
    BY <1>1 DEF Editing, SoFar, Tos
  <2>2. \A p \in Places : at'[p] = IF p = From(r) THEN None ELSE at[p]
    BY <1>1, EntryShaped DEF MoveAside, Shaped, DiskShaped
  <2>3. Froms(job.moved)' = Froms(job.moved) \cup {From(r)}
    BY <1>3 DEF Froms, From
  <2>4. \A p \in Places : at'[p] = IF p \in Froms(job.moved)' THEN None ELSE Before'.at[p]
    BY <1>3, <2>1, <2>2, <2>3 DEF Before
  <2> QED
    BY <1>3, <2>1, <2>4 DEF SoFar
<1>7. Editing'
  BY <1>1, <1>3, <1>4, <1>5, <1>6 DEF Editing, Entries
<1> QED
  BY <1>3, <1>7, EditGoesOn DEF EditPhases

LEMMA InstallWorks == ASSUME Shaped, Working, NEW r \in Rows, Install(r) PROVE Working'
<1>1. Editing /\ job.phase = "install" /\ r \in Entries \ job.installed /\ r \in Entries
  BY AtEdit DEF Install, EditPhases
<1>2. UNCHANGED <<rows, albums, requests, queue>> /\ UNCHANGED catalogue
  BY DEF Install, catalogue
<1>3. /\ job'.entries = job.entries /\ job'.installed = job.installed \cup {r}
      /\ job'.phase = IF job'.installed = Entries THEN "rows" ELSE "install"
      /\ job'.moved = job.moved /\ job'.trash = job.trash /\ job'.before = job.before
  BY <1>1 DEF Install, Shaped, JobShaped, JobFields
<1>4. TosFree' /\ RowsBefore' /\ EntriesSound'
  BY <1>1, <1>2, <1>3, TosStay, RowsBeforeStay, EntriesStay DEF Editing, EditPhases, EntriesSound
<1>5. \A s \in Entries' : rows'[s].place = From(s)'
  BY <1>1, <1>2, <1>3 DEF Editing, EditPhases, Entries, From
<1>6. SoFar'
  <2>1. SoFar /\ TosFree /\ job.moved = Entries /\ job.installed \subseteq Entries
    BY <1>1 DEF Editing, Shaped, JobShaped, Entries
  <2>2. at'[To(r)] = Copy(r) /\ \A p \in Places \ {To(r)} : at'[p] = at[p]
    BY <1>1, EntryShaped DEF Install, Shaped, DiskShaped
  <2>3. \A s \in Entries : To(s)' = To(s) /\ Copy(s)' = Copy(s) /\ To(s) \in Places
    BY <1>3, EntryShaped DEF To, Copy, Shaped
  <2>4. ASSUME NEW s \in job'.installed PROVE at'[To(s)'] = Copy(s)'
    <3>1. CASE s = r
      BY <1>1, <2>2, <2>3, <3>1
    <3>2. CASE s \in job.installed /\ s # r
      <4>1. s \in Entries /\ To(s) # To(r)
        BY <1>1, <2>1, <3>2 DEF TosFree
      <4> QED
        BY <2>1, <2>2, <2>3, <3>2, <4>1 DEF SoFar
    <3> QED
      BY <1>3, <2>4, <3>1, <3>2
  <2>5. Tos(job.installed)' = Tos(job.installed) \cup {To(r)}
    BY <1>3 DEF Tos, To
  <2>6. Froms(job.moved)' = Froms(job.moved) /\ Before' = Before
    BY <1>3 DEF Froms, From, Before
  <2>7. \A p \in Places \ Tos(job.installed)' :
          at'[p] = IF p \in Froms(job.moved)' THEN None ELSE Before'.at[p]
    BY <2>1, <2>2, <2>5, <2>6 DEF SoFar
  <2>8. job'.moved = Entries'
    BY <1>3, <2>1 DEF Entries
  <2> QED
    BY <2>4, <2>7, <2>8 DEF SoFar
<1>7. Editing'
  BY <1>1, <1>3, <1>4, <1>5, <1>6 DEF Editing, Entries
<1> QED
  BY <1>3, <1>7, EditGoesOn DEF EditPhases

LEMMA TurnsBack ==
  ASSUME Shaped, Working, MoveFails \/ CommitRefused \/ CommitFails
  PROVE  Working'
<1>1. Editing /\ job.phase \in {"aside", "install", "rows"}
  BY AtEdit DEF MoveFails, CommitRefused, CommitFails, EditPhases
<1>2. UNCHANGED <<at, rows, albums, requests, queue>> /\ UNCHANGED catalogue /\ GoTo("remove")
  BY DEF MoveFails, CommitRefused, CommitFails, disk, catalogue
<1>3. /\ job'.phase = "remove" /\ job'.entries = job.entries /\ job'.moved = job.moved
      /\ job'.installed = job.installed /\ job'.trash = job.trash /\ job'.before = job.before
  BY <1>2, GoesTo DEF Shaped, Phases, EditPhases
<1>4. TosFree' /\ SoFar' /\ RowsBefore' /\ EntriesSound'
  BY <1>1, <1>2, <1>3, TosStay, SoFarStays, RowsBeforeStay, EntriesStay
     DEF Editing, EditPhases, EntriesSound
<1>5. \A s \in Entries' : rows'[s].place = From(s)'
  BY <1>1, <1>2, <1>3 DEF Editing, EditPhases, Entries, From
<1>6. Editing'
  BY <1>1, <1>3, <1>4, <1>5 DEF Editing
<1> QED
  BY <1>3, <1>6, EditGoesOn DEF EditPhases

LEMMA CommitWorks ==
  ASSUME Shaped, Queued, Working,
         CommitAlbum \/ \E r \in Rows, a \in Albums : CommitTrack(r, a)
  PROVE  Working' /\ RowsShaped'
<1>1. Editing /\ job.phase = "rows"
  BY AtEdit DEF CommitAlbum, CommitTrack, EditPhases
<1>2. UNCHANGED <<at, requests, queue>> /\ GoTo("clean") /\ PathsUnique
  BY DEF CommitAlbum, CommitTrack, disk
<1>3. /\ job'.phase = "clean" /\ job'.entries = job.entries /\ job'.moved = job.moved
      /\ job'.installed = job.installed /\ job'.trash = job.trash /\ job'.before = job.before
  BY <1>2, GoesTo DEF Shaped, Phases, EditPhases
<1>4. \A r, s \in Entries : To(r) = To(s) => r = s
  BY <1>1 DEF Editing, TosFree
<1>5. /\ RowsShaped'
      /\ \A r \in Entries : /\ r \in Rows /\ rows'[r] # None /\ rows'[r].place = To(r)
                            /\ albums'[rows'[r].album] = To(r)[1]
  <2>1. CASE CommitAlbum
    <3>1. /\ RowsShaped' /\ albums'[Request.target] = Request.dest
          /\ \A r \in Entries : /\ r \in Rows /\ rows'[r] # None /\ rows'[r].place = To(r)
                                /\ rows'[r].album = Request.target
      BY <1>4, <2>1, AlbumCommitted
    <3>2. \A r \in Entries : To(r)[1] = Request.dest
      BY <1>1, <2>1 DEF CommitAlbum, Editing, EntriesSound
    <3> QED
      BY <3>1, <3>2
  <2>2. ASSUME NEW r \in Rows, NEW a \in Albums, CommitTrack(r, a)
        PROVE  /\ RowsShaped'
               /\ \A s \in Entries : /\ s \in Rows /\ rows'[s] # None /\ rows'[s].place = To(s)
                                     /\ albums'[rows'[s].album] = To(s)[1]
    <3>1. Entries = {r}
      BY <1>1, <2>2 DEF CommitTrack, Editing, EntriesSound
    <3> QED
      BY <2>2, <3>1, TrackCommitted
  <2> QED
    BY <2>1, <2>2
<1>6. TosFree' /\ SoFar' /\ EntriesSound'
  BY <1>1, <1>2, <1>3, <1>5, TosStay, SoFarStays, EntriesStay DEF Editing
<1>7. Moved'
  BY <1>3, <1>5 DEF Moved, Entries, To
<1>8. Editing'
  BY <1>1, <1>3, <1>6, <1>7 DEF Editing, Entries
<1> QED
  BY <1>3, <1>5, <1>8, EditGoesOn DEF EditPhases

LEMMA RemoveBackupsWorks == ASSUME Shaped, Queued, Working, RemoveBackups PROVE Working'
<1>1. Editing /\ job.phase = "clean"
  BY AtEdit DEF RemoveBackups, EditPhases
<1>2. UNCHANGED <<at, rows, albums, requests, queue>>
  BY DEF RemoveBackups, catalogue
<1>3. /\ job'.phase = "ok" /\ job'.entries = job.entries /\ job'.moved = {}
      /\ job'.trash = job.trash
  BY DEF RemoveBackups, Shaped, JobShaped, JobFields
<1>4. Moved'
  BY <1>1, <1>2, <1>3 DEF Editing, Moved, Entries, To
<1>5. ASSUME NEW r \in Entries
      PROVE  at[To(r)] = Copy(r) /\ (From(r) \notin Tos(Entries) => at[From(r)] = None)
  <2>1. SoFar /\ job.moved = Entries /\ job.installed = Entries
    BY <1>1 DEF Editing
  <2>2. From(r) \in Places /\ From(r) \in Froms(Entries)
    BY <1>5, EntryShaped DEF Froms, Shaped
  <2> QED
    BY <1>5, <2>1, <2>2 DEF SoFar
<1>6. \A r \in Entries' : /\ at'[To(r)'] = Copy(r)'
                          /\ From(r)' \notin Tos(Entries)' => at'[From(r)'] = None
  BY <1>2, <1>3, <1>5 DEF Entries, To, From, Tos, Copy
<1>7. Request' = Request /\ Request.op \in {"track", "album"}
  BY <1>1, <1>2 DEF Request, Queued, EditPhases
<1>8. Ended'
  BY <1>1, <1>3, <1>4, <1>6, <1>7 DEF Ended, Editing
<1> QED
  BY <1>3, <1>8, WorkEnds DEF Answers

LEMMA RemoveInstalledWorks == ASSUME Shaped, Working, RemoveInstalled PROVE Working'
<1>1. Editing /\ job.phase = "remove" /\ SoFar /\ TosFree /\ EntriesSound
  BY AtEdit DEF RemoveInstalled, EditPhases, Editing
<1>2. UNCHANGED <<rows, albums, requests, queue, gone>> /\ UNCHANGED catalogue
  BY DEF RemoveInstalled, catalogue
<1>3. /\ job'.entries = job.entries /\ job'.moved = job.moved /\ job'.installed = job.installed
      /\ job'.trash = job.trash /\ job'.before = job.before
      /\ job'.phase = IF job.moved = {} THEN "refused" ELSE "restore"
  BY GoesTo DEF RemoveInstalled, Shaped, Phases, EditPhases, Answers
<1>4. /\ job.moved \subseteq Entries /\ job.installed \subseteq Entries
      /\ job.moved # Entries => job.installed = {}
  BY <1>1 DEF SoFar, Shaped, JobShaped, Entries
<1>5. PICK kept \in SUBSET job.installed :
        \A p \in Places : at'[p] = IF \E r \in job.installed \ kept : To(r) = p THEN None ELSE at[p]
  BY DEF RemoveInstalled
<1>6. \A p \in Places \ Tos(job.installed) :
        at'[p] = IF p \in Froms(job.moved) THEN None ELSE Before.at[p]
  BY <1>1, <1>5 DEF SoFar, Tos
<1>7. \A p \in Places : at'[p] # None => at'[p] = at[p]
  BY <1>5
<1>8. \A r \in Entries : From(r) \in Places /\ To(r) \in Places
  BY EntryShaped DEF Shaped
<1>9. TosFree' /\ RowsBefore' /\ EntriesSound'
  BY <1>1, <1>2, <1>3, TosStay, RowsBeforeStay, EntriesStay DEF Editing, EditPhases, EntriesSound
<1>10. CASE job.moved = {}
  <2>1. job.installed = {}
    BY <1>1, <1>4, <1>10 DEF EntriesSound
  <2>2. \A p \in Places : at'[p] = Before.at[p]
    BY <1>6, <1>10, <2>1 DEF Tos, Froms
  <2>3. Ended'
    BY <1>1, <1>3, <1>9, <1>10, <2>2 DEF Ended, Editing, Before
  <2> QED
    BY <1>3, <1>10, <2>3, WorkEnds DEF Answers
<1>11. CASE job.moved # {}
  <2>1. ASSUME NEW p \in Places \ Froms(Entries), Before.at[p] # None PROVE at'[p] = Before.at[p]
    <3>1. p \notin Tos(job.installed)
      BY <1>1, <1>4, <2>1 DEF TosFree, Tos
    <3>2. p \notin Froms(job.moved)
      BY <1>4, <2>1 DEF Froms
    <3> QED
      BY <1>6, <3>1, <3>2
  <2>2. ASSUME NEW r \in Entries \ job.moved PROVE at'[From(r)] = job.entries[r].old
    <3>1. From(r) \notin Tos(job.installed)
      BY <1>4, <2>2 DEF Tos
    <3>2. From(r) \notin Froms(job.moved)
      BY <1>1, <1>4, <2>2 DEF EntriesSound, Froms
    <3>3. Before.at[From(r)] = job.entries[r].old
      BY <1>1, <2>2 DEF EntriesSound
    <3> QED
      BY <1>6, <1>8, <2>2, <3>1, <3>2, <3>3
  <2>3. ASSUME NEW r \in job.moved, at'[From(r)] # None PROVE \E k \in Entries : at'[From(r)] = Copy(k)
    <3>1. From(r) \in Places /\ From(r) \in Froms(job.moved)
      BY <1>4, <1>8, <2>3 DEF Froms
    <3>2. From(r) \in Tos(job.installed)
      BY <1>6, <2>3, <3>1
    <3>3. PICK k \in job.installed : From(r) = To(k)
      BY <3>2 DEF Tos
    <3> QED
      BY <1>1, <1>4, <1>7, <2>3, <3>1, <3>3 DEF SoFar
  <2>4. Back'
    BY <1>3, <2>1, <2>2, <2>3 DEF Back, Entries, Froms, From, To, Copy, Before
  <2>5. \A s \in Entries' : rows'[s].place = From(s)'
    BY <1>1, <1>2, <1>3 DEF Editing, EditPhases, Entries, From
  <2>6. Editing'
    BY <1>1, <1>3, <1>9, <1>11, <2>4, <2>5 DEF Editing
  <2> QED
    BY <1>3, <1>11, <2>6, EditGoesOn DEF EditPhases
<1> QED
  BY <1>10, <1>11

(* An original is put back, or is not.                                              *)
LEMMA AfterRestoring ==
  ASSUME Shaped, NEW r, NEW broken \in BOOLEAN, AfterRestore(r, broken)
  PROVE  /\ job'.entries = job.entries /\ job'.moved = job.moved \ {r}
         /\ job'.installed = job.installed /\ job'.trash = job.trash /\ job'.before = job.before
         /\ job'.clean <=> job.clean /\ ~broken
         /\ job'.phase = IF job.moved # {r} THEN job.phase
                         ELSE IF job.clean /\ ~broken THEN "refused" ELSE "broken"
BY DEF AfterRestore, Shaped, JobShaped, JobFields

LEMMA RestoreWorks ==
  ASSUME Shaped, Working, NEW r \in Rows, Restore(r) \/ RestoreFails(r)
  PROVE  Working'
<1>1. /\ Editing /\ job.phase = "restore" /\ Back /\ TosFree /\ EntriesSound
      /\ r \in job.moved /\ r \in Entries
  BY AtEdit DEF Restore, RestoreFails, EditPhases, Editing, Shaped, JobShaped, Entries
<1>2. PICK broken \in BOOLEAN :
        /\ AfterRestore(r, broken)
        /\ IF broken THEN UNCHANGED at ELSE at' = [at EXCEPT ![From(r)] = job.entries[r].old]
        /\ gone \subseteq gone' /\ (broken => OldAudios({r}) \subseteq gone')
  BY DEF Restore, RestoreFails
<1>3. UNCHANGED <<rows, albums, requests, queue>> /\ UNCHANGED catalogue
  BY DEF Restore, RestoreFails, catalogue
<1>4. /\ job'.entries = job.entries /\ job'.moved = job.moved \ {r}
      /\ job'.installed = job.installed /\ job'.trash = job.trash /\ job'.before = job.before
      /\ job'.clean <=> job.clean /\ ~broken
      /\ job'.phase = IF job.moved # {r} THEN "restore"
                      ELSE IF job.clean /\ ~broken THEN "refused" ELSE "broken"
  BY <1>1, <1>2, AfterRestoring
<1>5. \A s \in Entries : From(s) \in Places
  BY EntryShaped DEF Shaped
<1>6. \A p \in Places : at'[p] = IF ~broken /\ p = From(r) THEN job.entries[r].old ELSE at[p]
  BY <1>1, <1>2, <1>5 DEF Shaped, DiskShaped
<1>7. \A p \in Places \ Froms(Entries) : Before.at[p] # None => at'[p] = Before.at[p]
  BY <1>1, <1>6 DEF Back, Froms
<1>8. ASSUME NEW s \in Entries \ job'.moved
      PROVE  \/ at'[From(s)] = job.entries[s].old
             \/ ~job'.clean /\ job.entries[s].old.audio \in gone'
  <2>1. CASE s = r
    <3>1. CASE broken
      BY <1>2, <1>4, <2>1, <3>1 DEF OldAudios
    <3>2. CASE ~broken
      BY <1>1, <1>5, <1>6, <2>1, <3>2
    <3> QED
      BY <3>1, <3>2
  <2>2. CASE s # r
    <3>1. s \notin job.moved /\ From(s) # From(r)
      BY <1>1, <1>4, <1>8, <2>2 DEF EntriesSound
    <3>2. \/ at[From(s)] = job.entries[s].old
          \/ ~job.clean /\ job.entries[s].old.audio \in gone
      BY <1>1, <1>8, <3>1 DEF Back
    <3> QED
      BY <1>2, <1>4, <1>5, <1>6, <1>8, <3>1, <3>2
  <2> QED
    BY <2>1, <2>2
<1>9. ASSUME NEW s \in job'.moved, at'[From(s)] # None PROVE \E k \in Entries : at'[From(s)] = Copy(k)
  <2>1. s \in job.moved /\ s \in Entries /\ s # r
    BY <1>4, <1>9 DEF Shaped, JobShaped, Entries
  <2>2. From(s) # From(r) /\ From(s) \in Places
    BY <1>1, <1>5, <2>1 DEF EntriesSound
  <2>3. at'[From(s)] = at[From(s)]
    BY <1>6, <2>2
  <2> QED
    BY <1>1, <1>9, <2>1, <2>3 DEF Back
<1>10. Back'
  BY <1>4, <1>7, <1>8, <1>9 DEF Back, Entries, Froms, From, To, Copy, Before
<1>11. TosFree' /\ RowsBefore' /\ EntriesSound'
  BY <1>1, <1>3, <1>4, TosStay, RowsBeforeStay, EntriesStay DEF Editing, EditPhases, EntriesSound
<1>12. CASE job.moved # {r}
  <2>1. job'.moved # {}
    BY <1>1, <1>4, <1>12
  <2>2. \A s \in Entries' : rows'[s].place = From(s)'
    BY <1>1, <1>3, <1>4 DEF Editing, EditPhases, Entries, From
  <2>3. Editing'
    BY <1>1, <1>4, <1>10, <1>11, <1>12, <2>1, <2>2 DEF Editing
  <2> QED
    BY <1>4, <1>12, <2>3, EditGoesOn DEF EditPhases
<1>13. CASE job.moved = {r}
  <2>1. job'.moved = {} /\ job'.phase \in {"refused", "broken"} /\ job'.trash = {}
    BY <1>1, <1>4, <1>13 DEF Editing
  <2>2. ASSUME job'.phase = "refused", NEW p \in Places, Before.at[p] # None PROVE at'[p] = Before.at[p]
    <3>1. job'.clean
      BY <1>4, <1>13, <2>2
    <3>2. CASE p \in Froms(Entries)
      <4>1. PICK s \in Entries : p = From(s)
        BY <3>2 DEF Froms
      <4> QED
        BY <1>1, <1>8, <2>1, <3>1, <4>1 DEF EntriesSound
    <3> QED
      BY <1>7, <2>2, <3>2
  <2>3. Ended'
    BY <1>4, <1>11, <2>1, <2>2 DEF Ended, Before
  <2> QED
    BY <2>1, <2>3, WorkEnds DEF Answers
<1> QED
  BY <1>12, <1>13

-----------------------------------------------------------------------------
(* The scan, step by step. *)
LEMMA AtScan ==
  ASSUME Working, NEW phase \in ScanPhases, Running(phase)
  PROVE  Scanning /\ job.phase = phase
BY DEF Working, Running

LEMMA ScanGoesOn == ASSUME job'.phase \in ScanPhases, Scanning' PROVE Working'
BY PhasesAre DEF Working

LEMMA BeginScanWorks == ASSUME Shaped, BeginScan PROVE Working'
<1>1. /\ job'.phase = "scan" /\ job'.todo = {p \in Places : At(p)} /\ job'.seen = {}
      /\ job'.moved = {} /\ job'.trash = {}
  BY DEF BeginScan, Begin, Free
<1>2. UNCHANGED at
  BY DEF BeginScan, disk
<1>3. Scanning'
  BY <1>1, <1>2 DEF Scanning, At
<1> QED
  BY <1>1, <1>3, ScanGoesOn DEF ScanPhases

LEMMA PassesWorks ==
  ASSUME Shaped, Working, NEW p \in Places, ScanPasses(p) \/ ScanRefuses(p)
  PROVE  Working'
<1>1. Scanning /\ job.phase = "scan" /\ p \in job.todo
  BY AtScan DEF ScanPasses, ScanRefuses, ScanPhases
<1>2. UNCHANGED <<at, rows>>
  BY DEF ScanPasses, ScanRefuses, disk, catalogue
<1>3. /\ job'.phase = "scan" /\ job'.moved = {} /\ job'.trash = {}
      /\ job'.todo = job.todo \ {p} /\ job'.seen = job.seen \cup {p}
      /\ job'.clean => job.clean /\ ScanPasses(p)
  <2>1. CASE ScanPasses(p)
    BY <1>1, <2>1, Seeing DEF ScanPasses, Shaped, Scanning
  <2>2. CASE ScanRefuses(p)
    <3>1. job' = [Scanned(p) EXCEPT !.clean = FALSE]
      BY <2>2 DEF ScanRefuses
    <3> QED
      BY <1>1, <3>1, Seeing DEF Shaped, Scanning
  <2> QED
    BY <2>1, <2>2
<1>4. \A q : At(q)' = At(q) /\ Listed(q)' = Listed(q) /\ at'[q] = at[q]
  BY <1>2 DEF At, Listed, RowsAt
<1>5. ASSUME job'.clean PROVE At(p) /\ (at[p].home = p => Listed(p))
  <2>1. At(p)
    BY <1>1, <1>3, <1>5 DEF Scanning
  <2>2. Unmodified(p) \/ at[p].home # p
    BY <1>3, <1>5, <2>1 DEF ScanPasses
  <2> QED
    BY <2>1, <2>2 DEF Unmodified, Listed
<1>6. ASSUME job'.clean
      PROVE  /\ \A q \in Places : At(q)' => q \in job'.todo \cup job'.seen
             /\ \A q \in job'.todo : At(q)'
             /\ \A q \in job'.seen : At(q)' /\ (at'[q].home = q => Listed(q)')
  <2>1. /\ job.clean /\ job.todo \subseteq Places
        /\ \A q \in Places : At(q) => q \in job.todo \cup job.seen
        /\ \A q \in job.todo : At(q)
        /\ \A q \in job.seen : At(q) /\ (at[q].home = q => Listed(q))
    BY <1>1, <1>3, <1>6 DEF Scanning
  <2>2. \A q \in job'.seen : At(q) /\ (at[q].home = q => Listed(q))
    BY <1>3, <1>5, <1>6, <2>1
  <2> QED
    BY <1>3, <1>4, <2>1, <2>2
<1>7. Scanning'
  BY <1>1, <1>3, <1>6 DEF Scanning
<1> QED
  BY <1>3, <1>7, ScanGoesOn DEF ScanPhases

LEMMA IndexesWorks ==
  ASSUME Shaped, Working, NEW p \in Places, NEW r \in Rows, NEW a \in Albums, ScanIndexes(p, r, a)
  PROVE  Working'
<1>1. Scanning /\ job.phase = "scan" /\ p \in job.todo /\ At(p)
  BY AtScan DEF ScanIndexes, ScanPhases
<1>2. UNCHANGED at
  BY DEF ScanIndexes, disk
<1>3. /\ job'.phase = "scan" /\ job'.moved = {} /\ job'.trash = {}
      /\ job'.todo = job.todo \ {p} /\ job'.seen = job.seen \cup {p}
      /\ job'.clean = job.clean
  BY <1>1, Seeing DEF ScanIndexes, Shaped, Scanning
<1>4. /\ rows'[r] # None /\ rows'[r].place = p /\ rows'[r].shown
      /\ \A s \in Rows \ {r} : rows'[s] = rows[s]
      /\ rows[r] # None => rows[r].place = p
  BY Indexed
<1>5. Listed(p)'
  BY <1>4 DEF Listed, RowsAt
<1>6. ASSUME NEW q, Listed(q) PROVE Listed(q)'
  BY <1>4, <1>5, <1>6 DEF Listed, RowsAt
<1>7. \A q : At(q)' = At(q) /\ at'[q] = at[q]
  BY <1>2 DEF At
<1>8. ASSUME job'.clean
      PROVE  /\ \A q \in Places : At(q)' => q \in job'.todo \cup job'.seen
             /\ \A q \in job'.todo : At(q)'
             /\ \A q \in job'.seen : At(q)' /\ (at'[q].home = q => Listed(q)')
  <2>1. /\ job.clean /\ job.todo \subseteq Places
        /\ \A q \in Places : At(q) => q \in job.todo \cup job.seen
        /\ \A q \in job.todo : At(q)
        /\ \A q \in job.seen : At(q) /\ (at[q].home = q => Listed(q))
    BY <1>1, <1>3, <1>8 DEF Scanning
  <2> QED
    BY <1>1, <1>3, <1>5, <1>6, <1>7, <2>1
<1>9. Scanning'
  BY <1>1, <1>3, <1>8 DEF Scanning
<1> QED
  BY <1>3, <1>9, ScanGoesOn DEF ScanPhases

LEMMA BeginMissingWorks == ASSUME Shaped, Working, BeginMissing PROVE Working'
<1>1. Scanning /\ job.phase = "scan" /\ job.todo = {}
  BY AtScan DEF BeginMissing, ScanPhases
<1>2. UNCHANGED <<at, rows>>
  BY DEF BeginMissing, disk, catalogue
<1>3. /\ job'.phase = "missing" /\ job'.moved = {} /\ job'.trash = {}
      /\ job'.todo = {r \in Rows : rows[r] # None} /\ job'.seen = job.seen /\ job'.clean = job.clean
  BY <1>1 DEF BeginMissing, Shaped, JobShaped, JobFields, Scanning
<1>4. \A q \in Places : At(q)' = At(q) /\ Listed(q)' = Listed(q) /\ at'[q].home = at[q].home
  BY <1>2 DEF At, Listed, RowsAt
<1>5. job.clean => /\ \A p \in job.seen : At(p)' 
                   /\ \A p \in Places : At(p) => p \in job.seen
  BY <1>1, <1>2 DEF Scanning, At
<1>6. Scanning'
  BY <1>1, <1>2, <1>3, <1>4, <1>5 DEF Scanning
<1> QED
  BY <1>3, <1>6, ScanGoesOn DEF ScanPhases

LEMMA MarkMissingWorks ==
  ASSUME Shaped, Working, NEW r \in Rows, MarkMissing(r)
  PROVE  Working'
<1>1. Scanning /\ job.phase = "missing" /\ r \in job.todo /\ rows[r] # None
  BY AtScan DEF MarkMissing, ScanPhases, Scanning
<1>2. UNCHANGED at
  BY DEF MarkMissing, disk
<1>3. /\ job'.phase = "missing" /\ job'.moved = {} /\ job'.trash = {}
      /\ job'.todo = job.todo \ {r} /\ job'.seen = job.seen /\ job'.clean = job.clean
  BY <1>1 DEF MarkMissing, Shaped, JobShaped, JobFields, Scanning
<1>4. rows[r] \in Row /\ rows[r].place \in Places
  BY <1>1, RowIsThere DEF Shaped
<1>5. /\ \A s \in Rows \ {r} : rows'[s] = rows[s]
      /\ IF Vanished(r) THEN rows'[r] = [rows[r] EXCEPT !.shown = FALSE] ELSE rows'[r] = rows[r]
  BY DEF MarkMissing, Shaped, RowsShaped
<1>6. /\ rows'[r] # None /\ rows'[r].place = rows[r].place
      /\ Vanished(r) => ~rows'[r].shown
      /\ ~Vanished(r) => rows'[r] = rows[r]
  <2>1. [rows[r] EXCEPT !.shown = FALSE] \in Row
    BY <1>4 DEF Row
  <2>2. /\ [rows[r] EXCEPT !.shown = FALSE].place = rows[r].place
        /\ [rows[r] EXCEPT !.shown = FALSE].shown = FALSE
    BY <1>4 DEF Row
  <2> QED
    BY <1>1, <1>5, <2>1, <2>2, NoneAssumption
<1>7. ASSUME job.clean PROVE Vanished(r) <=> ~At(rows[r].place)
  BY <1>1, <1>7 DEF Vanished, Scanning
<1>8. ASSUME job.clean, NEW q \in Places, At(q), at[q].home = q PROVE Listed(q)'
  <2>1. PICK s \in RowsAt(q) : rows[s].shown
    BY <1>1, <1>8 DEF Scanning, Listed
  <2>2. CASE s # r
    BY <1>5, <2>1, <2>2 DEF Listed, RowsAt
  <2>3. CASE s = r
    BY <1>6, <1>7, <1>8, <2>1, <2>3 DEF Listed, RowsAt
  <2> QED
    BY <2>2, <2>3
<1>9. ASSUME job.clean, NEW s \in Rows \ job'.todo, rows'[s] # None, rows'[s].shown
      PROVE  At(rows'[s].place)
  <2>1. CASE s = r
    BY <1>6, <1>7, <1>9, <2>1
  <2>2. CASE s # r
    BY <1>1, <1>3, <1>5, <1>9, <2>2 DEF Scanning
  <2> QED
    BY <2>1, <2>2
<1>10. \A s \in job'.todo : s \in Rows /\ rows'[s] # None
  BY <1>1, <1>3, <1>5 DEF Scanning
<1>11. \A q : At(q)' = At(q) /\ at'[q] = at[q]
  BY <1>2 DEF At
<1>12. ASSUME job'.clean
       PROVE  /\ \A p \in Places : At(p)' /\ at'[p].home = p => Listed(p)'
              /\ \A p \in job'.seen : At(p)'
              /\ \A s \in Rows \ job'.todo : rows'[s] # None /\ rows'[s].shown => At(rows[s].place)'
  <2>1. job.clean /\ \A p \in job.seen : At(p)
    BY <1>1, <1>3, <1>12 DEF Scanning
  <2>2. \A s \in Rows : rows'[s] # None => rows'[s].place = rows[s].place
    BY <1>5, <1>6
  <2> QED
    BY <1>3, <1>8, <1>9, <1>11, <2>1, <2>2
<1>13. Scanning'
  BY <1>2, <1>3, <1>8, <1>9, <1>10, <1>11, <1>12 DEF Scanning, At
<1> QED
  BY <1>3, <1>13, ScanGoesOn DEF ScanPhases

LEMMA EndScanWorks == ASSUME Shaped, Queued, Working, EndScan PROVE Working'
<1>1. Scanning /\ job.phase = "missing" /\ job.todo = {}
  BY AtScan DEF EndScan, ScanPhases
<1>2. UNCHANGED <<at, rows, requests, queue>>
  BY DEF EndScan, disk, catalogue
<1>3. /\ job'.phase = "ok" /\ job'.moved = {} /\ job'.trash = {} /\ job'.clean = job.clean
  BY <1>1, GoesTo DEF EndScan, Shaped, Scanning, Phases, Answers
<1>4. Request' = Request /\ Request.op = "scan"
  BY <1>1, <1>2 DEF Request, Queued, ScanPhases
<1>5. /\ \A q \in Places : At(q)' = At(q) /\ Listed(q)' = Listed(q) /\ at'[q] = at[q]
      /\ \A r \in Rows : At(rows[r].place)' = At(rows[r].place)
  BY <1>2 DEF At, Listed, RowsAt
<1>6. Ended'
  BY <1>1, <1>2, <1>3, <1>4, <1>5 DEF Ended, Scanning
<1> QED
  BY <1>3, <1>6, WorkEnds DEF Answers

-----------------------------------------------------------------------------
(* The deletion, step by step. *)
LEMMA AtDelete ==
  ASSUME Working, NEW phase \in DeletePhases, Running(phase)
  PROVE  Deleting /\ job.phase = phase
BY DEF Working, Running

LEMMA DeleteGoesOn == ASSUME job'.phase \in DeletePhases, Deleting' PROVE Working'
BY PhasesAre DEF Working

LEMMA BeginDeleteWorks == ASSUME Shaped, BeginDelete PROVE Working'
<1>1. UNCHANGED <<at, rows, albums, requests, queue>>
  BY DEF BeginDelete, disk, catalogue
<1>2. /\ job'.moved = {} /\ job'.trash = {}
      /\ job'.before = [at |-> at, rows |-> rows, albums |-> albums]
      /\ job'.phase = IF albums[Request.target] # None THEN "folder" ELSE "refused"
  BY DEF BeginDelete, Begin, Free, Refused
<1>3. RowsBefore' /\ at' = Before'.at
  BY <1>1, <1>2 DEF RowsBefore, Before
<1>4. Request' = Request
  BY <1>1 DEF Request
<1>5. CASE albums[Request.target] # None
  <2>1. Deleting'
    BY <1>1, <1>2, <1>3, <1>4, <1>5 DEF Deleting
  <2> QED
    BY <1>2, <1>5, <2>1, DeleteGoesOn DEF DeletePhases
<1>6. CASE albums[Request.target] = None
  <2>1. Ended'
    BY <1>2, <1>3, <1>6 DEF Ended
  <2> QED
    BY <1>2, <1>6, <2>1, WorkEnds DEF Answers
<1> QED
  BY <1>5, <1>6

LEMMA StageFolderWorks == ASSUME Shaped, Working, StageFolder PROVE Working'
<1>1. Deleting /\ job.phase = "folder"
  BY AtDelete DEF StageFolder, DeletePhases
<1>2. UNCHANGED <<rows, albums, requests, queue>> /\ UNCHANGED catalogue
  BY DEF StageFolder, catalogue
<1> DEFINE d == albums[Request.target]
<1>3. /\ job'.phase = "unlist" /\ job'.moved = {} /\ job'.before = job.before
      /\ job'.trash = FilesIn(d)
  BY <1>1 DEF StageFolder, Shaped, JobShaped, JobFields, Deleting
<1>4. at = Before.at /\ Before' = Before
  BY <1>1, <1>3 DEF Deleting, Before
<1>5. albums'[Request'.target] = d
  BY <1>2 DEF Request
<1>6. \A p \in Places : at'[p] = IF p[1] = d THEN None ELSE Before'.at[p]
  BY <1>4 DEF StageFolder
<1>7. job'.trash = {<<p, Before'.at[p]>> : p \in {p \in Places : p[1] = d /\ Before'.at[p] # None}}
  BY <1>3, <1>4 DEF FilesIn, At
<1>8. RowsBefore'
  BY <1>1, <1>2, <1>3, RowsBeforeStay DEF Deleting
<1> HIDE DEF d
<1>9. Deleting'
  BY <1>3, <1>5, <1>6, <1>7, <1>8 DEF Deleting
<1> QED
  BY <1>3, <1>9, DeleteGoesOn DEF DeletePhases

LEMMA DeleteStopsWorks == ASSUME Shaped, Working, StageFails \/ DeleteFails PROVE Working'
<1>1. UNCHANGED <<at, rows, albums, requests, queue>> /\ UNCHANGED catalogue
  BY DEF StageFails, DeleteFails, disk, catalogue
<1>2. CASE StageFails
  <2>1. Deleting /\ job.phase = "folder"
    BY <1>2, AtDelete DEF StageFails, DeletePhases
  <2>2. /\ job'.phase = "refused" /\ job'.moved = job.moved /\ job'.trash = job.trash
        /\ job'.before = job.before
    BY <1>2, GoesTo DEF StageFails, Shaped, Phases, Answers
  <2>3. RowsBefore' /\ at' = Before'.at
    BY <1>1, <2>1, <2>2, RowsBeforeStay DEF Deleting, Before
  <2>4. Ended'
    BY <2>1, <2>2, <2>3 DEF Ended, Deleting
  <2> QED
    BY <2>2, <2>4, WorkEnds DEF Answers
<1>3. CASE DeleteFails
  <2>1. Deleting /\ job.phase = "unlist"
    BY <1>3, AtDelete DEF DeleteFails, DeletePhases
  <2>2. /\ job'.phase = "unfolder" /\ job'.moved = job.moved /\ job'.trash = job.trash
        /\ job'.before = job.before
    BY <1>3, GoesTo DEF DeleteFails, Shaped, Phases, DeletePhases
  <2>3. RowsBefore' /\ Before' = Before /\ Request' = Request
    BY <1>1, <2>1, <2>2, RowsBeforeStay DEF Deleting, Before, Request
  <2>4. Deleting'
    BY <1>1, <2>1, <2>2, <2>3 DEF Deleting
  <2> QED
    BY <2>2, <2>4, DeleteGoesOn DEF DeletePhases
<1> QED
  BY <1>2, <1>3

LEMMA DeleteRowsWorks == ASSUME Shaped, Working, DeleteRows PROVE Working'
<1>1. Deleting /\ job.phase = "unlist"
  BY AtDelete DEF DeleteRows, DeletePhases
<1>2. job'.phase = "purge" /\ job'.moved = job.moved
  BY GoesTo DEF DeleteRows, Shaped, Phases, DeletePhases
<1>3. Deleting'
  BY <1>1, <1>2 DEF Deleting
<1> QED
  BY <1>2, <1>3, DeleteGoesOn DEF DeletePhases

LEMMA FolderIsBack ==
  ASSUME Shaped, Working, RestoreFolder
  PROVE  /\ \A p \in Places : Before.at[p] # None => at'[p] = Before.at[p]
         /\ \A p \in Places : at[p] # None => at'[p] = at[p]
         /\ \A f \in job.trash : f[1] \in Places /\ f[2] # None /\ at'[f[1]] = f[2]
<1>1. Deleting /\ job.phase = "unfolder"
  BY AtDelete DEF RestoreFolder, DeletePhases
<1> DEFINE d == albums[Request.target]
<1>2. /\ \A p \in Places : at[p] = IF p[1] = d THEN None ELSE Before.at[p]
      /\ job.trash = {<<p, Before.at[p]>> : p \in {p \in Places : p[1] = d /\ Before.at[p] # None}}
  BY <1>1 DEF Deleting
<1>3. ASSUME NEW p \in Places, p[1] = d, Before.at[p] # None PROVE at'[p] = Before.at[p]
  <2>1. <<p, Before.at[p]>> \in job.trash /\ <<p, Before.at[p]>>[1] = p
    BY <1>2, <1>3
  <2>2. \A f \in job.trash : f[1] = p => f[2] = Before.at[p]
    BY <1>2
  <2>3. (CHOOSE f \in job.trash : f[1] = p) \in job.trash /\ (CHOOSE f \in job.trash : f[1] = p)[1] = p
    BY <2>1
  <2>4. at'[p] = (CHOOSE f \in job.trash : f[1] = p)[2]
    BY <2>1 DEF RestoreFolder
  <2> QED
    BY <2>2, <2>3, <2>4
<1>4. ASSUME NEW p \in Places, p[1] # d PROVE at'[p] = at[p] /\ at[p] = Before.at[p]
  <2>1. \A f \in job.trash : f[1] # p
    BY <1>2, <1>4
  <2>2. at'[p] = at[p]
    BY <2>1 DEF RestoreFolder
  <2> QED
    BY <1>2, <1>4, <2>2
<1>5. \A f \in job.trash : /\ f[1] \in Places /\ f[1][1] = d
                           /\ f[2] = Before.at[f[1]] /\ Before.at[f[1]] # None
  BY <1>2
<1> HIDE DEF d
<1> QED
  BY <1>2, <1>3, <1>4, <1>5

LEMMA RestoreFolderWorks == ASSUME Shaped, Working, RestoreFolder PROVE Working'
<1>1. Deleting /\ job.phase = "unfolder"
  BY AtDelete DEF RestoreFolder, DeletePhases
<1>2. UNCHANGED <<rows, albums>> /\ UNCHANGED catalogue
  BY DEF RestoreFolder, catalogue
<1>3. /\ job'.phase = "refused" /\ job'.moved = {} /\ job'.trash = {} /\ job'.before = job.before
  BY <1>1 DEF RestoreFolder, Shaped, JobShaped, JobFields, Deleting
<1>4. RowsBefore'
  BY <1>1, <1>2, <1>3, RowsBeforeStay DEF Deleting
<1>5. Ended'
  BY <1>3, <1>4, FolderIsBack DEF Ended, Before
<1> QED
  BY <1>3, <1>5, WorkEnds DEF Answers

LEMMA DeleteEndsWorks == ASSUME Shaped, Queued, Working, RestoreFolderFails \/ Purge PROVE Working'
<1>1. Deleting /\ job.phase \in DeletePhases
  BY AtDelete DEF RestoreFolderFails, Purge, DeletePhases
<1>2. /\ job'.phase \in {"broken", "ok"} /\ job'.moved = {} /\ job'.trash = {}
  BY <1>1 DEF RestoreFolderFails, Purge, Shaped, JobShaped, JobFields, Deleting
<1>3. Request' = Request /\ Request.op = "delete"
  BY <1>1 DEF RestoreFolderFails, Purge, Queued, Request
<1>4. Ended'
  BY <1>2, <1>3 DEF Ended
<1> QED
  BY <1>2, <1>4, WorkEnds DEF Answers

-----------------------------------------------------------------------------
(* What others do leaves the operation where it is: the page asks, the check changes *)
(* neither the place nor the album of a row, nobody touches files at work.           *)
RowsKept ==
  \A r \in Rows : /\ rows'[r] = None <=> rows[r] = None
                  /\ rows[r] # None => /\ rows'[r].place = rows[r].place
                                       /\ rows'[r].album = rows[r].album

JobKept ==
  /\ job'.phase = job.phase /\ job'.entries = job.entries /\ job'.moved = job.moved
  /\ job'.installed = job.installed /\ job'.todo = job.todo /\ job'.seen = job.seen
  /\ job'.trash = job.trash /\ job'.before = job.before

LEMMA RowsBeforeKept == ASSUME RowsBefore, RowsKept, JobKept, UNCHANGED albums PROVE RowsBefore'
BY DEF RowsBefore, RowsKept, JobKept, Before

LEMMA MovedKept ==
  ASSUME Moved, RowsKept, JobKept, UNCHANGED albums, Entries \subseteq Rows
  PROVE  Moved'
BY DEF Moved, RowsKept, JobKept, Entries, To

LEMMA EditKept ==
  ASSUME JobShaped(job), Editing, RowsKept, JobKept, job'.clean = job.clean,
         UNCHANGED <<at, albums, gone>>, Request' = Request
  PROVE  Editing'
<1>1. Entries \subseteq Rows /\ Entries' = Entries
  BY DEF JobShaped, Entries, JobKept
<1>2. \A r : From(r)' = From(r) /\ To(r)' = To(r) /\ Copy(r)' = Copy(r)
  BY DEF JobKept, From, To, Copy
<1>3. EntriesSound'
  BY <1>1, <1>2 DEF Editing, EntriesSound, RowsKept, JobKept, Before
<1>4. job.phase \in EditPhases \ {"clean"} => RowsBefore' /\ \A r \in Entries : rows'[r].place = From(r)
  BY <1>1, RowsBeforeKept DEF Editing, EntriesSound, RowsKept
<1>5. TosFree => TosFree'
  BY TosStay DEF JobKept
<1>6. SoFar => SoFar'
  BY SoFarStays DEF JobKept
<1>7. job.phase = "clean" => Moved'
  BY <1>1, MovedKept DEF Editing, EntriesSound
<1>8. Back => Back'
  BY <1>1, <1>2 DEF Back, JobKept, Before, Froms, Entries
<1> QED
  BY <1>1, <1>2, <1>3, <1>4, <1>5, <1>6, <1>7, <1>8 DEF Editing, JobKept

LEMMA ScanKept ==
  ASSUME Scanning, RowsKept, JobKept,
         job'.clean /\ job.phase \in ScanPhases => job.clean /\ UNCHANGED <<at, rows>>
  PROVE  Scanning'
<1>1. job.phase = "missing" => \A r \in job.todo : r \in Rows /\ rows'[r] # None
  BY DEF Scanning, RowsKept
<1>2. UNCHANGED <<at, rows>> => \A q : At(q)' = At(q) /\ Listed(q)' = Listed(q)
  BY DEF At, Listed, RowsAt
<1>3. job'.clean /\ job.phase = "scan" =>
       /\ \A p \in Places : At(p)' => p \in job.todo \cup job.seen
       /\ \A p \in job.todo : At(p)'
       /\ \A p \in job.seen : At(p)' /\ (at'[p].home = p => Listed(p)')
  BY <1>2 DEF Scanning, ScanPhases
<1>4. job'.clean /\ job.phase = "missing" =>
       /\ \A p \in Places : At(p)' /\ at'[p].home = p => Listed(p)'
       /\ \A p \in job.seen : At(p)'
       /\ \A r \in Rows \ job.todo : rows'[r] # None /\ rows'[r].shown => At(rows[r].place)'
  BY <1>2 DEF Scanning, ScanPhases, At
<1> QED
  BY <1>1, <1>3, <1>4 DEF Scanning, JobKept, At

LEMMA DeleteKept ==
  ASSUME Deleting, RowsKept, JobKept, UNCHANGED <<at, albums>>, Request' = Request
  PROVE  Deleting'
<1>1. RowsBefore => RowsBefore'
  BY RowsBeforeKept
<1>2. Before' = Before
  BY DEF Before, JobKept
<1> QED
  BY <1>1, <1>2 DEF Deleting, JobKept

LEMMA EndKept ==
  ASSUME JobShaped(job), Ended, RowsKept, JobKept, UNCHANGED <<at, albums>>, Request' = Request,
         job.phase = "ok" /\ job'.clean => job.clean /\ UNCHANGED rows
  PROVE  Ended'
<1>1. Entries \subseteq Rows /\ Entries' = Entries
  BY DEF JobShaped, Entries, JobKept
<1>2. /\ \A r : From(r)' = From(r) /\ To(r)' = To(r) /\ Copy(r)' = Copy(r)
      /\ \A R : Tos(R)' = Tos(R)
  BY DEF JobKept, From, To, Copy, Tos
<1>3. RowsBefore => RowsBefore'
  BY RowsBeforeKept
<1>4. job.phase = "ok" /\ Request.op \in {"track", "album"} => Moved'
  BY <1>1, MovedKept DEF Ended
<1>5. Before' = Before
  BY DEF Before, JobKept
<1>6. UNCHANGED rows => \A q : At(q)' = At(q) /\ Listed(q)' = Listed(q)
  BY DEF At, Listed, RowsAt
<1>7. job.phase = "ok" /\ Request.op = "scan" /\ job'.clean =>
       /\ \A r \in Rows : rows'[r] # None /\ rows'[r].shown => At(rows[r].place)'
       /\ \A p \in Places : At(p)' /\ at'[p].home = p => Listed(p)'
  BY <1>6 DEF Ended, At
<1> QED
  BY <1>1, <1>2, <1>3, <1>4, <1>5, <1>7 DEF Ended, JobKept, At

(* Somebody else: the page, the check, a change by hand. *)
LEMMA OthersWork ==
  ASSUME Shaped, Working, RowsKept, JobKept, UNCHANGED albums,
         job.phase = "free" => job' = Free,
         job.phase # "free" => Request' = Request,
         job.phase \notin ScanPhases \cup {"free"} => UNCHANGED <<at, gone>>,
         job.phase \notin ScanPhases \cup {"free", "ok"} => job'.clean = job.clean,
         job.phase \in ScanPhases \cup {"ok"} /\ job'.clean => job.clean /\ UNCHANGED <<at, rows>>
  PROVE  Working'
<1>1. CASE job.phase = "free"
  BY <1>1, PhasesAre DEF Working, JobKept
<1>2. CASE job.phase \in EditPhases
  <2>1. job.phase \notin ScanPhases \cup {"free", "ok"}
    BY <1>2 DEF EditPhases, ScanPhases
  <2>2. Editing'
    BY <1>2, <2>1, EditKept DEF Working, Shaped
  <2> QED
    BY <1>2, <2>2, EditGoesOn DEF JobKept
<1>3. CASE job.phase \in ScanPhases
  <2>1. Scanning'
    BY <1>3, ScanKept DEF Working
  <2> QED
    BY <1>3, <2>1, ScanGoesOn DEF JobKept
<1>4. CASE job.phase \in DeletePhases
  <2>1. job.phase \notin ScanPhases \cup {"free", "ok"}
    BY <1>4 DEF DeletePhases, ScanPhases
  <2>2. Deleting'
    BY <1>4, <2>1, DeleteKept DEF Working
  <2> QED
    BY <1>4, <2>2, DeleteGoesOn DEF JobKept
<1>5. CASE job.phase \in Answers
  <2>1. job.phase \notin ScanPhases \cup {"free"}
    BY <1>5 DEF Answers, ScanPhases
  <2>2. Ended'
    BY <1>5, <2>1, EndKept DEF Working, Shaped
  <2> QED
    BY <1>5, <2>2, WorkEnds DEF JobKept
<1> QED
  BY <1>1, <1>2, <1>3, <1>4, <1>5, PhasesAre DEF Shaped, JobShaped

LEMMA UsersWork == ASSUME Shaped, Queued, Working, Users PROVE Working' /\ Queued'
<1>1. PICK op, target, dest : /\ Ask(op, target, dest)
                              /\ [op |-> op, target |-> target, dest |-> dest] \in Wishes
  BY UsersAsk
<1>2. Queued' /\ (job.phase # "free" => Request' = Request)
  BY <1>1, AskQueued
<1>3. UNCHANGED <<at, rows, albums, job, gone>>
  BY <1>1 DEF Ask, disk, catalogue
<1>4. RowsKept /\ JobKept
  BY <1>3 DEF RowsKept, JobKept
<1>5. job.phase = "free" => job' = Free
  BY <1>3 DEF Working
<1> QED
  BY <1>2, <1>3, <1>4, <1>5, OthersWork

LEMMA CheckAndHandsWork == ASSUME Shaped, Queued, Working, Check \/ Hands PROVE Working'
<1>1. /\ UNCHANGED <<requests, queue, albums>> /\ job'.phase = job.phase
      /\ \A x \in JobFields \ {"clean"} : job'[x] = job[x]
  BY OthersQueued
<1>2. JobKept /\ Request' = Request
  BY <1>1 DEF JobKept, JobFields, Request
<1>3. CASE CheckStats \/ \E r \in Rows : CheckReads(r)
  <2>1. UNCHANGED <<at, rows, job, gone>>
    BY <1>3 DEF CheckReads, CheckStats, disk, catalogue
  <2>2. RowsKept
    BY <2>1 DEF RowsKept
  <2>3. job.phase = "free" => job' = Free
    BY <2>1 DEF Working
  <2> QED
    BY <1>1, <1>2, <2>1, <2>2, <2>3, OthersWork
<1>4. CASE CheckMarks
  <2>1. UNCHANGED <<at, gone>>
    BY <1>4 DEF CheckMarks, disk
  <2>2. RowsKept
    BY <1>4, MarkedRows DEF RowsKept
  <2>3. job'.clean = (job.clean /\ job.phase \notin ScanPhases \cup {"ok"})
    BY <1>4 DEF CheckMarks, Shaped, JobShaped, JobFields
  <2>4. ASSUME job.phase = "free" PROVE job' = Free
    <3>1. job = Free
      BY <2>4 DEF Working
    <3>2. job' = [Free EXCEPT !.clean = TRUE]
      BY <1>4, <3>1 DEF CheckMarks, Free, ScanPhases
    <3> QED
      BY <3>2 DEF Free
  <2>5. /\ job.phase \notin ScanPhases \cup {"free", "ok"} => job'.clean = job.clean
        /\ job.phase \in ScanPhases \cup {"ok"} => ~job'.clean
    BY <2>3 DEF Shaped, JobShaped
  <2> QED
    BY <1>1, <1>2, <2>1, <2>2, <2>4, <2>5, OthersWork
<1>5. CASE Hands
  <2>1. ByHand /\ UNCHANGED rows
    BY <1>5 DEF Hands, RemoveByHand, PutByHand, catalogue
  <2>2. RowsKept
    BY <2>1 DEF RowsKept
  <2>3. job.phase \in {"free"} \cup ScanPhases /\ job'.clean = (job.phase = "free")
    BY <2>1 DEF ByHand, Shaped, JobShaped, JobFields
  <2>4. ASSUME job.phase = "free" PROVE job' = Free
    <3>1. job = Free
      BY <2>4 DEF Working
    <3>2. job' = [Free EXCEPT !.clean = TRUE]
      BY <2>1, <2>4, <3>1 DEF ByHand
    <3> QED
      BY <3>2 DEF Free
  <2>5. job.phase # "ok" /\ (job.phase \in ScanPhases => ~job'.clean)
    BY <2>3, PhasesAre DEF Answers, ScanPhases
  <2> QED
    BY <1>1, <1>2, <2>2, <2>3, <2>4, <2>5, OthersWork
<1> QED
  BY <1>3, <1>4, <1>5 DEF Check

LEMMA FreeWorks == ASSUME job' = Free PROVE Working'
BY PhasesAre DEF Working, Free

-----------------------------------------------------------------------------
(* A step of the operation that holds the lock. *)
LEMMA EditWorks ==
  ASSUME Shaped, Queued, Working, EditStep
  PROVE  Shaped' /\ Working'
<1>1. CASE BeginEdit
  BY <1>1, JobStays, BeginEditWorks
<1>2. CASE CheckDestinations
  BY <1>2, JobStays, CheckDestinationsWorks
<1>3. ASSUME NEW r \in Rows, MoveAside(r) PROVE Shaped' /\ Working'
  BY <1>3, MovesShaped, MoveAsideWorks
<1>4. ASSUME NEW r \in Rows, Install(r) PROVE Shaped' /\ Working'
  BY <1>4, MovesShaped, InstallWorks
<1>5. ASSUME NEW r \in Rows, Restore(r) \/ RestoreFails(r) PROVE Shaped' /\ Working'
  BY <1>5, BackShaped, RestoreWorks
<1>6. CASE CommitAlbum \/ \E r \in Rows, a \in Albums : CommitTrack(r, a)
  <2>1. Working' /\ RowsShaped'
    BY <1>6, CommitWorks
  <2>2. GoTo("clean") /\ UNCHANGED <<disk, requests, queue, check, asked, troubles, gone>>
    BY <1>6 DEF CommitAlbum, CommitTrack
  <2> QED
    BY <2>1, <2>2, CommitShaped
<1>7. CASE MoveFails \/ CommitRefused \/ CommitFails
  BY <1>7, JobStays, TurnsBack
<1>8. CASE RemoveBackups
  BY <1>8, RemovesShaped, RemoveBackupsWorks
<1>9. CASE RemoveInstalled
  BY <1>9, RemovesShaped, RemoveInstalledWorks
<1> QED
  BY <1>1, <1>2, <1>3, <1>4, <1>5, <1>6, <1>7, <1>8, <1>9 DEF EditStep

LEMMA ScanWorks == ASSUME Shaped, Queued, Working, ScanStep PROVE Shaped' /\ Working'
<1>1. Shaped'
  BY ScanShaped
<1>2. Working'
  BY BeginScanWorks, PassesWorks, IndexesWorks, BeginMissingWorks, MarkMissingWorks, EndScanWorks
     DEF ScanStep
<1> QED
  BY <1>1, <1>2

LEMMA DeleteWorks == ASSUME Shaped, Queued, Working, DeleteStep PROVE Shaped' /\ Working'
<1>1. Shaped'
  BY DeleteShaped
<1>2. Working'
  BY BeginDeleteWorks, StageFolderWorks, DeleteStopsWorks, DeleteRowsWorks, RestoreFolderWorks,
     DeleteEndsWorks DEF DeleteStep
<1> QED
  BY <1>1, <1>2

(* Every step keeps the variables in shape, the queue in order, and the operation where *)
(* it says it is.                                                                       *)
LEMMA StepsWork ==
  ASSUME Shaped, Queued, Working, Next
  PROVE  Shaped' /\ Queued' /\ Working'
<1>1. CASE EditStep
  BY <1>1, EditWorks, EditQueued
<1>2. CASE ScanStep
  BY <1>2, ScanWorks, ScanQueued
<1>3. CASE DeleteStep
  BY <1>3, DeleteWorks, DeleteQueued
<1>4. CASE Release
  BY <1>4, ReleaseShaped, ReleaseQueued, FreeWorks DEF Release
<1>5. CASE Users
  BY <1>5, UsersShaped, UsersWork
<1>6. CASE Check \/ Hands
  BY <1>6, CheckStepShaped, HandsShaped, OthersQueued, CheckAndHandsWork
<1>7. CASE Restart
  BY <1>7, RestartShaped, RestartQueued, FreeWorks DEF Restart
<1> QED
  BY <1>1, <1>2, <1>3, <1>4, <1>5, <1>6, <1>7 DEF Next, Step

LEMMA StutterWorks == ASSUME Shaped, Queued, Working, UNCHANGED vars PROVE Shaped' /\ Queued' /\ Working'
<1>1. UNCHANGED <<at, left, rows, albums, requests, queue, job, check, asked, troubles, gone>>
  BY DEF vars, disk, catalogue
<1>2. Shaped'
  BY <1>1 DEF Shaped, DiskShaped, RowsShaped, JobShaped, QueueShaped, CheckShaped, HistoryShaped
<1>3. Queued' /\ Request' = Request
  BY <1>1 DEF Queued, Request
<1>4. RowsKept /\ JobKept
  BY <1>1 DEF RowsKept, JobKept
<1>5. job.phase = "free" => job' = Free
  BY <1>1 DEF Working
<1> QED
  BY <1>1, <1>2, <1>3, <1>4, <1>5, OthersWork

-----------------------------------------------------------------------------
(* No recording is lost. *)
LEMMA NothingLostOnTheWay ==
  ASSUME NothingLost,
         \A t \in gone : t \in gone' \/ Kept(t)',
         \A t \in left \cup OldAudios(job.moved) \cup Trashed : t \in gone' \/ Kept(t)',
         \A p \in Places : \A t : At(p) /\ at[p].audio = t => t \in gone' \/ Kept(t)'
  PROVE  NothingLost'
<1> SUFFICES ASSUME NEW t \in Audios PROVE t \in gone' \/ Kept(t)'
  BY DEF NothingLost
<1>1. \/ t \in gone \/ t \in left \cup OldAudios(job.moved) \cup Trashed
      \/ \E p \in Places : At(p) /\ at[p].audio = t
  BY DEF NothingLost, Kept
<1> QED
  BY <1>1

LEMMA DiskStays ==
  ASSUME NothingLost, UNCHANGED at, gone \subseteq gone',
         left \cup OldAudios(job.moved) \cup Trashed \subseteq
           left' \cup OldAudios(job.moved)' \cup Trashed' \cup gone'
  PROVE  NothingLost'
<1>1. \A p \in Places : \A t : At(p) /\ at[p].audio = t => Kept(t)'
  BY DEF Kept, At
<1>2. \A t \in left' \cup OldAudios(job.moved)' \cup Trashed' : Kept(t)'
  BY DEF Kept
<1> QED
  BY <1>1, <1>2, NothingLostOnTheWay

LEMMA InHand ==
  ASSUME Shaped, Working, job.phase \notin EditPhases \cup DeletePhases
  PROVE  job.moved = {} /\ job.trash = {} /\ OldAudios(job.moved) = {} /\ Trashed = {}
<1>1. job.moved = {} /\ job.trash = {}
  BY PhasesAre DEF Shaped, JobShaped, Working, Scanning, Ended, Free
<1> QED
  BY <1>1 DEF OldAudios, Trashed

LEMMA AskAndCheckLoseNothing ==
  ASSUME Shaped, Queued, Working, NothingLost, Users \/ Check
  PROVE  NothingLost'
<1>1. UNCHANGED <<at, left, gone>>
  BY UsersAsk DEF Ask, Check, CheckReads, CheckStats, CheckMarks, disk
<1>2. job'.moved = job.moved /\ job'.entries = job.entries /\ job'.trash = job.trash
  <2>1. CASE Users
    BY <2>1, UsersAsk DEF Ask
  <2>2. CASE Check
    BY <2>2, OthersQueued DEF JobFields
  <2> QED
    BY <2>1, <2>2
<1>3. OldAudios(job.moved)' = OldAudios(job.moved) /\ Trashed' = Trashed
  BY <1>2 DEF OldAudios, Trashed
<1> QED
  BY <1>1, <1>3, DiskStays

LEMMA HandsLoseNothing ==
  ASSUME Shaped, Queued, Working, NothingLost, Hands
  PROVE  NothingLost'
<1>1. ByHand /\ UNCHANGED left
  BY DEF Hands, RemoveByHand, PutByHand
<1>2. job.phase \notin EditPhases \cup DeletePhases
  BY <1>1, PhasesAre DEF ByHand
<1>3. OldAudios(job.moved) = {} /\ Trashed = {}
  BY <1>2, InHand
<1>4. \A t \in left : Kept(t)'
  BY <1>1 DEF Kept
<1>5. ASSUME NEW p \in Places, RemoveByHand(p) PROVE NothingLost'
  <2>1. \A q \in Places \ {p} : \A t : At(q) /\ at[q].audio = t => Kept(t)'
    BY <1>5 DEF RemoveByHand, Kept, At, Shaped, DiskShaped
  <2>2. at[p].audio \in gone' /\ gone \subseteq gone'
    BY <1>5 DEF RemoveByHand
  <2> QED
    BY <1>3, <1>4, <2>1, <2>2, NothingLostOnTheWay
<1>6. ASSUME NEW p \in Places, NEW file \in File, PutByHand(p, file) PROVE NothingLost'
  <2>1. \A q \in Places \ {p} : \A t : At(q) /\ at[q].audio = t => Kept(t)'
    BY <1>6 DEF PutByHand, Kept, At, Shaped, DiskShaped
  <2>2. at'[p] = file /\ file # None
    BY <1>6, NoneAssumption DEF PutByHand, Shaped, DiskShaped
  <2>3. \A t : t = file.audio => Kept(t)'
    BY <2>2 DEF Kept, At
  <2>4. At(p) => at[p].audio \in gone' \/ at[p].audio = file.audio
    BY <1>6 DEF PutByHand
  <2>5. \A t \in gone : t \in gone' \/ t = file.audio
    BY <1>6 DEF PutByHand
  <2> QED
    BY <1>3, <1>4, <2>1, <2>3, <2>4, <2>5, NothingLostOnTheWay
<1> QED
  BY <1>5, <1>6 DEF Hands

LEMMA RestartLosesNothing == ASSUME NothingLost, Restart PROVE NothingLost'
<1>1. UNCHANGED <<at, gone>> /\ left \cup OldAudios(job.moved) \cup Trashed \subseteq left'
  BY DEF Restart
<1> QED
  BY <1>1, DiskStays

LEMMA ScanLosesNothing ==
  ASSUME Shaped, Queued, Working, NothingLost, ScanStep \/ Release
  PROVE  NothingLost'
<1>1. UNCHANGED <<at, left, gone>>
  BY DEF ScanStep, BeginScan, BeginMissing, EndScan, ScanPasses, ScanRefuses, ScanIndexes, MarkMissing,
     Release, disk
<1>2. job.phase \notin EditPhases \cup DeletePhases
  <2>1. job.phase \in {"free", "scan", "missing"} \cup Answers
    BY DEF ScanStep, BeginScan, BeginMissing, EndScan, ScanPasses, ScanRefuses, ScanIndexes,
       MarkMissing, Release, Running, Starts
  <2> QED
    BY <2>1, PhasesAre DEF ScanPhases
<1>3. OldAudios(job.moved) = {} /\ Trashed = {}
  BY <1>2, InHand
<1> QED
  BY <1>1, <1>3, DiskStays

(* The deletion. *)
LEMMA DeleteLosesNothing ==
  ASSUME Shaped, Queued, Working, NothingLost, DeleteStep
  PROVE  NothingLost'
<1>1. CASE BeginDelete
  <2>1. job.phase \notin EditPhases \cup DeletePhases
    BY <1>1, PhasesAre DEF BeginDelete, Starts, Running
  <2>2. UNCHANGED <<at, left, gone>>
    BY <1>1 DEF BeginDelete, disk
  <2> QED
    BY <2>1, <2>2, InHand, DiskStays
<1>2. ASSUME ~BeginDelete PROVE job.phase \in DeletePhases /\ OldAudios(job.moved) = {}
  <2>1. job.phase \in DeletePhases
    BY <1>2 DEF DeleteStep, StageFolder, StageFails, DeleteRows, DeleteFails, RestoreFolder,
       RestoreFolderFails, Purge, Running, DeletePhases
  <2> QED
    BY <2>1 DEF Working, Deleting, OldAudios
<1>3. CASE ~BeginDelete /\ StageFolder
  <2>1. /\ job'.trash = FilesIn(albums[Request.target]) /\ UNCHANGED <<left, gone>>
        /\ job.trash = {}
    BY <1>3, AtDelete DEF StageFolder, Shaped, JobShaped, JobFields, Deleting, DeletePhases
  <2>2. ASSUME NEW p \in Places, At(p), NEW t, at[p].audio = t PROVE Kept(t)'
    <3>1. CASE p[1] = albums[Request.target]
      <4>1. <<p, at[p]>> \in job'.trash
        BY <2>1, <2>2, <3>1 DEF FilesIn
      <4>2. t \in Trashed'
        BY <2>2, <4>1 DEF Trashed
      <4> QED
        BY <4>2 DEF Kept
    <3>2. CASE p[1] # albums[Request.target]
      <4>1. at'[p] = at[p]
        BY <1>3, <3>2 DEF StageFolder
      <4> QED
        BY <2>2, <4>1 DEF Kept, At
    <3> QED
      BY <3>1, <3>2
  <2>3. Trashed = {} /\ \A t \in left : Kept(t)'
    BY <2>1 DEF Trashed, Kept
  <2> QED
    BY <1>2, <1>3, <2>1, <2>2, <2>3, NothingLostOnTheWay
<1>4. CASE ~BeginDelete /\ (StageFails \/ DeleteRows \/ DeleteFails)
  <2>1. job'.trash = job.trash
    BY <1>4, GoesTo DEF StageFails, DeleteRows, DeleteFails, Shaped, Phases, DeletePhases, Answers
  <2>2. UNCHANGED <<at, left, gone>> /\ Trashed' = Trashed
    BY <1>4, <2>1 DEF StageFails, DeleteRows, DeleteFails, disk, Trashed
  <2> QED
    BY <1>2, <1>4, <2>2, DiskStays
<1>5. CASE ~BeginDelete /\ RestoreFolder
  <2>1. UNCHANGED <<left, gone>>
    BY <1>5 DEF RestoreFolder
  <2>2. \A p \in Places : \A t : At(p) /\ at[p].audio = t => Kept(t)'
    BY <1>5, FolderIsBack DEF Kept, At
  <2>3. \A t \in Trashed : Kept(t)'
    BY <1>5, FolderIsBack DEF Kept, At, Trashed
  <2>4. \A t \in left : Kept(t)'
    BY <2>1 DEF Kept
  <2> QED
    BY <1>2, <1>5, <2>1, <2>2, <2>3, <2>4, NothingLostOnTheWay
<1>6. CASE ~BeginDelete /\ (RestoreFolderFails \/ Purge)
  <2>1. UNCHANGED at /\ left \subseteq left' /\ gone \subseteq gone' /\ Trashed \subseteq left' \cup gone'
    BY <1>6 DEF RestoreFolderFails, Purge, disk
  <2> QED
    BY <1>2, <1>6, <2>1, DiskStays
<1> QED
  BY <1>1, <1>3, <1>4, <1>5, <1>6 DEF DeleteStep

(* Edits. *)
LEMMA OldAudiosStay ==
  ASSUME job'.entries = job.entries, job'.trash = job.trash
  PROVE  Trashed' = Trashed /\ \A r \in job'.moved : job.entries[r].old.audio \in OldAudios(job.moved)'
BY DEF OldAudios, Trashed

LEMMA MoveAsideLosesNothing ==
  ASSUME Shaped, Working, NothingLost, NEW r \in Rows, MoveAside(r)
  PROVE  NothingLost'
<1>1. Editing /\ job.phase = "aside" /\ r \in Entries \ job.moved /\ r \in Entries
  BY AtEdit DEF MoveAside, EditPhases
<1>2. /\ job'.entries = job.entries /\ job'.moved = job.moved \cup {r} /\ job'.trash = job.trash
      /\ UNCHANGED <<left, gone>>
  BY <1>1 DEF MoveAside, Shaped, JobShaped, JobFields
<1>3. at[From(r)] = job.entries[r].old
  <2>1. From(r) \in Places /\ From(r) \notin Froms(job.moved)
    BY <1>1, EntryShaped DEF Editing, EntriesSound, Froms, Shaped, JobShaped, Entries
  <2> QED
    BY <1>1, <2>1 DEF Editing, SoFar, Tos, EntriesSound
<1>4. \A p \in Places : at'[p] = IF p = From(r) THEN None ELSE at[p]
  BY <1>1, EntryShaped DEF MoveAside, Shaped, DiskShaped
<1>5. ASSUME NEW t, t \in left \cup OldAudios(job.moved) \cup Trashed \cup {at[From(r)].audio}
      PROVE  Kept(t)'
  BY <1>2, <1>3, <1>5, OldAudiosStay DEF OldAudios, Kept
<1>6. ASSUME NEW p \in Places, NEW t, At(p), at[p].audio = t PROVE Kept(t)'
  <2>1. CASE p = From(r)
    BY <1>5, <1>6, <2>1
  <2>2. CASE p # From(r)
    BY <1>4, <1>6, <2>2 DEF Kept, At
  <2> QED
    BY <2>1, <2>2
<1> QED
  BY <1>2, <1>5, <1>6, NothingLostOnTheWay

LEMMA InstallLosesNothing ==
  ASSUME Shaped, Working, NothingLost, NEW r \in Rows, Install(r)
  PROVE  NothingLost'
<1>1. /\ Editing /\ job.phase = "install" /\ r \in Entries \ job.installed /\ r \in Entries
      /\ SoFar /\ TosFree /\ job.moved = Entries /\ job.installed \subseteq Entries
  BY AtEdit DEF Install, EditPhases, Editing, Shaped, JobShaped, Entries
<1>2. /\ job'.entries = job.entries /\ job'.moved = job.moved /\ job'.trash = job.trash
      /\ UNCHANGED <<left, gone>>
  BY <1>1 DEF Install, Shaped, JobShaped, JobFields
<1>3. at[To(r)] = None
  <2>1. To(r) \in Places /\ To(r) \notin Tos(job.installed)
    BY <1>1, EntryShaped DEF TosFree, Tos, Shaped
  <2> QED
    BY <1>1, <2>1 DEF SoFar, TosFree
<1>4. \A p \in Places : p # To(r) => at'[p] = at[p]
  BY <1>1, EntryShaped DEF Install, Shaped, DiskShaped
<1>5. \A p \in Places : \A t : At(p) /\ at[p].audio = t => Kept(t)'
  BY <1>3, <1>4 DEF Kept, At
<1>6. \A t \in left \cup OldAudios(job.moved) \cup Trashed : Kept(t)'
  BY <1>2 DEF Kept, OldAudios, Trashed
<1> QED
  BY <1>2, <1>5, <1>6, NothingLostOnTheWay

LEMMA RemovesLoseNothing ==
  ASSUME Shaped, Working, NothingLost, RemoveBackups \/ RemoveInstalled
  PROVE  NothingLost'
<1>1. Editing /\ SoFar /\ job.phase \in {"clean", "remove"}
  BY AtEdit DEF RemoveBackups, RemoveInstalled, EditPhases, Editing
<1>2. \A r \in Entries : /\ To(r) \in Places /\ Copy(r) # None
                         /\ Copy(r).audio = job.entries[r].old.audio
  BY EntryShaped DEF Shaped
<1>3. CASE RemoveBackups
  <2>1. job.moved = Entries /\ job.installed = Entries /\ job.trash = {}
    BY <1>1, <1>3, AtEdit DEF RemoveBackups, EditPhases, Editing, Running
  <2>2. UNCHANGED <<at, gone>> /\ left \subseteq left' /\ Trashed = {}
    BY <1>3, <2>1 DEF RemoveBackups, Trashed
  <2>3. \A t \in OldAudios(job.moved) : Kept(t)'
    BY <1>1, <1>2, <2>1, <2>2 DEF SoFar, OldAudios, Kept, At
  <2>4. \A p \in Places : \A t : At(p) /\ at[p].audio = t => Kept(t)'
    BY <2>2 DEF Kept, At
  <2>5. \A t \in left : Kept(t)'
    BY <2>2 DEF Kept
  <2> QED
    BY <2>2, <2>3, <2>4, <2>5, NothingLostOnTheWay
<1>4. CASE RemoveInstalled
  <2>1. job'.entries = job.entries /\ job'.moved = job.moved /\ job'.trash = job.trash
    BY <1>4, GoesTo DEF RemoveInstalled, Shaped, Phases, EditPhases, Answers
  <2>2. UNCHANGED <<left, gone>>
    BY <1>4 DEF RemoveInstalled
  <2>3. PICK kept \in SUBSET job.installed :
          \A p \in Places : at'[p] = IF \E r \in job.installed \ kept : To(r) = p THEN None ELSE at[p]
    BY <1>4 DEF RemoveInstalled
  <2>4. \A t \in left \cup OldAudios(job.moved) \cup Trashed : Kept(t)'
    BY <2>1, <2>2 DEF Kept, OldAudios, Trashed
  <2>5. ASSUME NEW p \in Places, NEW t, At(p), at[p].audio = t PROVE Kept(t)'
    <3>1. CASE \E r \in job.installed : To(r) = p
      <4>1. PICK r \in job.installed : To(r) = p
        BY <3>1
      <4>2. r \in Entries /\ r \in job.moved
        BY <1>1, <4>1 DEF SoFar, Shaped, JobShaped, Entries
      <4>3. t = job.entries[r].old.audio
        BY <1>1, <1>2, <2>5, <4>1, <4>2 DEF SoFar
      <4> QED
        BY <2>4, <4>2, <4>3 DEF OldAudios
    <3>2. CASE ~\E r \in job.installed : To(r) = p
      <4>1. at'[p] = at[p]
        BY <2>3, <3>2
      <4> QED
        BY <2>5, <4>1 DEF Kept, At
    <3> QED
      BY <3>1, <3>2
  <2> QED
    BY <2>2, <2>4, <2>5, NothingLostOnTheWay
<1> QED
  BY <1>3, <1>4

LEMMA RestoreLosesNothing ==
  ASSUME Shaped, Working, NothingLost, NEW r \in Rows, Restore(r)
  PROVE  NothingLost'
<1>1. /\ Editing /\ Back /\ EntriesSound /\ r \in job.moved /\ r \in Entries
      /\ job.moved \subseteq Entries
  BY AtEdit DEF Restore, EditPhases, Editing, Shaped, JobShaped, Entries
<1>2. /\ job'.entries = job.entries /\ job'.moved = job.moved \ {r} /\ job'.trash = job.trash
      /\ UNCHANGED <<left, gone>>
  BY AfterRestoring DEF Restore
<1>3. \A p \in Places : at'[p] = IF p = From(r) THEN job.entries[r].old ELSE at[p]
  BY <1>1, EntryShaped DEF Restore, Shaped, DiskShaped
<1>4. \A k \in Entries : /\ From(k) \in Places /\ job.entries[k].old # None
                         /\ Copy(k).audio = job.entries[k].old.audio
  BY EntryShaped, NoneAssumption DEF Shaped
<1>5. ASSUME NEW k \in Entries, NEW t, t = job.entries[k].old.audio PROVE t \in gone' \/ Kept(t)'
  <2>1. CASE k = r
    <3>1. at'[From(r)] = job.entries[r].old
      BY <1>1, <1>3, <1>4
    <3> QED
      BY <1>1, <1>4, <1>5, <2>1, <3>1 DEF Kept, At
  <2>2. CASE k \in job.moved /\ k # r
    BY <1>2, <1>5, <2>2, OldAudiosStay DEF Kept
  <2>3. CASE k \notin job.moved
    <3>1. From(k) # From(r)
      BY <1>1, <2>3 DEF EntriesSound
    <3>2. at[From(k)] = job.entries[k].old \/ t \in gone
      BY <1>1, <1>5, <2>3 DEF Back
    <3>3. CASE at[From(k)] = job.entries[k].old
      <4>1. at'[From(k)] = job.entries[k].old
        BY <1>3, <1>4, <3>1, <3>3
      <4> QED
        BY <1>4, <1>5, <4>1 DEF Kept, At
    <3> QED
      BY <1>2, <3>2, <3>3
  <2> QED
    BY <2>1, <2>2, <2>3
<1>6. ASSUME NEW p \in Places, NEW t, At(p), at[p].audio = t PROVE t \in gone' \/ Kept(t)'
  <2>1. CASE p = From(r)
    <3>1. PICK k \in Entries : at[p] = Copy(k)
      BY <1>1, <1>6, <2>1 DEF Back, At
    <3> QED
      BY <1>4, <1>5, <1>6, <3>1
  <2>2. CASE p # From(r)
    BY <1>3, <1>6, <2>2 DEF Kept, At
  <2> QED
    BY <2>1, <2>2
<1>7. \A t \in OldAudios(job.moved) : t \in gone' \/ Kept(t)'
  BY <1>1, <1>5 DEF OldAudios
<1>8. \A t \in left \cup Trashed : Kept(t)'
  BY <1>2 DEF Kept, Trashed
<1> QED
  BY <1>2, <1>6, <1>7, <1>8, NothingLostOnTheWay

LEMMA RestoreFailsLosesNothing ==
  ASSUME Shaped, Working, NothingLost, NEW r \in Rows, RestoreFails(r)
  PROVE  NothingLost'
<1>1. /\ job'.entries = job.entries /\ job'.moved = job.moved \ {r} /\ job'.trash = job.trash
  BY AfterRestoring DEF RestoreFails
<1>2. /\ UNCHANGED at /\ left \subseteq left' /\ gone' = gone \cup OldAudios({r})
  BY DEF RestoreFails
<1>3. OldAudios(job.moved) \subseteq OldAudios(job.moved)' \cup gone' /\ Trashed' = Trashed
  BY <1>1, <1>2 DEF OldAudios, Trashed
<1> QED
  BY <1>2, <1>3, DiskStays

LEMMA EditLosesNothing ==
  ASSUME Shaped, Queued, Working, NothingLost, EditStep
  PROVE  NothingLost'
<1>1. CASE BeginEdit
  <2>1. job.phase \notin EditPhases \cup DeletePhases
    BY <1>1, PhasesAre DEF BeginEdit, Running
  <2>2. UNCHANGED <<at, left, gone>>
    BY <1>1 DEF BeginEdit, disk
  <2> QED
    BY <2>1, <2>2, InHand, DiskStays
<1>2. CASE CheckDestinations \/ MoveFails \/ CommitRefused \/ CommitFails \/ CommitAlbum
           \/ \E r \in Rows, a \in Albums : CommitTrack(r, a)
  <2>1. \E phase \in {"aside", "refused", "remove", "clean"} : GoTo(phase)
    BY <1>2 DEF CheckDestinations, MoveFails, CommitRefused, CommitFails, CommitAlbum, CommitTrack
  <2>2. job'.entries = job.entries /\ job'.moved = job.moved /\ job'.trash = job.trash
    BY <2>1, GoesTo DEF Shaped, Phases, EditPhases, Answers
  <2>3. UNCHANGED <<at, left, gone>>
    BY <1>2 DEF CheckDestinations, MoveFails, CommitRefused, CommitFails, CommitAlbum, CommitTrack,
       disk
  <2>4. OldAudios(job.moved)' = OldAudios(job.moved) /\ Trashed' = Trashed
    BY <2>2 DEF OldAudios, Trashed
  <2> QED
    BY <2>3, <2>4, DiskStays
<1> QED
  BY <1>1, <1>2, MoveAsideLosesNothing, InstallLosesNothing, RemovesLoseNothing, RestoreLosesNothing,
     RestoreFailsLosesNothing DEF EditStep

LEMMA StutterLosesNothing == ASSUME NothingLost, UNCHANGED vars PROVE NothingLost'
<1>1. UNCHANGED <<at, left, job, gone>>
  BY DEF vars, disk
<1>2. OldAudios(job.moved)' = OldAudios(job.moved) /\ Trashed' = Trashed
  BY <1>1 DEF OldAudios, Trashed
<1> QED
  BY <1>1, <1>2, DiskStays

LEMMA StepsLoseNothing ==
  ASSUME Shaped, Queued, Working, NothingLost, [Next]_vars
  PROVE  NothingLost'
BY EditLosesNothing, ScanLosesNothing, DeleteLosesNothing, AskAndCheckLoseNothing, HandsLoseNothing,
   RestartLosesNothing, StutterLosesNothing DEF Next, Step

-----------------------------------------------------------------------------
(* The library in order that the service starts with. *)
LEMMA InitShaped == ASSUME Init PROVE Shaped /\ Queued /\ Working /\ NothingLost
<1> DEFINE files == {p \in Places : at[p] # None}
           dirs == {p[1] : p \in files}
           rowOf == CHOOSE f \in Injection(files, Rows) : TRUE
           albumOf == CHOOSE f \in Injection(dirs, Albums) : TRUE
           rowAt(p) == [place |-> p, album |-> albumOf[p[1]], shown |-> TRUE,
                        tags |-> at[p], stat |-> at[p]]
           placeOf(r) == CHOOSE p \in files : rowOf[p] = r
           dirOf(a) == CHOOSE d \in dirs : albumOf[d] = a
<1>1. /\ rowOf \in [files -> Rows] /\ \A p, q \in files : rowOf[p] = rowOf[q] => p = q
      /\ albumOf \in [dirs -> Albums] /\ \A d, e \in dirs : albumOf[d] = albumOf[e] => d = e
  <2>1. Injection(files, Rows) # {} /\ Injection(dirs, Albums) # {}
    BY DEF Init, ExistsInjection
  <2>2. rowOf \in Injection(files, Rows) /\ albumOf \in Injection(dirs, Albums)
    BY <2>1
  <2> QED
    BY <2>2 DEF Injection, IsInjective
<1>2. DiskShaped /\ \A p \in files : p \in Places /\ at[p] \in File /\ p[1] \in dirs /\ p[1] \in Dirs
  BY DEF Init, DiskShaped, Places
<1>3. /\ rows = [r \in Rows |-> IF \E p \in files : rowOf[p] = r THEN rowAt(placeOf(r)) ELSE None]
      /\ albums = [a \in Albums |-> IF \E d \in dirs : albumOf[d] = a THEN dirOf(a) ELSE None]
  BY DEF Init
<1>4. ASSUME NEW r \in Rows, \E p \in files : rowOf[p] = r
      PROVE  placeOf(r) \in files /\ rowOf[placeOf(r)] = r
  BY <1>4
<1>5. ASSUME NEW a \in Albums, \E d \in dirs : albumOf[d] = a
      PROVE  dirOf(a) \in dirs /\ dirOf(a) \in Dirs
  BY <1>2, <1>5
<1>6. \A p \in files : rowAt(p) \in Row /\ rowAt(p).place = p /\ rowAt(p).album = albumOf[p[1]]
  BY <1>1, <1>2 DEF Row
<1> HIDE DEF files, dirs, rowOf, albumOf, rowAt, placeOf, dirOf
<1>7. \A r \in Rows : rows[r] # None =>
        /\ rows[r] \in Row /\ rows[r].place \in files /\ rowOf[rows[r].place] = r
        /\ rows[r].album = albumOf[rows[r].place[1]]
  BY <1>3, <1>4, <1>6
<1>8. \A a \in Albums : /\ albums[a] \in Dirs \cup {None}
                        /\ (\E d \in dirs : albumOf[d] = a) => albums[a] # None
  BY <1>3, <1>5, ConstantsAssumption
<1>9. RowsShaped
  <2>1. rows \in [Rows -> Row \cup {None}] /\ albums \in [Albums -> Dirs \cup {None}]
    BY <1>3, <1>7, <1>8
  <2>2. \A r \in Rows : rows[r] # None => albums[rows[r].album] # None
    BY <1>1, <1>2, <1>7, <1>8
  <2>3. \A r, s \in Rows : rows[r] # None /\ rows[s] # None /\ r # s => rows[r].place # rows[s].place
    BY <1>7
  <2> QED
    BY <2>1, <2>2, <2>3 DEF RowsShaped
<1>10. Shaped
  BY <1>2, <1>9, FreeShaped, ConstantsAssumption
     DEF Init, Shaped, QueueShaped, CheckShaped, HistoryShaped, Unchecked, Idle
<1>11. Queued
  BY PhasesAre DEF Init, Queued, Free
<1>12. Working
  BY PhasesAre DEF Init, Working, Free
<1>13. NothingLost
  BY DEF Init, NothingLost, Kept, At
<1> QED
  BY <1>10, <1>11, <1>12, <1>13

(* What the properties say follows from where the operation is. *)
LEMMA AtomicAtTheEnd == ASSUME Shaped, Queued, Working PROVE EditsAreAtomic /\ ScanHeals
<1>1. job.phase \in {"ok", "refused"} => Ended
  BY DEF Working, Answers
<1>2. EditsAreAtomic
  BY <1>1 DEF Ended, Moved, RowsBefore, Tos, EditsAreAtomic
<1>3. ScanHeals
  BY <1>1 DEF Ended, Listed, ScanHeals
<1> QED
  BY <1>2, <1>3

LEMMA AllHolds == Spec => [](Shaped /\ Queued /\ Working /\ NothingLost)
<1>1. Init => Shaped /\ Queued /\ Working /\ NothingLost
  BY InitShaped
<1>2. Shaped /\ Queued /\ Working /\ NothingLost /\ [Next]_vars
        => (Shaped /\ Queued /\ Working /\ NothingLost)'
  BY StepsWork, StutterWorks, StepsLoseNothing
<1> QED
  BY <1>1, <1>2, PTL DEF Spec

\* The variables keep their shape: a row of a track always has its album, and no two
\* rows of tracks one path, whatever edits, scans and deletions commit.
THEOREM TypeCorrect == Spec => []TypeOK
<1>1. Shaped => TypeOK
  BY ShapedIsTypeOK
<1>. QED BY <1>1, AllHolds, PTL

\* An edit of a track or of an album, and a deletion, is all or nothing: "ok" with every
\* file and row where it was to go, "refused" with every file and row as it was found
\* (the rollbacks of music-metadata-edit-service.js, music-album-metadata-edit-service.js
\* and content-delete-service.js).
THEOREM AtomicEdits == Spec => []EditsAreAtomic
<1>1. Shaped /\ Queued /\ Working => EditsAreAtomic
  BY AtomicAtTheEnd
<1>. QED BY <1>1, AllHolds, PTL

\* No edit, scan, deletion, fault or stop, in whatever order, loses a recording that no
\* user deleted, unless the answer says contentPreserved: false.
THEOREM NothingIsLost == Spec => []NothingLost
<1>. QED BY AllHolds, PTL

\* A scan that no change by hand, fault or check disturbed ends with every shown row on
\* a file and every file in its place on a shown row (processSupportedFile,
\* markMissingTracks).
THEOREM ScansHeal == Spec => []ScanHeals
<1>1. Shaped /\ Queued /\ Working => ScanHeals
  BY AtomicAtTheEnd
<1>. QED BY <1>1, AllHolds, PTL
=============================================================================
