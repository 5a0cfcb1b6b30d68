----------------------------- MODULE MovieLibraryProofs -----------------------------
(* MovieLibrary for any number of uploads, deletions, extensions and faults: a copy  *)
(* is in one place, whatever is displaced, staged, restored, taken away or put back  *)
(* by requests that share a folder without a lock; a request that nothing else meets *)
(* is all or nothing; and a check that nothing else meets makes rows and folder      *)
(* agree.                                                                            *)
(*                                                                                   *)
(* None of the three is inductive. An upload that installs its copy must know that   *)
(* the copy is nowhere yet, and that no row makes the user put it back (Unmade). A   *)
(* request that is alone must know what it has done so far to what it found and what *)
(* has failed on the way (SoFar), that it is the only one in flight (Lonely) and that *)
(* nothing else is set aside (Unheld).                                               *)
EXTENDS MovieLibrary, TLAPS

Types ==
  /\ folder \in Contents
  /\ rows \in [Rows -> Row]
  /\ ext \in [Copies -> Extensions]
  /\ uploads \in [Uploads -> Upload]
  /\ deletes \in [Deletes -> Delete]
  /\ check \in Check
  /\ faults \in 0 .. MaxFaults
  /\ alone.who \in Uploads \cup Deletes \cup {Checker, Nobody}

Apart ==
  \A c \in Copies :
    /\ Held(c) => folder # c
    /\ \A u, v \in Uploads : HeldByUpload(u, c) /\ HeldByUpload(v, c) => u = v
    /\ \A d, e \in Deletes : HeldByDelete(d, c) /\ HeldByDelete(e, c) => d = e
    /\ ~\E u \in Uploads, d \in Deletes : HeldByUpload(u, c) /\ HeldByDelete(d, c)

(* The phases of an upload before its copy is in the folder.                        *)
Waiting == {"new", "stat", "present", "absent", "staged", "displace", "install"}

(* No row was ever written for copy c.                                              *)
Unlisted(c) == \A i \in Rows : rows[i].by = c => rows[i].status = "none"

Unmade ==
  \A u \in Uploads : uploads[u].phase \in Waiting => folder # u /\ ~Held(u) /\ Unlisted(u)

Inv == Types /\ Apart /\ Unmade

LEMMA InvGivesTypeOK == Inv => TypeOK
BY DEF Inv, Types, Apart, TypeOK

LEMMA InitInv == ASSUME Init PROVE Inv
<1> USE ConstantsAssumption
<1>1. Types
  BY DEF Init, Types, Contents, Copies, Rows, Row, Upload, Delete, Check, IdleCheck, Stopped,
         UploadSteps, UploadAnswers, DeleteSteps, DeleteAnswers
<1>2. \A c \in Copies : ~Held(c)
  BY DEF Init, Copies, Held, HeldByUpload, HeldByDelete
<1>3. Apart
  BY <1>2 DEF Apart, Held
<1>4. \A u \in Uploads : folder # u => Unlisted(u)
  BY DEF Init, Unlisted, Rows, Copies
<1>5. \A u \in Uploads : u \in Copies /\ folder # u
  BY DEF Init, Copies
<1>6. Unmade
  BY <1>2, <1>4, <1>5 DEF Unmade
<1> QED
  BY <1>1, <1>3, <1>6 DEF Inv

(* Most steps move no copy, except out of the library, and list no copy but that of  *)
(* an upload that is over.                                                           *)
NothingMoves ==
  /\ folder' \in {folder, NoDir, Bare}
  /\ \A u \in Uploads : uploads'[u].displaced \in {uploads[u].displaced, NoDir}
  /\ \A d \in Deletes : deletes'[d].staged \in {deletes[d].staged, NoDir}

NothingListed ==
  /\ \A u \in Uploads : uploads'[u].phase \in Waiting => uploads[u].phase \in Waiting
  /\ \A i \in Rows :
       \/ rows'[i].by = rows[i].by /\ (rows[i].status = "none" => rows'[i].status = "none")
       \/ rows'[i].by \in Uploads => uploads'[rows'[i].by].phase \notin Waiting

LEMMA NothingMovesIsApart ==
  ASSUME Inv, NothingMoves
  PROVE  Apart' /\ \A c \in Copies : (Held(c)' => Held(c)) /\ (folder' = c => folder = c)
<1> USE ConstantsAssumption
<1>1. ASSUME NEW c \in Copies, NEW u \in Uploads, HeldByUpload(u, c)'
      PROVE  HeldByUpload(u, c)
  BY <1>1 DEF NothingMoves, HeldByUpload
<1>2. ASSUME NEW c \in Copies, NEW d \in Deletes, HeldByDelete(d, c)'
      PROVE  HeldByDelete(d, c)
  BY <1>2 DEF NothingMoves, HeldByDelete
<1>3. \A c \in Copies : Held(c)' => Held(c)
  BY <1>1, <1>2 DEF Held
<1>4. \A c \in Copies : folder' = c => folder = c
  BY DEF NothingMoves
<1>5. Apart
  BY DEF Inv
<1>6. Apart'
  BY <1>1, <1>2, <1>3, <1>4, <1>5 DEF Apart
<1> QED
  BY <1>3, <1>4, <1>6

LEMMA NothingListedIsUnmade ==
  ASSUME Inv, NothingListed,
         \A u \in Uploads : uploads[u].phase \in Waiting =>
           (Held(u)' => Held(u)) /\ (folder' = u => folder = u)
  PROVE  Unmade'
<1> SUFFICES ASSUME NEW u \in Uploads, uploads'[u].phase \in Waiting
             PROVE  folder' # u /\ ~Held(u)' /\ Unlisted(u)'
  BY DEF Unmade
<1>1. uploads[u].phase \in Waiting
  BY DEF NothingListed
<1>2. folder # u /\ ~Held(u) /\ Unlisted(u)
  BY <1>1 DEF Inv, Unmade
<1>3. Unlisted(u)'
  BY <1>2 DEF Unlisted, NothingListed
<1> QED
  BY <1>1, <1>2, <1>3

LEMMA Settle ==
  ASSUME Inv, Types', NothingMoves, NothingListed
  PROVE  Inv'
<1>1. Apart' /\ \A u \in Uploads : (Held(u)' => Held(u)) /\ (folder' = u => folder = u)
  BY NothingMovesIsApart DEF Copies
<1> QED
  BY <1>1, NothingListedIsUnmade DEF Inv

-----------------------------------------------------------------------------------
(* What the two ways in which an upload goes on do to its record.                    *)
UploadsKept(u) == \A v \in Uploads \ {u} : uploads'[v] = uploads[v]
DeletesKept(d) == \A e \in Deletes \ {d} : deletes'[e] = deletes[e]

LEMMA GoToIs ==
  ASSUME Inv, NEW u \in Uploads, NEW p \in UploadSteps \cup UploadAnswers, GoTo(u, p)
  PROVE  /\ uploads' \in [Uploads -> Upload] /\ UploadsKept(u)
         /\ uploads'[u].displaced = uploads[u].displaced /\ uploads'[u].phase = p
BY DEF Inv, Types, GoTo, Upload, UploadsKept

LEMMA AnswerIs ==
  ASSUME Inv, NEW u \in Uploads, NEW p \in UploadAnswers, Answer(u, p)
  PROVE  /\ uploads' \in [Uploads -> Upload] /\ UploadsKept(u)
         /\ uploads'[u].displaced = NoDir /\ uploads'[u].phase = p
         /\ alone'.who = Nobody
BY DEF Inv, Types, Answer, Upload, UploadsKept, Stopped, Contents, Copies

LEMMA RespondIs ==
  ASSUME Inv, NEW d \in Deletes, NEW p \in DeleteAnswers, Respond(d, p)
  PROVE  /\ deletes' \in [Deletes -> Delete] /\ DeletesKept(d)
         /\ deletes'[d].staged = NoDir /\ alone'.who = Nobody
BY DEF Inv, Types, Respond, Delete, DeletesKept, Stopped, Contents

LEMMA FaultIs ==
  ASSUME Inv, Fault
  PROVE  faults' \in 0 .. MaxFaults
BY ConstantsAssumption DEF Inv, Types, Fault

LEMMA BeginIs ==
  ASSUME Inv, NEW w \in Uploads \cup Deletes \cup {Checker}, Begin(w)
  PROVE  alone'.who \in Uploads \cup Deletes \cup {Checker, Nobody}
BY DEF Inv, Types, Begin, Stopped

(* An upload that goes on or answers and leaves the folder and the deletions alone.  *)
LEMMA UploadSettles ==
  ASSUME Inv, NEW u \in Uploads, uploads' \in [Uploads -> Upload], UploadsKept(u),
         uploads'[u].displaced \in {uploads[u].displaced, NoDir},
         uploads'[u].phase \in Waiting => uploads[u].phase \in Waiting,
         UNCHANGED <<folder, ext, deletes, check>>,
         rows' \in [Rows -> Row],
         \A i \in Rows :
           \/ rows'[i].by = rows[i].by /\ (rows[i].status = "none" => rows'[i].status = "none")
           \/ rows'[i].by = u /\ uploads'[u].phase \notin Waiting,
         faults' \in 0 .. MaxFaults,
         alone'.who \in Uploads \cup Deletes \cup {Checker, Nobody}
  PROVE  Inv'
<1>1. Types'
  BY DEF Inv, Types
<1>2. NothingMoves
  BY DEF NothingMoves, UploadsKept
<1>3. NothingListed
  BY DEF NothingListed, UploadsKept
<1> QED
  BY <1>1, <1>2, <1>3, Settle

LEMMA StartUploadIs ==
  ASSUME Inv, NEW u \in Uploads, StartUpload(u)
  PROVE  /\ uploads' \in [Uploads -> Upload] /\ UploadsKept(u)
         /\ uploads'[u].displaced = uploads[u].displaced
<1>1. \/ \E i \in Rows : uploads' = [uploads EXCEPT ![u].phase = "stat", ![u].row = i,
                                                    ![u].ext = rows[i].ext]
      \/ \E i \in Rows : uploads' = [uploads EXCEPT ![u].phase = "staged", ![u].row = i]
      \/ GoTo(u, "staged")
  BY DEF StartUpload
<1>2. CASE GoTo(u, "staged")
  BY <1>2, GoToIs DEF UploadSteps
<1>3. ASSUME NEW i \in Rows, uploads' = [uploads EXCEPT ![u].phase = "staged", ![u].row = i]
      PROVE  uploads' \in [Uploads -> Upload] /\ UploadsKept(u)
             /\ uploads'[u].displaced = uploads[u].displaced
  BY <1>3, ZenonT(60) DEF Inv, Types, Upload, UploadSteps, UploadsKept
<1>4. ASSUME NEW i \in Rows, uploads' = [uploads EXCEPT ![u].phase = "stat", ![u].row = i,
                                                        ![u].ext = rows[i].ext]
      PROVE  uploads' \in [Uploads -> Upload] /\ UploadsKept(u)
             /\ uploads'[u].displaced = uploads[u].displaced
  <2>1. rows[i].ext \in Extensions
    BY DEF Inv, Types, Row
  <2> QED
    BY <1>4, <2>1, ZenonT(60) DEF Inv, Types, Upload, UploadSteps, UploadsKept
<1> QED
  BY <1>1, <1>2, <1>3, <1>4

LEMMA StartUploadInv ==
  ASSUME Inv, NEW u \in Uploads, StartUpload(u)
  PROVE  Inv'
<1>1. /\ uploads' \in [Uploads -> Upload] /\ UploadsKept(u)
      /\ uploads'[u].displaced = uploads[u].displaced
  BY StartUploadIs
<1>2. uploads[u].phase \in Waiting
  BY DEF StartUpload, Waiting
<1>3. alone'.who \in Uploads \cup Deletes \cup {Checker, Nobody}
  BY BeginIs DEF StartUpload
<1>4. UNCHANGED <<folder, rows, ext, deletes, check, faults>>
  BY DEF StartUpload
<1> QED
  BY <1>1, <1>2, <1>3, <1>4, UploadSettles DEF Inv, Types

LEMMA StatDuplicateInv ==
  ASSUME Inv, NEW u \in Uploads, StatDuplicate(u)
  PROVE  Inv'
<1>1. /\ uploads' \in [Uploads -> Upload] /\ UploadsKept(u)
      /\ uploads'[u].displaced = uploads[u].displaced
  BY ZenonT(60) DEF Inv, Types, StatDuplicate, Upload, UploadSteps, UploadsKept, Copies
<1>2. uploads[u].phase \in Waiting
  BY DEF StatDuplicate, Waiting
<1>3. UNCHANGED <<folder, rows, ext, deletes, check, faults, alone>>
  BY DEF StatDuplicate
<1> QED
  BY <1>1, <1>2, <1>3, UploadSettles DEF Inv, Types

LEMMA RefuseDuplicateInv ==
  ASSUME Inv, NEW u \in Uploads, RefuseDuplicate(u)
  PROVE  Inv'
<1>1. Answer(u, "refused") /\ UNCHANGED <<folder, rows, ext, deletes, check, faults>>
  BY DEF RefuseDuplicate
<1>2. /\ uploads' \in [Uploads -> Upload] /\ UploadsKept(u)
      /\ uploads'[u].displaced = NoDir /\ uploads'[u].phase = "refused" /\ alone'.who = Nobody
  BY <1>1, AnswerIs DEF UploadAnswers
<1> QED
  BY <1>1, <1>2, UploadSettles DEF Inv, Types, Waiting

LEMMA MarkedOfflineIs ==
  ASSUME Inv, NEW i
  PROVE  /\ MarkedOffline(i) \in [Rows -> Row]
         /\ \A j \in Rows : /\ MarkedOffline(i)[j].by = rows[j].by
                            /\ rows[j].status = "none" => MarkedOffline(i)[j].status = "none"
BY DEF Inv, Types, MarkedOffline, Row, Exists

LEMMA MarkDuplicateMissingInv ==
  ASSUME Inv, NEW u \in Uploads, MarkDuplicateMissing(u)
  PROVE  Inv'
<1>1. /\ uploads' \in [Uploads -> Upload] /\ UploadsKept(u)
      /\ uploads'[u].displaced = uploads[u].displaced
  BY GoToIs DEF MarkDuplicateMissing, UploadSteps
<1>2. uploads[u].phase \in Waiting
  BY DEF MarkDuplicateMissing, Waiting
<1>3. rows' = MarkedOffline(uploads[u].row) /\ UNCHANGED <<folder, ext, deletes, check, faults, alone>>
  BY DEF MarkDuplicateMissing
<1>4. /\ rows' \in [Rows -> Row]
      /\ \A j \in Rows : /\ rows'[j].by = rows[j].by
                         /\ rows[j].status = "none" => rows'[j].status = "none"
  BY <1>3, MarkedOfflineIs
<1> QED
  BY <1>1, <1>2, <1>3, <1>4, UploadSettles DEF Inv, Types

LEMMA FailEarlyInv ==
  ASSUME Inv, NEW u \in Uploads, FailEarly(u)
  PROVE  Inv'
<1>1. Answer(u, "failed") /\ UNCHANGED <<folder, rows, ext, deletes, check>>
  BY DEF FailEarly
<1>2. /\ uploads' \in [Uploads -> Upload] /\ UploadsKept(u)
      /\ uploads'[u].displaced = NoDir /\ uploads'[u].phase = "failed" /\ alone'.who = Nobody
  BY <1>1, AnswerIs DEF UploadAnswers
<1>3. faults' \in 0 .. MaxFaults
  BY FaultIs DEF FailEarly
<1> QED
  BY <1>1, <1>2, <1>3, UploadSettles DEF Inv, Types, Waiting

LEMMA CheckFolderInv ==
  ASSUME Inv, NEW u \in Uploads, CheckFolder(u)
  PROVE  Inv'
<1>1. UNCHANGED <<folder, rows, ext, deletes, check, faults>> /\ uploads[u].phase \in Waiting
  BY DEF CheckFolder, Waiting
<1>2. \/ GoTo(u, "install") /\ UNCHANGED alone
      \/ GoTo(u, "displace") /\ UNCHANGED alone
      \/ Answer(u, "refused")
  BY DEF CheckFolder
<1>3. /\ uploads' \in [Uploads -> Upload] /\ UploadsKept(u)
      /\ uploads'[u].displaced \in {uploads[u].displaced, NoDir}
      /\ alone'.who \in Uploads \cup Deletes \cup {Checker, Nobody}
  <2>1. CASE Answer(u, "refused")
    BY <2>1, AnswerIs DEF UploadAnswers
  <2>2. CASE GoTo(u, "install") /\ UNCHANGED alone
    BY <2>2, GoToIs DEF UploadSteps, Inv, Types
  <2>3. CASE GoTo(u, "displace") /\ UNCHANGED alone
    BY <2>3, GoToIs DEF UploadSteps, Inv, Types
  <2> QED
    BY <1>2, <2>1, <2>2, <2>3
<1> QED
  BY <1>1, <1>3, UploadSettles DEF Inv, Types

LEMMA VerifyInstalledInv ==
  ASSUME Inv, NEW u \in Uploads, VerifyInstalled(u)
  PROVE  Inv'
<1>1. UNCHANGED <<folder, rows, ext, deletes, check>>
  BY DEF VerifyInstalled
<1>2. \/ GoTo(u, "save") /\ UNCHANGED alone
      \/ Answer(u, "failed")
  BY DEF VerifyInstalled
<1>3. /\ uploads' \in [Uploads -> Upload] /\ UploadsKept(u)
      /\ uploads'[u].displaced \in {uploads[u].displaced, NoDir}
      /\ uploads'[u].phase \notin Waiting
      /\ alone'.who \in Uploads \cup Deletes \cup {Checker, Nobody}
  <2>1. CASE Answer(u, "failed")
    BY <2>1, AnswerIs DEF UploadAnswers, Waiting
  <2>2. CASE GoTo(u, "save") /\ UNCHANGED alone
    BY <2>2, GoToIs DEF UploadSteps, Inv, Types, Waiting
  <2> QED
    BY <1>2, <2>1, <2>2
<1>4. faults' \in 0 .. MaxFaults
  BY FaultIs DEF VerifyInstalled, Inv, Types
<1> QED
  BY <1>1, <1>3, <1>4, UploadSettles DEF Inv, Types

LEMMA SaveInv ==
  ASSUME Inv, NEW u \in Uploads, Save(u)
  PROVE  Inv'
<1> DEFINE i == IF uploads[u].row = NoRow THEN u ELSE uploads[u].row
<1> DEFINE saved == [status |-> "available", ext |-> ext[u], by |-> u]
<1>1. Answer(u, "created") /\ UNCHANGED <<folder, ext, deletes, check, faults>>
      /\ rows' = [rows EXCEPT ![i] = saved]
  BY DEF Save
<1>2. /\ uploads' \in [Uploads -> Upload] /\ UploadsKept(u)
      /\ uploads'[u].displaced = NoDir /\ uploads'[u].phase = "created" /\ alone'.who = Nobody
  BY <1>1, AnswerIs DEF UploadAnswers
<1>3. saved \in Row /\ saved.by = u
  BY DEF Inv, Types, Row, Copies
<1> HIDE DEF i, saved
<1>4. rows' \in [Rows -> Row] /\ \A j \in Rows : rows'[j] = rows[j] \/ rows'[j].by = u
  BY <1>1, <1>3 DEF Inv, Types
<1> QED
  BY <1>1, <1>2, <1>4, UploadSettles DEF Inv, Types, Waiting

LEMMA SaveFailsInv ==
  ASSUME Inv, NEW u \in Uploads, SaveFails(u)
  PROVE  Inv'
<1>1. Answer(u, "preserved") /\ UNCHANGED <<folder, rows, ext, deletes, check>>
  BY DEF SaveFails
<1>2. /\ uploads' \in [Uploads -> Upload] /\ UploadsKept(u)
      /\ uploads'[u].displaced = NoDir /\ uploads'[u].phase = "preserved" /\ alone'.who = Nobody
  BY <1>1, AnswerIs DEF UploadAnswers
<1>3. faults' \in 0 .. MaxFaults
  BY FaultIs DEF SaveFails, Inv, Types
<1> QED
  BY <1>1, <1>2, <1>3, UploadSettles DEF Inv, Types, Waiting

LEMMA DisplaceInv ==
  ASSUME Inv, NEW u \in Uploads, Displace(u)
  PROVE  Inv'
<1>1. CASE folder = NoDir
  <2>1. Answer(u, "failed") /\ UNCHANGED <<folder, rows, ext, deletes, check, faults>>
    BY <1>1 DEF Displace
  <2>2. /\ uploads' \in [Uploads -> Upload] /\ UploadsKept(u)
        /\ uploads'[u].displaced = NoDir /\ uploads'[u].phase = "failed" /\ alone'.who = Nobody
    BY <2>1, AnswerIs DEF UploadAnswers
  <2> QED
    BY <2>1, <2>2, UploadSettles DEF Inv, Types, Waiting
<1>2. CASE folder # NoDir
  <2>1. /\ folder' = NoDir /\ UNCHANGED <<rows, ext, deletes, check, faults, alone>>
        /\ uploads' = [uploads EXCEPT ![u].phase = "install", ![u].displaced = folder]
    BY <1>2 DEF Displace, AfterRename
  <2>2. /\ uploads' \in [Uploads -> Upload] /\ UploadsKept(u)
        /\ uploads'[u].displaced = folder /\ uploads[u].phase \in Waiting
    BY <2>1, ZenonT(60) DEF Inv, Types, Upload, UploadSteps, UploadsKept, Displace, Waiting
  <2>3. Types'
    BY <2>1, <2>2 DEF Inv, Types, Contents
  <2>4. \A c \in Copies : c # NoDir
    BY ConstantsAssumption
  <2>5. \A v \in Uploads, c \in Copies :
          HeldByUpload(v, c)' => (HeldByUpload(v, c) /\ v # u) \/ (v = u /\ c = folder)
    BY <2>2 DEF HeldByUpload, UploadsKept
  <2>6. \A d \in Deletes, c \in Copies : HeldByDelete(d, c)' <=> HeldByDelete(d, c)
    BY <2>1 DEF HeldByDelete
  <2>7. Apart'
    BY <2>1, <2>4, <2>5, <2>6 DEF Inv, Apart, Held
  <2>8. \A v \in Uploads : uploads[v].phase \in Waiting =>
          (Held(v)' => Held(v)) /\ (folder' = v => folder = v)
    BY <2>1, <2>4, <2>5, <2>6 DEF Inv, Unmade, Held, Copies
  <2>9. NothingListed
    BY <2>1, <2>2 DEF NothingListed, UploadsKept
  <2> QED
    BY <2>3, <2>7, <2>8, <2>9, NothingListedIsUnmade DEF Inv
<1> QED
  BY <1>1, <1>2

LEMMA InstallInv ==
  ASSUME Inv, NEW u \in Uploads, Install(u)
  PROVE  Inv'
<1>1. /\ folder' = u /\ UNCHANGED <<rows, ext, deletes, check, faults, alone>>
      /\ uploads' = [uploads EXCEPT ![u].phase = "verify", ![u].displaced = NoDir]
  BY DEF Install
<1>2. /\ uploads' \in [Uploads -> Upload] /\ UploadsKept(u)
      /\ uploads'[u].displaced = NoDir /\ uploads'[u].phase = "verify"
  BY <1>1 DEF Inv, Types, Upload, UploadSteps, UploadsKept, Contents
<1>3. ~Held(u)
  BY DEF Install, Inv, Unmade, Waiting
<1>4. Types'
  BY <1>1, <1>2 DEF Inv, Types, Contents, Copies
<1>5. \A v \in Uploads, c \in Copies : HeldByUpload(v, c)' => HeldByUpload(v, c)
  BY <1>2, ConstantsAssumption DEF HeldByUpload, UploadsKept
<1>6. \A d \in Deletes, c \in Copies : HeldByDelete(d, c)' => HeldByDelete(d, c)
  BY <1>1 DEF HeldByDelete
<1>7. \A c \in Copies : Held(c)' => Held(c)
  BY <1>5, <1>6 DEF Held
<1>8. Apart'
  BY <1>1, <1>3, <1>5, <1>6, <1>7 DEF Inv, Apart
<1>9. Unmade'
  <2> SUFFICES ASSUME NEW v \in Uploads, uploads'[v].phase \in Waiting
               PROVE  folder' # v /\ ~Held(v)' /\ Unlisted(v)'
    BY DEF Unmade
  <2>1. v # u /\ uploads[v].phase \in Waiting
    BY <1>2 DEF UploadsKept, Waiting
  <2>2. ~Held(v) /\ Unlisted(v)
    BY <2>1 DEF Inv, Unmade
  <2> QED
    BY <1>1, <1>7, <2>1, <2>2 DEF Unlisted, Copies
<1> QED
  BY <1>4, <1>8, <1>9 DEF Inv

LEMMA InstallFailsInv ==
  ASSUME Inv, NEW u \in Uploads, InstallFails(u)
  PROVE  Inv'
<1>1. UNCHANGED <<folder, rows, ext, deletes, check>>
  BY DEF InstallFails
<1>2. \/ GoTo(u, "undo") /\ UNCHANGED alone
      \/ Answer(u, "failed")
  BY DEF InstallFails
<1>3. /\ uploads' \in [Uploads -> Upload] /\ UploadsKept(u)
      /\ uploads'[u].displaced \in {uploads[u].displaced, NoDir}
      /\ uploads'[u].phase \notin Waiting
      /\ alone'.who \in Uploads \cup Deletes \cup {Checker, Nobody}
  <2>1. CASE Answer(u, "failed")
    BY <2>1, AnswerIs DEF UploadAnswers, Waiting
  <2>2. CASE GoTo(u, "undo") /\ UNCHANGED alone
    BY <2>2, GoToIs DEF UploadSteps, Inv, Types, Waiting
  <2> QED
    BY <1>2, <2>1, <2>2
<1>4. faults' \in 0 .. MaxFaults
  BY FaultIs DEF InstallFails, Inv, Types
<1> QED
  BY <1>1, <1>3, <1>4, UploadSettles DEF Inv, Types

LEMMA UndoInv ==
  ASSUME Inv, NEW u \in Uploads, Undo(u)
  PROVE  Inv'
<1>1. /\ folder' \in {folder, uploads[u].displaced} /\ Answer(u, "failed")
      /\ UNCHANGED <<rows, ext, deletes, check>>
  BY DEF Undo, RestoreDisplaced
<1>2. /\ uploads' \in [Uploads -> Upload] /\ UploadsKept(u)
      /\ uploads'[u].displaced = NoDir /\ uploads'[u].phase = "failed" /\ alone'.who = Nobody
  BY <1>1, AnswerIs DEF UploadAnswers
<1>3. faults' \in 0 .. MaxFaults
  BY FaultIs DEF Undo, Inv, Types
<1>4. Types'
  BY <1>1, <1>2, <1>3 DEF Inv, Types, Upload
<1>5. \A v \in Uploads, c \in Copies : HeldByUpload(v, c)' => HeldByUpload(v, c) /\ v # u
  BY <1>2, ConstantsAssumption DEF HeldByUpload, UploadsKept
<1>6. \A d \in Deletes, c \in Copies : HeldByDelete(d, c)' => HeldByDelete(d, c)
  BY <1>1 DEF HeldByDelete
<1>7. \A c \in Copies : Held(c)' => Held(c) /\ c # uploads[u].displaced
  BY <1>5, <1>6 DEF Held, Inv, Apart, HeldByUpload
<1>8. Apart'
  BY <1>1, <1>5, <1>6, <1>7 DEF Inv, Apart
<1>9. \A v \in Uploads : uploads[v].phase \in Waiting =>
        (Held(v)' => Held(v)) /\ (folder' = v => folder = v)
  <2>1. \A v \in Uploads : uploads[v].phase \in Waiting => uploads[u].displaced # v
    BY DEF Inv, Unmade, Held, HeldByUpload
  <2> QED
    BY <1>1, <1>7, <2>1 DEF Copies
<1>10. NothingListed
  BY <1>1, <1>2 DEF NothingListed, UploadsKept, Waiting
<1> QED
  BY <1>4, <1>8, <1>9, <1>10, NothingListedIsUnmade DEF Inv

LEMMA UploadStepInv ==
  ASSUME Inv, NEW u \in Uploads, UploadStep(u)
  PROVE  Inv'
BY StartUploadInv, StatDuplicateInv, RefuseDuplicateInv, MarkDuplicateMissingInv, FailEarlyInv,
   CheckFolderInv, DisplaceInv, InstallInv, InstallFailsInv, UndoInv, VerifyInstalledInv, SaveInv,
   SaveFailsInv DEF UploadStep

-----------------------------------------------------------------------------------
(* A deletion that goes on or answers and leaves the folder and the uploads alone.   *)
LEMMA DeleteSettles ==
  ASSUME Inv, NEW d \in Deletes, deletes' \in [Deletes -> Delete], DeletesKept(d),
         deletes'[d].staged \in {deletes[d].staged, NoDir},
         UNCHANGED <<folder, ext, uploads, check>>,
         rows' \in [Rows -> Row],
         \A i \in Rows :
           rows'[i].by = rows[i].by /\ (rows[i].status = "none" => rows'[i].status = "none"),
         faults' \in 0 .. MaxFaults,
         alone'.who \in Uploads \cup Deletes \cup {Checker, Nobody}
  PROVE  Inv'
<1>1. Types'
  BY DEF Inv, Types
<1>2. NothingMoves
  BY DEF NothingMoves, DeletesKept
<1>3. NothingListed
  BY DEF NothingListed
<1> QED
  BY <1>1, <1>2, <1>3, Settle

LEMMA StartDeleteInv ==
  ASSUME Inv, NEW d \in Deletes, NEW i \in Rows, StartDelete(d, i)
  PROVE  Inv'
<1>1. /\ deletes' \in [Deletes -> Delete] /\ DeletesKept(d)
      /\ deletes'[d].staged = deletes[d].staged
  BY DEF Inv, Types, StartDelete, Delete, DeleteSteps, DeletesKept
<1>2. alone'.who \in Uploads \cup Deletes \cup {Checker, Nobody}
  BY BeginIs DEF StartDelete
<1>3. UNCHANGED <<folder, rows, ext, uploads, check, faults>>
  BY DEF StartDelete
<1> QED
  BY <1>1, <1>2, <1>3, DeleteSettles DEF Inv, Types

LEMMA LookForFolderInv ==
  ASSUME Inv, NEW d \in Deletes, LookForFolder(d)
  PROVE  Inv'
<1>1. /\ deletes' \in [Deletes -> Delete] /\ DeletesKept(d)
      /\ deletes'[d].staged = deletes[d].staged
  BY DEF Inv, Types, LookForFolder, Delete, DeleteSteps, DeletesKept
<1>2. UNCHANGED <<folder, rows, ext, uploads, check, faults, alone>>
  BY DEF LookForFolder
<1> QED
  BY <1>1, <1>2, DeleteSettles DEF Inv, Types

LEMMA DeleteRowInv ==
  ASSUME Inv, NEW d \in Deletes, DeleteRow(d)
  PROVE  Inv'
<1> DEFINE i == deletes[d].row
<1>1. /\ Exists(i) /\ rows' = [rows EXCEPT ![i].status = "deleted"]
      /\ UNCHANGED <<folder, ext, uploads, check, faults>>
      /\ \/ Respond(d, "ok")
         \/ deletes' = [deletes EXCEPT ![d].phase = "purge"] /\ UNCHANGED alone
  BY DEF DeleteRow
<1>2. /\ deletes' \in [Deletes -> Delete] /\ DeletesKept(d)
      /\ deletes'[d].staged \in {deletes[d].staged, NoDir}
      /\ alone'.who \in Uploads \cup Deletes \cup {Checker, Nobody}
  <2>1. CASE Respond(d, "ok")
    BY <2>1, RespondIs DEF DeleteAnswers
  <2>2. CASE deletes' = [deletes EXCEPT ![d].phase = "purge"] /\ UNCHANGED alone
    BY <2>2 DEF Inv, Types, Delete, DeleteSteps, DeletesKept
  <2> QED
    BY <1>1, <2>1, <2>2
<1> HIDE DEF i
<1>3. /\ rows' \in [Rows -> Row]
      /\ \A j \in Rows :
           rows'[j].by = rows[j].by /\ (rows[j].status = "none" => rows'[j].status = "none")
  BY <1>1 DEF Inv, Types, Row, Exists
<1> QED
  BY <1>1, <1>2, <1>3, DeleteSettles DEF Inv, Types

LEMMA DeleteRowFailsInv ==
  ASSUME Inv, NEW d \in Deletes, DeleteRowFails(d)
  PROVE  Inv'
<1>1. /\ UNCHANGED <<folder, rows, ext, uploads, check>>
      /\ \/ Respond(d, "failed")
         \/ deletes' = [deletes EXCEPT ![d].phase = "restore"] /\ UNCHANGED alone
  BY DEF DeleteRowFails
<1>2. /\ deletes' \in [Deletes -> Delete] /\ DeletesKept(d)
      /\ deletes'[d].staged \in {deletes[d].staged, NoDir}
      /\ alone'.who \in Uploads \cup Deletes \cup {Checker, Nobody}
  <2>1. CASE Respond(d, "failed")
    BY <2>1, RespondIs DEF DeleteAnswers
  <2>2. CASE deletes' = [deletes EXCEPT ![d].phase = "restore"] /\ UNCHANGED alone
    BY <2>2 DEF Inv, Types, Delete, DeleteSteps, DeletesKept
  <2> QED
    BY <1>1, <2>1, <2>2
<1>3. faults' \in 0 .. MaxFaults
  BY FaultIs DEF DeleteRowFails, Inv, Types
<1> QED
  BY <1>1, <1>2, <1>3, DeleteSettles DEF Inv, Types

LEMMA PurgeStagedInv ==
  ASSUME Inv, NEW d \in Deletes, PurgeStaged(d)
  PROVE  Inv'
<1>1. Respond(d, "ok") /\ UNCHANGED <<folder, rows, ext, uploads, check, faults>>
  BY DEF PurgeStaged
<1>2. /\ deletes' \in [Deletes -> Delete] /\ DeletesKept(d)
      /\ deletes'[d].staged = NoDir /\ alone'.who = Nobody
  BY <1>1, RespondIs DEF DeleteAnswers
<1> QED
  BY <1>1, <1>2, DeleteSettles DEF Inv, Types

LEMMA FailEarlyDeleteInv ==
  ASSUME Inv, NEW d \in Deletes, FailEarlyDelete(d)
  PROVE  Inv'
<1>1. Respond(d, "failed") /\ UNCHANGED <<folder, rows, ext, uploads, check>>
  BY DEF FailEarlyDelete
<1>2. /\ deletes' \in [Deletes -> Delete] /\ DeletesKept(d)
      /\ deletes'[d].staged = NoDir /\ alone'.who = Nobody
  BY <1>1, RespondIs DEF DeleteAnswers
<1>3. faults' \in 0 .. MaxFaults
  BY FaultIs DEF FailEarlyDelete
<1> QED
  BY <1>1, <1>2, <1>3, DeleteSettles DEF Inv, Types

LEMMA StageFolderInv ==
  ASSUME Inv, NEW d \in Deletes, StageFolder(d)
  PROVE  Inv'
<1>1. CASE folder = NoDir
  <2>1. Respond(d, "failed") /\ UNCHANGED <<folder, rows, ext, uploads, check, faults>>
    BY <1>1 DEF StageFolder
  <2>2. /\ deletes' \in [Deletes -> Delete] /\ DeletesKept(d)
        /\ deletes'[d].staged = NoDir /\ alone'.who = Nobody
    BY <2>1, RespondIs DEF DeleteAnswers
  <2> QED
    BY <2>1, <2>2, DeleteSettles DEF Inv, Types
<1>2. CASE folder # NoDir
  <2>1. /\ folder' = NoDir /\ UNCHANGED <<rows, ext, uploads, check, faults, alone>>
        /\ deletes' = [deletes EXCEPT ![d].phase = "rows", ![d].staged = folder]
    BY <1>2 DEF StageFolder, AfterRename
  <2>2. /\ deletes' \in [Deletes -> Delete] /\ DeletesKept(d) /\ deletes'[d].staged = folder
    BY <2>1 DEF Inv, Types, Delete, DeleteSteps, DeletesKept
  <2>3. Types'
    BY <2>1, <2>2 DEF Inv, Types, Contents
  <2>4. \A c \in Copies : c # NoDir
    BY ConstantsAssumption
  <2>5. \A e \in Deletes, c \in Copies :
          HeldByDelete(e, c)' => (HeldByDelete(e, c) /\ e # d) \/ (e = d /\ c = folder)
    BY <2>2 DEF HeldByDelete, DeletesKept
  <2>6. \A u \in Uploads, c \in Copies : HeldByUpload(u, c)' <=> HeldByUpload(u, c)
    BY <2>1 DEF HeldByUpload
  <2>7. Apart'
    BY <2>1, <2>4, <2>5, <2>6 DEF Inv, Apart, Held
  <2>8. \A u \in Uploads : uploads[u].phase \in Waiting =>
          (Held(u)' => Held(u)) /\ (folder' = u => folder = u)
    BY <2>1, <2>4, <2>5, <2>6 DEF Inv, Unmade, Held, Copies
  <2>9. NothingListed
    BY <2>1 DEF NothingListed
  <2> QED
    BY <2>3, <2>7, <2>8, <2>9, NothingListedIsUnmade DEF Inv
<1> QED
  BY <1>1, <1>2

LEMMA RestoreFolderInv ==
  ASSUME Inv, NEW d \in Deletes, RestoreFolder(d)
  PROVE  Inv'
<1>1. /\ folder' \in {folder, deletes[d].staged}
      /\ Respond(d, "failed") \/ Respond(d, "stranded")
      /\ UNCHANGED <<rows, ext, uploads, check>>
  BY DEF RestoreFolder, RestoredFolder
<1>2. /\ deletes' \in [Deletes -> Delete] /\ DeletesKept(d)
      /\ deletes'[d].staged = NoDir /\ alone'.who = Nobody
  BY <1>1, RespondIs DEF DeleteAnswers
<1>10. faults' \in 0 .. MaxFaults
  BY FaultIs DEF RestoreFolder, Inv, Types
<1>3. Types'
  BY <1>1, <1>2, <1>10 DEF Inv, Types, Delete
<1>4. \A e \in Deletes, c \in Copies : HeldByDelete(e, c)' => HeldByDelete(e, c) /\ e # d
  BY <1>2, ConstantsAssumption DEF HeldByDelete, DeletesKept
<1>5. \A u \in Uploads, c \in Copies : HeldByUpload(u, c)' => HeldByUpload(u, c)
  BY <1>1 DEF HeldByUpload
<1>6. \A c \in Copies : Held(c)' => Held(c) /\ c # deletes[d].staged
  BY <1>4, <1>5 DEF Held, Inv, Apart, HeldByDelete
<1>7. Apart'
  BY <1>1, <1>4, <1>5, <1>6 DEF Inv, Apart
<1>8. \A u \in Uploads : uploads[u].phase \in Waiting =>
        (Held(u)' => Held(u)) /\ (folder' = u => folder = u)
  <2>1. \A u \in Uploads : uploads[u].phase \in Waiting => deletes[d].staged # u
    BY DEF Inv, Unmade, Held, HeldByDelete
  <2> QED
    BY <1>1, <1>6, <2>1 DEF Copies
<1>9. NothingListed
  BY <1>1 DEF NothingListed
<1> QED
  BY <1>3, <1>7, <1>8, <1>9, NothingListedIsUnmade DEF Inv

LEMMA DeleteStepInv ==
  ASSUME Inv, NEW d \in Deletes, DeleteStep(d)
  PROVE  Inv'
BY StartDeleteInv, LookForFolderInv, StageFolderInv, FailEarlyDeleteInv, DeleteRowInv, DeleteRowFailsInv,
   RestoreFolderInv, PurgeStagedInv DEF DeleteStep

-----------------------------------------------------------------------------------
LEMMA CheckStepInv ==
  ASSUME Inv, CheckStep
  PROVE  Inv'
<1>1. UNCHANGED <<folder, ext, uploads, deletes>>
  BY DEF CheckStep, StartCheck, StatRow, MarkRow, FinishCheck, FailCheck
<1>7. faults' \in 0 .. MaxFaults
  BY FaultIs DEF CheckStep, StartCheck, StatRow, MarkRow, FinishCheck, FailCheck, Inv, Types
<1>2. /\ rows' \in [Rows -> Row]
      /\ \A j \in Rows :
           rows'[j].by = rows[j].by /\ (rows[j].status = "none" => rows'[j].status = "none")
  <2>1. CASE rows' = Marked(check.row, check.seen)
    BY <2>1, ZenonT(60) DEF Marked, Exists, Inv, Types, Row
  <2>2. CASE rows' = rows
    BY <2>2 DEF Inv, Types
  <2> QED
    BY <2>1, <2>2 DEF CheckStep, StartCheck, StatRow, MarkRow, FinishCheck, FailCheck
<1>3. check' \in Check
  <2>1. CASE StartCheck
    <3>1. {<<i, rows[i].ext>> : i \in {j \in Rows : Exists(j)}} \subseteq Rows \X Extensions
      BY DEF Inv, Types, Row
    <3> QED
      BY <2>1, <3>1 DEF StartCheck, IdleCheck, Check
  <2>2. ASSUME NEW known \in check.todo, StatRow(known) PROVE check' \in Check
    BY <2>2 DEF StatRow, Check, Inv, Types, FileAt
  <2>3. CASE MarkRow
    BY <2>3 DEF MarkRow, Check, Inv, Types
  <2>4. CASE FinishCheck \/ FailCheck
    <3>1. check' = IdleCheck
      BY <2>4 DEF FinishCheck, FailCheck
    <3>2. {} \subseteq Rows \X Extensions
      OBVIOUS
    <3> QED
      BY <3>1, <3>2 DEF IdleCheck, Check
  <2> QED
    BY <2>1, <2>2, <2>3, <2>4 DEF CheckStep
<1>4. alone'.who \in Uploads \cup Deletes \cup {Checker, Nobody}
  <2>1. CASE StartCheck
    BY <2>1, BeginIs DEF StartCheck
  <2>2. CASE UNCHANGED alone
    BY <2>2 DEF Inv, Types
  <2>3. CASE alone' = Stopped
    BY <2>3 DEF Stopped
  <2> QED
    BY <2>1, <2>2, <2>3 DEF CheckStep, StatRow, MarkRow, FinishCheck, FailCheck
<1>5. Types'
  BY <1>1, <1>2, <1>3, <1>4, <1>7 DEF Inv, Types
<1>6. NothingMoves /\ NothingListed
  BY <1>1, <1>2 DEF NothingMoves, NothingListed
<1> QED
  BY <1>5, <1>6, Settle

LEMMA TakeAwayInv ==
  ASSUME Inv, TakeAway
  PROVE  Inv'
<1>1. /\ folder' \in {NoDir, Bare} /\ alone' = Stopped
      /\ UNCHANGED <<rows, ext, uploads, deletes, check>>
  BY DEF TakeAway, Disturb
<1>2. faults' \in 0 .. MaxFaults
  BY FaultIs DEF TakeAway
<1>3. Types'
  BY <1>1, <1>2 DEF Inv, Types, Contents, Stopped
<1>4. NothingMoves /\ NothingListed
  BY <1>1 DEF NothingMoves, NothingListed
<1> QED
  BY <1>3, <1>4, Settle

LEMMA PutBackInv ==
  ASSUME Inv, PutBack
  PROVE  Inv'
<1>1. PICK i \in Rows : Exists(i) /\ ~Held(rows[i].by) /\ folder' = rows[i].by
  BY DEF PutBack
<1>2. UNCHANGED <<rows, ext, uploads, deletes, check>> /\ alone' = Stopped
  BY DEF PutBack, Disturb
<1>3. faults' \in 0 .. MaxFaults
  BY FaultIs DEF PutBack
<1>4. rows[i].by \in Copies
  BY DEF Inv, Types, Row
<1>5. Types'
  BY <1>1, <1>2, <1>3, <1>4 DEF Inv, Types, Contents, Stopped
<1>6. Apart'
  BY <1>1, <1>2, <1>4 DEF Inv, Apart, Held, HeldByUpload, HeldByDelete
<1>7. \A u \in Uploads : uploads[u].phase \in Waiting => rows[i].by # u
  BY <1>1 DEF Inv, Unmade, Unlisted, Exists
<1>8. Unmade'
  BY <1>1, <1>2, <1>7 DEF Inv, Unmade, Held, HeldByUpload, HeldByDelete, Unlisted
<1> QED
  BY <1>5, <1>6, <1>8 DEF Inv

LEMMA CrashInv ==
  ASSUME Inv, Crash
  PROVE  Inv'
<1>1. UNCHANGED <<folder, rows, ext>> /\ alone' = Stopped /\ check' = IdleCheck
  BY DEF Crash, Disturb
<1>2. faults' \in 0 .. MaxFaults
  BY FaultIs DEF Crash
<1>3. /\ uploads' \in [Uploads -> Upload]
      /\ \A u \in Uploads : /\ uploads'[u].displaced \in {uploads[u].displaced, NoDir}
                            /\ uploads'[u].phase \in {uploads[u].phase, "lost"}
  <2>1. \A u \in Uploads :
          [phase |-> "lost", row |-> NoRow, ext |-> ext[u], displaced |-> NoDir] \in Upload
    BY DEF Inv, Types, Upload, UploadAnswers, Contents, Copies
  <2> QED
    BY <2>1 DEF Crash, Inv, Types
<1>4. /\ deletes' \in [Deletes -> Delete]
      /\ \A d \in Deletes : deletes'[d].staged \in {deletes[d].staged, NoDir}
  <2>1. \A d \in Deletes : [deletes[d] EXCEPT !.phase = "lost", !.staged = NoDir] \in Delete
    BY DEF Inv, Types, Delete, DeleteAnswers, Contents
  <2>2. \A d \in Deletes : [deletes[d] EXCEPT !.phase = "lost", !.staged = NoDir].staged = NoDir
    BY DEF Inv, Types, Delete
  <2> QED
    BY <2>1, <2>2 DEF Crash, Inv, Types
<1>5. Types'
  BY <1>1, <1>2, <1>3, <1>4 DEF Inv, Types, Stopped, IdleCheck, Check
<1>6. NothingMoves /\ NothingListed
  BY <1>1, <1>3, <1>4 DEF NothingMoves, NothingListed, Waiting
<1> QED
  BY <1>5, <1>6, Settle

LEMMA NextInv == Inv /\ [Next]_vars => Inv'
<1> SUFFICES ASSUME Inv, [Next]_vars PROVE Inv'
  OBVIOUS
<1>1. CASE \E u \in Uploads : UploadStep(u)
  BY <1>1, UploadStepInv
<1>2. CASE \E d \in Deletes : DeleteStep(d)
  BY <1>2, DeleteStepInv
<1>3. CASE CheckStep
  BY <1>3, CheckStepInv
<1>4. CASE WorldStep
  BY <1>4, TakeAwayInv, PutBackInv, CrashInv DEF WorldStep
<1>5. CASE UNCHANGED vars
  BY <1>5 DEF vars, Inv, Types, Apart, Unmade, Held, HeldByUpload, HeldByDelete, Unlisted
<1> QED
  BY <1>1, <1>2, <1>3, <1>4, <1>5 DEF Next

-----------------------------------------------------------------------------------
(* Whatever uploads, deletions, the check, faults and stops do to a film, its rows,   *)
(* its folder and what requests have set aside keep their shape, and no copy of it is *)
(* in two places.                                                                     *)
THEOREM TypeCorrect == Spec => []TypeOK
<1>1. Init => Inv
  BY InitInv
<1> QED
  BY <1>1, NextInv, InvGivesTypeOK, PTL DEF Spec

-----------------------------------------------------------------------------------
(* A request that nothing else has met.                                               *)

(* Nothing is in flight but the request that is alone.                                *)
Lonely ==
  /\ \A u \in Uploads : uploads[u].phase \in UploadSteps => alone.who \in {u, Nobody}
  /\ \A d \in Deletes : deletes[d].phase \in DeleteSteps => alone.who \in {d, Nobody}
  /\ check.phase # "idle" => alone.who \in {Checker, Nobody}

(* Only these steps have something set aside.                                         *)
Unheld ==
  /\ \A u \in Uploads :
       uploads[u].phase \notin {"install", "undo"} => uploads[u].displaced = NoDir
  /\ \A d \in Deletes :
       deletes[d].phase \notin {"rows", "restore", "purge"} => deletes[d].staged = NoDir

(* What an upload has done since it found alone.folder and alone.rows.                *)
UploadSoFar(u) ==
  LET phase == uploads[u].phase
      i == uploads[u].row
  IN  /\ phase \in UploadSteps
      /\ \A j \in Rows : j # i => rows[j] = alone.rows[j]
      /\ OnlyMissingMarked(rows)
      /\ phase \in {"stat", "present", "absent"} =>
           i \in Rows /\ rows[i] = alone.rows[i] /\ rows[i].status = "available"
      /\ phase = "stat" => uploads[u].ext = rows[i].ext
      /\ phase = "absent" => ~FileAt(rows[i].ext)
      /\ phase \in {"stat", "present", "absent", "staged", "displace"} => folder = alone.folder
      /\ phase \in {"install", "undo"} => folder = NoDir /\ uploads[u].displaced = alone.folder
      /\ phase = "undo" => faults > alone.faults
      /\ phase \in {"verify", "save"} => folder = u

DeleteSoFar(d) ==
  LET phase == deletes[d].phase
  IN  /\ phase \in DeleteSteps
      /\ phase # "purge" => rows = alone.rows /\ Exists(deletes[d].row)
      /\ phase \in {"look", "stage"} => folder = alone.folder
      /\ phase = "stage" => folder # NoDir
      /\ phase \in {"rows", "restore"} => folder = NoDir /\ deletes[d].staged = alone.folder
      /\ phase = "restore" => faults > alone.faults
      /\ phase = "purge" =>
           /\ folder = NoDir
           /\ rows = [alone.rows EXCEPT ![deletes[d].row].status = "deleted"]

(* A row is still to be looked at, has been seen, or is right; no path has changed.   *)
CheckSoFar ==
  /\ check.phase \in {"scan", "mark"}
  /\ \A known \in check.todo : known[1] \in Rows /\ known[2] = rows[known[1]].ext
  /\ check.phase = "mark" => check.row \in Rows /\ (check.seen <=> FileAt(rows[check.row].ext))
  /\ \A i \in Rows : Exists(i) =>
       \/ <<i, rows[i].ext>> \in check.todo
       \/ check.phase = "mark" /\ check.row = i
       \/ rows[i].status = "available" <=> FileAt(rows[i].ext)

SoFar ==
  /\ \A u \in Uploads : alone.who = u => UploadSoFar(u)
  /\ \A d \in Deletes : alone.who = d => DeleteSoFar(d)
  /\ alone.who = Checker => CheckSoFar
  /\ alone.faults \in Nat /\ alone.faults <= faults

Sound == Inv /\ Lonely /\ Unheld /\ SoFar

LEMMA InitSound == ASSUME Init PROVE Sound
<1>1. Lonely /\ Unheld
  BY DEF Init, Lonely, Unheld, UploadSteps, DeleteSteps, IdleCheck
<1>2. SoFar
  BY ConstantsAssumption DEF Init, SoFar, Stopped
<1> QED
  BY <1>1, <1>2, InitInv DEF Sound

(* The steps of one upload keep what the others have, and end in Nobody or in itself  *)
(* being alone.                                                                       *)
LEMMA UploadAlone ==
  ASSUME Sound, NEW u \in Uploads, UploadStep(u)
  PROVE  /\ alone'.who \in {u, Nobody}
         /\ UNCHANGED <<ext, deletes, check>> /\ UploadsKept(u)
         /\ uploads'[u].phase \notin {"install", "undo"} => uploads'[u].displaced = NoDir
<1>1. UNCHANGED <<ext, deletes, check>>
  BY DEF UploadStep, StartUpload, StatDuplicate, RefuseDuplicate, MarkDuplicateMissing,
         FailEarly, CheckFolder, Displace, Install, InstallFails, Undo, VerifyInstalled, Save,
         SaveFails
<1>2. CASE StartUpload(u)
  <2>1. alone'.who \in {u, Nobody}
    BY <1>2 DEF StartUpload, Begin, Stopped
  <2>2. uploads[u].displaced = NoDir
    BY <1>2 DEF StartUpload, Sound, Unheld
  <2>3. UploadsKept(u) /\ uploads'[u].displaced = uploads[u].displaced
    BY <1>2, StartUploadIs DEF Sound
  <2> QED
    BY <1>1, <2>1, <2>2, <2>3
<1>3. CASE uploads[u].phase \in UploadSteps
  <2>1. alone.who \in {u, Nobody}
    BY <1>3 DEF Sound, Lonely
  <2>2. ASSUME NEW p \in UploadAnswers, Answer(u, p)
        PROVE  /\ alone'.who \in {u, Nobody} /\ UploadsKept(u)
               /\ uploads'[u].phase \notin {"install", "undo"} => uploads'[u].displaced = NoDir
    BY <2>2, AnswerIs DEF Sound
  <2>3. ASSUME NEW p \in UploadSteps, GoTo(u, p), UNCHANGED alone,
               uploads[u].phase \notin {"install", "undo"}
        PROVE  /\ alone'.who \in {u, Nobody} /\ UploadsKept(u)
               /\ uploads'[u].phase \notin {"install", "undo"} => uploads'[u].displaced = NoDir
    BY <2>1, <2>3, GoToIs DEF Sound, Unheld
  <2>4. CASE StatDuplicate(u)
    BY <1>1, <2>1, <2>4 DEF StatDuplicate, Sound, Unheld, UploadsKept, Inv, Types, Upload
  <2>5. CASE MarkDuplicateMissing(u)
    BY <1>1, <2>3, <2>5 DEF MarkDuplicateMissing, UploadSteps
  <2>6. CASE CheckFolder(u)
    <3>1. \/ GoTo(u, "install") /\ UNCHANGED alone
          \/ GoTo(u, "displace") /\ UNCHANGED alone
          \/ Answer(u, "refused")
      BY <2>6 DEF CheckFolder
    <3>2. uploads[u].phase \notin {"install", "undo"}
      BY <2>6 DEF CheckFolder
    <3> QED
      BY <1>1, <2>2, <2>3, <3>1, <3>2 DEF UploadSteps, UploadAnswers
  <2>7. CASE Displace(u)
    BY <1>1, <2>1, <2>2, <2>7 DEF Displace, UploadsKept, Sound, Inv, Types, Upload, UploadAnswers
  <2>8. CASE Install(u)
    BY <1>1, <2>1, <2>8 DEF Install, UploadsKept, Sound, Inv, Types, Upload
  <2>9. CASE VerifyInstalled(u)
    <3>1. \/ GoTo(u, "save") /\ UNCHANGED alone
          \/ Answer(u, "failed")
      BY <2>9 DEF VerifyInstalled
    <3>2. uploads[u].phase \notin {"install", "undo"}
      BY <2>9 DEF VerifyInstalled
    <3> QED
      BY <1>1, <2>2, <2>3, <3>1, <3>2 DEF UploadSteps, UploadAnswers
  <2>10. CASE RefuseDuplicate(u) \/ FailEarly(u) \/ Undo(u) \/ Save(u) \/ SaveFails(u)
    BY <1>1, <2>2, <2>10 DEF RefuseDuplicate, FailEarly, Undo, Save, SaveFails, UploadAnswers
  <2>11. CASE InstallFails(u)
    <3>1. CASE Answer(u, "failed")
      BY <1>1, <2>2, <3>1 DEF UploadAnswers
    <3>2. CASE GoTo(u, "undo") /\ UNCHANGED alone
      BY <1>1, <2>1, <3>2, GoToIs DEF Sound, UploadSteps
    <3> QED
      BY <2>11, <3>1, <3>2 DEF InstallFails
  <2> QED
    BY <1>3, <2>4, <2>5, <2>6, <2>7, <2>8, <2>9, <2>10, <2>11
       DEF UploadStep, StartUpload, UploadSteps
<1>4. StartUpload(u) \/ uploads[u].phase \in UploadSteps
  BY DEF UploadStep, StatDuplicate, RefuseDuplicate, MarkDuplicateMissing,
         FailEarly, CheckFolder, Displace, Install, InstallFails, Undo, VerifyInstalled, Save,
         SaveFails, UploadSteps
<1> QED
  BY <1>2, <1>3, <1>4

(* What an upload answers when it was alone, and what it has done so far if it goes   *)
(* on.                                                                                *)
UploadIsRight(u) ==
  /\ alone.who = u => UploadOutcome(u)
  /\ alone'.who = u => UploadSoFar(u)'

LEMMA StartUploadIsRight ==
  ASSUME Sound, NEW u \in Uploads, StartUpload(u)
  PROVE  UploadIsRight(u)
<1>1. alone.who # u
  BY DEF StartUpload, Sound, SoFar, UploadSoFar, UploadSteps
<1>2. ASSUME alone'.who = u PROVE UploadSoFar(u)'
  <2>1. alone'.folder = folder /\ alone'.rows = rows
    BY <1>2, ConstantsAssumption DEF StartUpload, Begin, Stopped
  <2>2. UNCHANGED <<folder, rows, ext>>
    BY DEF StartUpload
  <2>3. OnlyMissingMarked(rows)'
    BY <2>1, <2>2 DEF OnlyMissingMarked
  <2>4. \/ /\ uploads'[u].phase = "staged"
        \/ /\ uploads'[u].phase = "stat" /\ uploads'[u].row \in Rows
           /\ rows[uploads'[u].row].status = "available"
           /\ uploads'[u].ext = rows[uploads'[u].row].ext
    <3>1. \/ \E i \in Rows : /\ rows[i].status = "available"
                             /\ uploads' = [uploads EXCEPT ![u].phase = "stat", ![u].row = i,
                                                           ![u].ext = rows[i].ext]
          \/ \E i \in Rows : uploads' = [uploads EXCEPT ![u].phase = "staged", ![u].row = i]
          \/ uploads' = [uploads EXCEPT ![u].phase = "staged"]
      BY DEF StartUpload, GoTo
    <3>2. CASE \/ \E i \in Rows : uploads' = [uploads EXCEPT ![u].phase = "staged", ![u].row = i]
               \/ uploads' = [uploads EXCEPT ![u].phase = "staged"]
      BY <3>2 DEF Sound, Inv, Types, Upload
    <3>3. ASSUME NEW i \in Rows, rows[i].status = "available",
                 uploads' = [uploads EXCEPT ![u].phase = "stat", ![u].row = i,
                                            ![u].ext = rows[i].ext]
          PROVE  /\ uploads'[u].phase = "stat" /\ uploads'[u].row = i
                 /\ uploads'[u].ext = rows[i].ext
      BY <3>3 DEF Sound, Inv, Types, Upload
    <3> QED
      BY <3>1, <3>2, <3>3
  <2> QED
    BY <2>1, <2>2, <2>3, <2>4 DEF UploadSoFar, UploadSteps
<1> QED
  BY <1>1, <1>2 DEF UploadIsRight

LEMMA StatDuplicateIsRight ==
  ASSUME Sound, NEW u \in Uploads, StatDuplicate(u)
  PROVE  UploadIsRight(u)
<1>1. /\ uploads'[u].phase = IF FileAt(uploads[u].ext) THEN "present" ELSE "absent"
      /\ uploads'[u].row = uploads[u].row
      /\ UNCHANGED <<folder, rows, ext, alone>>
  BY DEF StatDuplicate, Sound, Inv, Types, Upload
<1>2. OnlyMissingMarked(rows)' <=> OnlyMissingMarked(rows)
  BY <1>1 DEF OnlyMissingMarked
<1>4. ASSUME alone.who = u PROVE UploadSoFar(u)'
  <2>1. UploadSoFar(u) /\ uploads[u].phase = "stat"
    BY <1>4 DEF Sound, SoFar, StatDuplicate
  <2> QED
    BY <1>1, <1>2, <2>1 DEF UploadSoFar, UploadSteps, FileAt
<1> QED
  BY <1>1, <1>4 DEF UploadIsRight, UploadOutcome

LEMMA AnswerIsRight ==
  ASSUME Sound, NEW u \in Uploads, NEW p \in UploadAnswers, Answer(u, p),
         alone.who = u => UploadOutcome(u)
  PROVE  UploadIsRight(u)
BY ConstantsAssumption, AnswerIs DEF UploadIsRight, Sound

LEMMA RefusedIsRight ==
  ASSUME Sound, NEW u \in Uploads, NEW p \in {"refused", "failed"}, Answer(u, p),
         UNCHANGED <<folder, rows>>,
         uploads[u].phase \in {"stat", "present", "absent", "staged", "displace"}
  PROVE  UploadIsRight(u)
<1>1. uploads'[u].phase = p
  BY AnswerIs DEF Sound, UploadAnswers
<1>2. alone.who = u => folder = alone.folder /\ OnlyMissingMarked(rows)
  BY DEF Sound, SoFar, UploadSoFar
<1>3. alone.who = u => UploadOutcome(u)
  BY <1>1, <1>2 DEF UploadOutcome
<1> QED
  BY <1>3, AnswerIsRight DEF UploadAnswers

LEMMA MarkDuplicateMissingIsRight ==
  ASSUME Sound, NEW u \in Uploads, MarkDuplicateMissing(u)
  PROVE  UploadIsRight(u)
<1> DEFINE i == uploads[u].row
<1>1. /\ uploads'[u].phase = "staged" /\ uploads'[u].row = i
      /\ rows' = MarkedOffline(i) /\ UNCHANGED <<folder, ext, alone>>
  BY DEF MarkDuplicateMissing, GoTo, Sound, Inv, Types, Upload
<1>2. ASSUME alone.who = u PROVE UploadSoFar(u)'
  <2>1. UploadSoFar(u) /\ uploads[u].phase = "absent"
    BY <1>2 DEF Sound, SoFar, MarkDuplicateMissing
  <2>2. /\ i \in Rows /\ rows[i] = alone.rows[i] /\ rows[i].status = "available"
        /\ ~FileAt(rows[i].ext) /\ folder = alone.folder
        /\ \A j \in Rows : j # i => rows[j] = alone.rows[j]
    BY <2>1 DEF UploadSoFar
  <2> HIDE DEF i
  <2>3. /\ rows'[i] = [alone.rows[i] EXCEPT !.status = "offline"]
        /\ \A j \in Rows : j # i => rows'[j] = alone.rows[j]
    BY <1>1, <2>2 DEF MarkedOffline, Exists, Sound, Inv, Types
  <2>4. OnlyMissingMarked(rows)'
    BY <1>1, <2>2, <2>3 DEF OnlyMissingMarked, FileAt
  <2> QED
    BY <1>1, <2>2, <2>3, <2>4 DEF UploadSoFar, UploadSteps
<1> QED
  BY <1>1, <1>2 DEF UploadIsRight, UploadOutcome

LEMMA CheckFolderIsRight ==
  ASSUME Sound, NEW u \in Uploads, CheckFolder(u)
  PROVE  UploadIsRight(u)
<1>1. uploads[u].phase = "staged" /\ UNCHANGED <<folder, rows, ext>>
  BY DEF CheckFolder
<1>2. CASE Answer(u, "refused")
  BY <1>1, <1>2, RefusedIsRight
<1>3. ASSUME NEW p \in {"install", "displace"}, GoTo(u, p), UNCHANGED alone,
             p = "install" => folder = NoDir
      PROVE  UploadIsRight(u)
  <2>1. /\ uploads'[u].phase = p /\ uploads'[u].row = uploads[u].row
        /\ uploads'[u].displaced = uploads[u].displaced
    BY <1>3 DEF GoTo, Sound, Inv, Types, Upload
  <2>2. uploads[u].displaced = NoDir
    BY <1>1 DEF Sound, Unheld
  <2>3. OnlyMissingMarked(rows)' <=> OnlyMissingMarked(rows)
    BY <1>1, <1>3 DEF OnlyMissingMarked
  <2>4. ASSUME alone.who = u PROVE UploadSoFar(u)'
    <3>1. UploadSoFar(u)
      BY <2>4 DEF Sound, SoFar
    <3> QED
      BY <1>1, <1>3, <2>1, <2>2, <2>3, <3>1 DEF UploadSoFar, UploadSteps
  <2> QED
    BY <1>3, <2>1, <2>4 DEF UploadIsRight, UploadOutcome
<1>4. \/ Answer(u, "refused")
      \/ GoTo(u, "install") /\ UNCHANGED alone /\ folder = NoDir
      \/ GoTo(u, "displace") /\ UNCHANGED alone
  BY DEF CheckFolder
<1> QED
  BY <1>2, <1>3, <1>4

LEMMA DisplaceIsRight ==
  ASSUME Sound, NEW u \in Uploads, Displace(u)
  PROVE  UploadIsRight(u)
<1>1. uploads[u].phase = "displace" /\ UNCHANGED <<rows, ext>>
  BY DEF Displace
<1>2. CASE folder = NoDir
  BY <1>1, <1>2, RefusedIsRight DEF Displace
<1>3. CASE folder # NoDir
  <2>1. /\ folder' = NoDir /\ UNCHANGED alone
        /\ uploads'[u].phase = "install" /\ uploads'[u].displaced = folder
        /\ uploads'[u].row = uploads[u].row
    BY <1>3 DEF Displace, AfterRename, Sound, Inv, Types, Upload
  <2>2. OnlyMissingMarked(rows)' <=> OnlyMissingMarked(rows)
    BY <1>1, <2>1 DEF OnlyMissingMarked
  <2>3. ASSUME alone.who = u PROVE UploadSoFar(u)'
    <3>1. UploadSoFar(u)
      BY <2>3 DEF Sound, SoFar
    <3> QED
      BY <1>1, <2>1, <2>2, <3>1 DEF UploadSoFar, UploadSteps
  <2> QED
    BY <2>1, <2>3 DEF UploadIsRight, UploadOutcome
<1> QED
  BY <1>2, <1>3

LEMMA InstallIsRight ==
  ASSUME Sound, NEW u \in Uploads, Install(u)
  PROVE  UploadIsRight(u)
<1>1. /\ uploads[u].phase = "install" /\ folder' = u /\ UNCHANGED <<rows, ext, alone>>
      /\ uploads'[u].phase = "verify" /\ uploads'[u].row = uploads[u].row
  BY DEF Install, Sound, Inv, Types, Upload
<1>2. OnlyMissingMarked(rows)' <=> OnlyMissingMarked(rows)
  BY <1>1 DEF OnlyMissingMarked
<1>3. ASSUME alone.who = u PROVE UploadSoFar(u)'
  <2>1. UploadSoFar(u)
    BY <1>3 DEF Sound, SoFar
  <2> QED
    BY <1>1, <1>2, <2>1 DEF UploadSoFar, UploadSteps
<1> QED
  BY <1>1, <1>3 DEF UploadIsRight, UploadOutcome

LEMMA InstallFailsIsRight ==
  ASSUME Sound, NEW u \in Uploads, InstallFails(u)
  PROVE  UploadIsRight(u)
<1>1. uploads[u].phase = "install" /\ UNCHANGED <<folder, rows, ext>>
  BY DEF InstallFails
<1>3. CASE uploads[u].displaced = NoDir
  <2>1. Answer(u, "failed")
    BY <1>3 DEF InstallFails
  <2>2. uploads'[u].phase = "failed"
    BY <2>1, AnswerIs DEF Sound, UploadAnswers
  <2>3. alone.who = u => folder = alone.folder /\ OnlyMissingMarked(rows)
    BY <1>1, <1>3 DEF Sound, SoFar, UploadSoFar
  <2>4. alone.who = u => UploadOutcome(u)
    BY <1>1, <2>2, <2>3 DEF UploadOutcome
  <2> QED
    BY <2>1, <2>4, AnswerIsRight DEF UploadAnswers
<1>4. CASE uploads[u].displaced # NoDir
  <2>1. GoTo(u, "undo") /\ UNCHANGED alone
    BY <1>4 DEF InstallFails
  <2>2. /\ uploads'[u].phase = "undo" /\ uploads'[u].row = uploads[u].row
        /\ uploads'[u].displaced = uploads[u].displaced
    BY <2>1 DEF GoTo, Sound, Inv, Types, Upload
  <2>3. OnlyMissingMarked(rows)' <=> OnlyMissingMarked(rows)
    BY <1>1, <2>1 DEF OnlyMissingMarked
  <2>4. ASSUME alone.who = u PROVE UploadSoFar(u)'
    <3>1. UploadSoFar(u) /\ folder = NoDir
      BY <1>1, <2>4 DEF Sound, SoFar, UploadSoFar
    <3>2. faults' > alone.faults
      BY <3>1 DEF InstallFails, Fault, Sound, SoFar, Inv, Types
    <3> QED
      BY <1>1, <2>1, <2>2, <2>3, <3>1, <3>2 DEF UploadSoFar, UploadSteps
  <2> QED
    BY <2>1, <2>2, <2>4 DEF UploadIsRight, UploadOutcome
<1> QED
  BY <1>3, <1>4

LEMMA UndoIsRight ==
  ASSUME Sound, NEW u \in Uploads, Undo(u)
  PROVE  UploadIsRight(u)
<1>1. uploads[u].phase = "undo" /\ Answer(u, "failed") /\ UNCHANGED rows
  BY DEF Undo
<1>2. uploads'[u].phase = "failed"
  BY <1>1, AnswerIs DEF Sound, UploadAnswers
<1>3. ASSUME alone.who = u PROVE UploadOutcome(u)
  <2>1. /\ folder = NoDir /\ uploads[u].displaced = alone.folder /\ OnlyMissingMarked(rows)
        /\ faults > alone.faults
    BY <1>1, <1>3 DEF Sound, SoFar, UploadSoFar
  <2>2. CASE folder' = RestoreDisplaced(u)
    BY <1>1, <1>2, <2>1, <2>2 DEF UploadOutcome, RestoreDisplaced
  <2>3. CASE Fault /\ UNCHANGED folder
    <3>1. Stranded(uploads[u].displaced)
      BY <2>1, <2>3 DEF Fault, Stranded, Sound, SoFar, Inv, Types
    <3> QED
      BY <1>1, <1>2, <2>1, <3>1 DEF UploadOutcome
  <2> QED
    BY <2>2, <2>3 DEF Undo
<1> QED
  BY <1>1, <1>3, AnswerIsRight DEF UploadAnswers

LEMMA VerifyInstalledIsRight ==
  ASSUME Sound, NEW u \in Uploads, VerifyInstalled(u)
  PROVE  UploadIsRight(u)
<1>1. uploads[u].phase = "verify" /\ UNCHANGED <<folder, rows, ext>>
  BY DEF VerifyInstalled
<1>2. CASE alone.who = u
  <2>1. UploadSoFar(u) /\ folder = u
    BY <1>1, <1>2 DEF Sound, SoFar, UploadSoFar
  <2>2. CASE GoTo(u, "save") /\ UNCHANGED <<alone, faults>>
    <3>1. uploads'[u].phase = "save" /\ uploads'[u].row = uploads[u].row
      BY <2>2 DEF GoTo, Sound, Inv, Types, Upload
    <3>2. OnlyMissingMarked(rows)' <=> OnlyMissingMarked(rows)
      BY <1>1, <2>2 DEF OnlyMissingMarked
    <3>3. UploadSoFar(u)'
      BY <1>1, <2>1, <2>2, <3>1, <3>2 DEF UploadSoFar, UploadSteps
    <3> QED
      BY <3>1, <3>3 DEF UploadIsRight, UploadOutcome
  <2>3. CASE Fault /\ Answer(u, "failed")
    <3>1. uploads'[u].phase = "failed"
      BY <2>3, AnswerIs DEF Sound, UploadAnswers
    <3>2. Unregistered(u)
      BY <1>1, <2>1, <2>3 DEF Unregistered, Fault, Sound, SoFar, Inv, Types
    <3>3. UploadOutcome(u)
      BY <1>1, <2>1, <3>1, <3>2 DEF UploadOutcome, UploadSoFar
    <3> QED
      BY <2>3, <3>3, AnswerIsRight DEF UploadAnswers
  <2>4. FileAt(ext[u])
    BY <2>1 DEF FileAt, Copies
  <2> QED
    BY <2>2, <2>3, <2>4 DEF VerifyInstalled
<1>3. CASE alone.who # u
  <2>1. alone'.who \in {alone.who, Nobody}
    BY DEF VerifyInstalled, Answer, Stopped
  <2> QED
    BY <1>3, <2>1, ConstantsAssumption DEF UploadIsRight
<1> QED
  BY <1>2, <1>3

LEMMA SaveIsRight ==
  ASSUME Sound, NEW u \in Uploads, Save(u)
  PROVE  UploadIsRight(u)
<1> DEFINE i == IF uploads[u].row = NoRow THEN u ELSE uploads[u].row
<1> DEFINE saved == [status |-> "available", ext |-> ext[u], by |-> u]
<1>1. /\ uploads[u].phase = "save" /\ Answer(u, "created") /\ UNCHANGED folder
      /\ rows' = [rows EXCEPT ![i] = saved]
  BY DEF Save
<1>2. i \in Rows /\ \A j \in Rows \ {i} : j # uploads[u].row
  BY ConstantsAssumption DEF Sound, Inv, Types, Upload, Rows, Copies
<1>3. uploads'[u].phase = "created"
  BY <1>1, AnswerIs DEF Sound, UploadAnswers
<1>4. ASSUME alone.who = u PROVE UploadOutcome(u)
  <2>1. folder = u /\ \A j \in Rows : j # uploads[u].row => rows[j] = alone.rows[j]
    BY <1>1, <1>4 DEF Sound, SoFar, UploadSoFar
  <2> HIDE DEF i, saved
  <2>2. rows'[i] = saved /\ \A j \in Rows \ {i} : rows'[j] = alone.rows[j]
    BY <1>1, <1>2, <2>1 DEF Sound, Inv, Types
  <2>3. folder' = u /\ \E k \in Rows : rows'[k] = saved /\ \A j \in Rows \ {k} : rows'[j] = alone.rows[j]
    BY <1>1, <1>2, <2>1, <2>2
  <2> QED
    BY <1>3, <2>3 DEF UploadOutcome, saved
<1> QED
  BY <1>1, <1>4, AnswerIsRight DEF UploadAnswers

LEMMA SaveFailsIsRight ==
  ASSUME Sound, NEW u \in Uploads, SaveFails(u)
  PROVE  UploadIsRight(u)
<1>1. uploads[u].phase = "save" /\ Answer(u, "preserved") /\ UNCHANGED <<folder, rows>>
  BY DEF SaveFails
<1>2. uploads'[u].phase = "preserved"
  BY <1>1, AnswerIs DEF Sound, UploadAnswers
<1>3. alone.who = u => folder = u /\ OnlyMissingMarked(rows)
  BY <1>1 DEF Sound, SoFar, UploadSoFar
<1>4. alone.who = u => UploadOutcome(u)
  BY <1>1, <1>2, <1>3 DEF UploadOutcome
<1> QED
  BY <1>1, <1>4, AnswerIsRight DEF UploadAnswers

LEMMA UploadStepIsRight ==
  ASSUME Sound, NEW u \in Uploads, UploadStep(u)
  PROVE  UploadIsRight(u)
<1>1. CASE RefuseDuplicate(u) \/ FailEarly(u)
  BY <1>1, RefusedIsRight DEF RefuseDuplicate, FailEarly
<1> QED
  BY <1>1, StartUploadIsRight, StatDuplicateIsRight, MarkDuplicateMissingIsRight,
     CheckFolderIsRight, DisplaceIsRight, InstallIsRight, InstallFailsIsRight, UndoIsRight,
     VerifyInstalledIsRight, SaveIsRight, SaveFailsIsRight DEF UploadStep

(* Faults only grow, and a request that begins counts those there have been.          *)
LEMMA FaultsCounted ==
  ASSUME Sound, UNCHANGED faults \/ Fault,
         \/ UNCHANGED alone \/ alone' = Stopped
         \/ alone'.faults = faults
  PROVE  alone'.faults \in Nat /\ alone'.faults <= faults'
<1>1. faults \in Nat /\ faults' \in Nat /\ faults <= faults'
  BY DEF Sound, Inv, Types, Fault
<1>2. alone.faults \in Nat /\ alone.faults <= faults
  BY DEF Sound, SoFar
<1>3. CASE alone'.faults = faults
  BY <1>1, <1>3
<1>4. CASE UNCHANGED alone
  BY <1>1, <1>2, <1>4
<1>5. CASE alone' = Stopped
  BY <1>1, <1>5 DEF Stopped
<1> QED
  BY <1>3, <1>4, <1>5

LEMMA UploadStepFaults ==
  ASSUME Sound, NEW u \in Uploads, UploadStep(u)
  PROVE  alone'.faults \in Nat /\ alone'.faults <= faults'
<1>1. UNCHANGED faults \/ Fault
  BY DEF UploadStep, StartUpload, StatDuplicate, RefuseDuplicate, MarkDuplicateMissing, FailEarly,
         CheckFolder, Displace, Install, InstallFails, Undo, VerifyInstalled, Save, SaveFails
<1>2. CASE StartUpload(u)
  <2>1. alone' = Stopped \/ alone'.faults = faults
    BY <1>2 DEF StartUpload, Begin
  <2> QED
    BY <1>1, <2>1, FaultsCounted
<1>3. CASE UNCHANGED alone \/ alone' = Stopped
  BY <1>1, <1>3, FaultsCounted
<1>4. CASE CheckFolder(u)
  <2>1. UNCHANGED alone \/ Answer(u, "refused")
    BY <1>4 DEF CheckFolder
  <2> QED
    BY <1>3, <2>1 DEF Answer
<1> QED
  BY <1>2, <1>3, <1>4
     DEF UploadStep, StatDuplicate, RefuseDuplicate, MarkDuplicateMissing, FailEarly, Displace,
         Install, InstallFails, Undo, VerifyInstalled, Save, SaveFails, Answer

LEMMA UploadStepSound ==
  ASSUME Sound, NEW u \in Uploads, UploadStep(u)
  PROVE  Sound'
<1>1. /\ alone'.who \in {u, Nobody}
      /\ UNCHANGED <<ext, deletes, check>> /\ UploadsKept(u)
      /\ uploads'[u].phase \notin {"install", "undo"} => uploads'[u].displaced = NoDir
  BY UploadAlone
<1>2. alone'.who \in {alone.who, Nobody} \/ ~InFlight
  <2>1. CASE StartUpload(u)
    BY <2>1 DEF StartUpload, Begin, Stopped
  <2>2. CASE CheckFolder(u)
    <3>1. UNCHANGED alone \/ Answer(u, "refused")
      BY <2>2 DEF CheckFolder
    <3> QED
      BY <3>1 DEF Answer, Stopped
  <2>3. CASE UNCHANGED alone \/ alone' = Stopped
    BY <2>3 DEF Stopped
  <2> QED
    BY <2>1, <2>2, <2>3
       DEF UploadStep, StatDuplicate, RefuseDuplicate, MarkDuplicateMissing, FailEarly, Displace,
           Install, InstallFails, Undo, VerifyInstalled, Save, SaveFails, Answer
<1>3. Lonely'
  BY <1>1, <1>2, ConstantsAssumption DEF Sound, Lonely, InFlight, UploadsKept
<1>4. Unheld'
  BY <1>1 DEF Sound, Unheld, UploadsKept
<1>6. alone'.faults \in Nat /\ alone'.faults <= faults'
  BY UploadStepFaults
<1>5. SoFar'
  BY <1>1, <1>6, UploadStepIsRight, ConstantsAssumption DEF SoFar, UploadIsRight
<1> QED
  BY <1>3, <1>4, <1>5, UploadStepInv DEF Sound

-----------------------------------------------------------------------------------
DeleteIsRight(d) ==
  /\ alone.who = d => DeleteOutcome(d)
  /\ alone'.who = d => DeleteSoFar(d)'

LEMMA DeleteAlone ==
  ASSUME Sound, NEW d \in Deletes, DeleteStep(d)
  PROVE  /\ alone'.who \in {d, Nobody}
         /\ alone'.who \in {alone.who, Nobody} \/ ~InFlight
         /\ UNCHANGED <<ext, uploads, check>> /\ DeletesKept(d)
         /\ deletes'[d].phase \notin {"rows", "restore", "purge"} => deletes'[d].staged = NoDir
<1>1. UNCHANGED <<ext, uploads, check>>
  BY DEF DeleteStep, StartDelete, LookForFolder, StageFolder, FailEarlyDelete, DeleteRow, DeleteRowFails,
         RestoreFolder, PurgeStaged
<1>2. alone'.who \in {alone.who, Nobody} \/ ~InFlight
  BY DEF DeleteStep, StartDelete, LookForFolder, StageFolder, FailEarlyDelete, DeleteRow, DeleteRowFails,
         RestoreFolder, PurgeStaged, Respond, Begin, Stopped
<1>3. \/ alone'.who = d
      \/ alone' = Stopped
      \/ alone' = alone /\ deletes[d].phase \in DeleteSteps
  BY DEF DeleteStep, StartDelete, LookForFolder, StageFolder, FailEarlyDelete, DeleteRow, DeleteRowFails,
         RestoreFolder, PurgeStaged, Respond, Begin, DeleteSteps
<1>4. alone'.who \in {d, Nobody}
  BY <1>3 DEF Sound, Lonely, Stopped
<1>5. ASSUME NEW p \in DeleteAnswers, Respond(d, p)
      PROVE  DeletesKept(d) /\ deletes'[d].staged = NoDir
  BY <1>5, RespondIs DEF Sound
<1>6. ASSUME NEW p \in {"rows", "restore", "purge"}, deletes' = [deletes EXCEPT ![d].phase = p]
      PROVE  DeletesKept(d) /\ deletes'[d].phase = p
  BY <1>6 DEF DeletesKept, Sound, Inv, Types, Delete
<1>7. DeletesKept(d) /\
      (deletes'[d].phase \notin {"rows", "restore", "purge"} => deletes'[d].staged = NoDir)
  <2>1. CASE \E i \in Rows : StartDelete(d, i)
    BY <2>1 DEF StartDelete, DeletesKept, Sound, Unheld, Inv, Types, Delete
  <2>2. CASE LookForFolder(d)
    BY <2>2 DEF LookForFolder, DeletesKept, Sound, Unheld, Inv, Types, Delete
  <2>3. CASE StageFolder(d)
    <3>1. CASE Respond(d, "failed")
      BY <1>5, <3>1 DEF DeleteAnswers
    <3>2. CASE deletes' = [deletes EXCEPT ![d].phase = "rows", ![d].staged = folder]
      BY <3>2 DEF DeletesKept, Sound, Inv, Types, Delete
    <3> QED
      BY <2>3, <3>1, <3>2 DEF StageFolder
  <2>4. CASE DeleteRow(d)
    BY <1>5, <1>6, <2>4 DEF DeleteRow, DeleteAnswers
  <2>5. CASE DeleteRowFails(d)
    BY <1>5, <1>6, <2>5 DEF DeleteRowFails, DeleteAnswers
  <2>6. CASE RestoreFolder(d) \/ PurgeStaged(d) \/ FailEarlyDelete(d)
    BY <1>5, <2>6 DEF RestoreFolder, PurgeStaged, FailEarlyDelete, DeleteAnswers
  <2> QED
    BY <2>1, <2>2, <2>3, <2>4, <2>5, <2>6 DEF DeleteStep
<1> QED
  BY <1>1, <1>2, <1>4, <1>7

LEMMA RespondIsRight ==
  ASSUME Sound, NEW d \in Deletes, NEW p \in DeleteAnswers, Respond(d, p),
         alone.who = d /\ DeleteSoFar(d) =>
           \/ p = "ok" /\ folder' = NoDir
              /\ rows' = [alone.rows EXCEPT ![deletes[d].row].status = "deleted"]
           \/ p = "failed" /\ folder' = alone.folder /\ rows' = alone.rows
           \/ p = "stranded" /\ Stranded(deletes[d].staged) /\ rows' = alone.rows
  PROVE  DeleteIsRight(d)
<1>1. alone'.who # d
  BY RespondIs, ConstantsAssumption DEF Sound
<1>2. deletes'[d].phase = p
  BY DEF Respond, Sound, Inv, Types, Delete
<1>3. ASSUME alone.who = d PROVE DeleteOutcome(d)
  <2>1. DeleteSoFar(d)
    BY <1>3 DEF Sound, SoFar
  <2> QED
    BY <1>2, <1>3, <2>1 DEF DeleteOutcome
<1> QED
  BY <1>1, <1>3 DEF DeleteIsRight

LEMMA StartDeleteIsRight ==
  ASSUME Sound, NEW d \in Deletes, NEW i \in Rows, StartDelete(d, i)
  PROVE  DeleteIsRight(d)
<1>1. /\ deletes'[d].phase = "look" /\ deletes'[d].row = i /\ Exists(i)
      /\ UNCHANGED <<folder, rows>>
  BY DEF StartDelete, Sound, Inv, Types, Delete
<1>2. alone'.who = d => alone'.folder = folder /\ alone'.rows = rows
  BY ConstantsAssumption DEF StartDelete, Begin, Stopped
<1> QED
  BY <1>1, <1>2 DEF DeleteIsRight, DeleteSoFar, DeleteOutcome, DeleteSteps, Exists

LEMMA LookForFolderIsRight ==
  ASSUME Sound, NEW d \in Deletes, LookForFolder(d)
  PROVE  DeleteIsRight(d)
<1>1. /\ deletes'[d].phase = IF folder = NoDir THEN "rows" ELSE "stage"
      /\ deletes'[d].staged = NoDir /\ deletes[d].phase = "look"
      /\ deletes'[d].row = deletes[d].row
      /\ UNCHANGED <<folder, rows, alone>>
  BY DEF LookForFolder, Sound, Unheld, Inv, Types, Delete
<1>2. alone.who = d => DeleteSoFar(d)
  BY DEF Sound, SoFar
<1> QED
  BY <1>1, <1>2 DEF DeleteIsRight, DeleteSoFar, DeleteOutcome, DeleteSteps, Exists

LEMMA StageFolderIsRight ==
  ASSUME Sound, NEW d \in Deletes, StageFolder(d)
  PROVE  DeleteIsRight(d)
<1>1. deletes[d].phase = "stage" /\ UNCHANGED rows
  BY DEF StageFolder
<1>2. CASE folder = NoDir
  <2>1. Respond(d, "failed")
    BY <1>2 DEF StageFolder
  <2>2. ~DeleteSoFar(d)
    BY <1>1, <1>2 DEF DeleteSoFar
  <2> QED
    BY <2>1, <2>2, RespondIsRight DEF DeleteAnswers
<1>3. CASE folder # NoDir
  <2>1. /\ folder' = NoDir /\ UNCHANGED alone
        /\ deletes'[d].phase = "rows" /\ deletes'[d].staged = folder
        /\ deletes'[d].row = deletes[d].row
    BY <1>3 DEF StageFolder, AfterRename, Sound, Inv, Types, Delete
  <2>2. alone.who = d => DeleteSoFar(d)
    BY DEF Sound, SoFar
  <2> QED
    BY <1>1, <2>1, <2>2 DEF DeleteIsRight, DeleteSoFar, DeleteOutcome, DeleteSteps, Exists
<1> QED
  BY <1>2, <1>3

LEMMA FailEarlyDeleteIsRight ==
  ASSUME Sound, NEW d \in Deletes, FailEarlyDelete(d)
  PROVE  DeleteIsRight(d)
<1>1. /\ deletes[d].phase \in {"look", "stage"} /\ UNCHANGED <<folder, rows>>
      /\ Respond(d, "failed")
  BY DEF FailEarlyDelete
<1>2. DeleteSoFar(d) => rows = alone.rows /\ folder = alone.folder
  BY <1>1 DEF DeleteSoFar
<1> QED
  BY <1>1, <1>2, RespondIsRight DEF DeleteAnswers

LEMMA DeleteRowIsRight ==
  ASSUME Sound, NEW d \in Deletes, DeleteRow(d)
  PROVE  DeleteIsRight(d)
<1>1. /\ deletes[d].phase = "rows" /\ UNCHANGED folder
      /\ rows' = [rows EXCEPT ![deletes[d].row].status = "deleted"]
  BY DEF DeleteRow
<1>2. DeleteSoFar(d) => rows = alone.rows /\ folder = NoDir
  BY <1>1 DEF DeleteSoFar
<1>3. CASE Respond(d, "ok")
  BY <1>1, <1>2, <1>3, RespondIsRight DEF DeleteAnswers
<1>4. CASE deletes' = [deletes EXCEPT ![d].phase = "purge"] /\ UNCHANGED alone
  <2>1. deletes'[d].phase = "purge" /\ deletes'[d].row = deletes[d].row
    BY <1>4 DEF Sound, Inv, Types, Delete
  <2>2. alone.who = d => DeleteSoFar(d)
    BY DEF Sound, SoFar
  <2> QED
    BY <1>1, <1>2, <1>4, <2>1, <2>2 DEF DeleteIsRight, DeleteSoFar, DeleteOutcome, DeleteSteps
<1> QED
  BY <1>3, <1>4 DEF DeleteRow

LEMMA DeleteRowFailsIsRight ==
  ASSUME Sound, NEW d \in Deletes, DeleteRowFails(d)
  PROVE  DeleteIsRight(d)
<1>1. deletes[d].phase = "rows" /\ UNCHANGED <<folder, rows>>
  BY DEF DeleteRowFails
<1>2. CASE deletes[d].staged = NoDir
  <2>1. Respond(d, "failed")
    BY <1>2 DEF DeleteRowFails
  <2>2. DeleteSoFar(d) => rows = alone.rows /\ folder = alone.folder
    BY <1>1, <1>2 DEF DeleteSoFar
  <2> QED
    BY <1>1, <2>1, <2>2, RespondIsRight DEF DeleteAnswers
<1>3. CASE deletes[d].staged # NoDir
  <2>1. deletes' = [deletes EXCEPT ![d].phase = "restore"] /\ UNCHANGED alone
    BY <1>3 DEF DeleteRowFails
  <2>2. /\ deletes'[d].phase = "restore" /\ deletes'[d].staged = deletes[d].staged
        /\ deletes'[d].row = deletes[d].row
    BY <2>1 DEF Sound, Inv, Types, Delete
  <2>3. ASSUME alone.who = d PROVE DeleteSoFar(d)'
    <3>1. DeleteSoFar(d) /\ Exists(deletes[d].row)
      BY <1>1, <2>3 DEF Sound, SoFar, DeleteSoFar
    <3>2. faults' > alone.faults
      BY <3>1 DEF DeleteRowFails, Fault, Sound, SoFar, Inv, Types
    <3> QED
      BY <1>1, <2>1, <2>2, <3>1, <3>2 DEF DeleteSoFar, DeleteSteps, Exists
  <2> QED
    BY <2>1, <2>2, <2>3 DEF DeleteIsRight, DeleteOutcome
<1> QED
  BY <1>2, <1>3

LEMMA RestoreFolderIsRight ==
  ASSUME Sound, NEW d \in Deletes, RestoreFolder(d)
  PROVE  DeleteIsRight(d)
<1>1. deletes[d].phase = "restore" /\ UNCHANGED rows
  BY DEF RestoreFolder
<1>2. DeleteSoFar(d) => /\ rows = alone.rows /\ folder = NoDir /\ faults > alone.faults
                        /\ deletes[d].staged = alone.folder
  BY <1>1 DEF DeleteSoFar
<1>3. CASE /\ folder' = RestoredFolder(d)
           /\ Respond(d, IF folder = NoDir THEN "failed" ELSE "stranded")
  <2>1. CASE folder = NoDir
    <3>1. Respond(d, "failed") /\ folder' = deletes[d].staged
      BY <1>3, <2>1 DEF RestoredFolder
    <3> QED
      BY <1>1, <1>2, <3>1, RespondIsRight DEF DeleteAnswers
  <2>2. CASE folder # NoDir
    <3>1. Respond(d, "stranded") /\ ~DeleteSoFar(d)
      BY <1>2, <1>3, <2>2
    <3> QED
      BY <3>1, RespondIsRight DEF DeleteAnswers
  <2> QED
    BY <2>1, <2>2
<1>4. CASE Fault /\ Respond(d, "stranded") /\ UNCHANGED folder
  <2>1. DeleteSoFar(d) => Stranded(deletes[d].staged) /\ rows' = alone.rows
    BY <1>1, <1>2, <1>4 DEF Fault, Stranded, Sound, SoFar, Inv, Types
  <2> QED
    BY <1>4, <2>1, RespondIsRight DEF DeleteAnswers
<1> QED
  BY <1>3, <1>4 DEF RestoreFolder

LEMMA PurgeStagedIsRight ==
  ASSUME Sound, NEW d \in Deletes, PurgeStaged(d)
  PROVE  DeleteIsRight(d)
<1>1. deletes[d].phase = "purge" /\ UNCHANGED <<folder, rows>> /\ Respond(d, "ok")
  BY DEF PurgeStaged
<1>2. DeleteSoFar(d) => /\ folder = NoDir
                        /\ rows = [alone.rows EXCEPT ![deletes[d].row].status = "deleted"]
  BY <1>1 DEF DeleteSoFar
<1> QED
  BY <1>1, <1>2, RespondIsRight DEF DeleteAnswers

LEMMA DeleteStepIsRight ==
  ASSUME Sound, NEW d \in Deletes, DeleteStep(d)
  PROVE  DeleteIsRight(d)
BY StartDeleteIsRight, LookForFolderIsRight, StageFolderIsRight, FailEarlyDeleteIsRight,
   DeleteRowIsRight,
   DeleteRowFailsIsRight, RestoreFolderIsRight, PurgeStagedIsRight DEF DeleteStep

LEMMA DeleteStepSound ==
  ASSUME Sound, NEW d \in Deletes, DeleteStep(d)
  PROVE  Sound'
<1>1. /\ alone'.who \in {d, Nobody}
      /\ alone'.who \in {alone.who, Nobody} \/ ~InFlight
      /\ UNCHANGED <<ext, uploads, check>> /\ DeletesKept(d)
      /\ deletes'[d].phase \notin {"rows", "restore", "purge"} => deletes'[d].staged = NoDir
  BY DeleteAlone
<1>2. Lonely'
  BY <1>1, ConstantsAssumption DEF Sound, Lonely, InFlight, DeletesKept
<1>3. Unheld'
  BY <1>1 DEF Sound, Unheld, DeletesKept
<1>5. alone'.faults \in Nat /\ alone'.faults <= faults'
  <2>1. UNCHANGED faults \/ Fault
    BY DEF DeleteStep, StartDelete, LookForFolder, StageFolder, FailEarlyDelete, DeleteRow,
           DeleteRowFails, RestoreFolder, PurgeStaged
  <2>2. \/ UNCHANGED alone \/ alone' = Stopped
        \/ alone'.faults = faults
    BY DEF DeleteStep, StartDelete, LookForFolder, StageFolder, FailEarlyDelete, DeleteRow,
           DeleteRowFails, RestoreFolder, PurgeStaged, Respond, Begin
  <2> QED
    BY <2>1, <2>2, FaultsCounted
<1>4. SoFar'
  BY <1>1, <1>5, DeleteStepIsRight, ConstantsAssumption DEF SoFar, DeleteIsRight
<1> QED
  BY <1>2, <1>3, <1>4, DeleteStepInv DEF Sound

-----------------------------------------------------------------------------------
LEMMA CheckIsRight ==
  ASSUME Sound, CheckStep
  PROVE  alone'.who = Checker => CheckSoFar'
<1>1. UNCHANGED <<folder, ext>>
  BY DEF CheckStep, StartCheck, StatRow, MarkRow, FinishCheck, FailCheck
<1>2. CASE StartCheck
  <2>1. /\ check'.phase = "scan" /\ UNCHANGED rows
        /\ check'.todo = {<<i, rows[i].ext>> : i \in {j \in Rows : Exists(j)}}
    BY <1>2 DEF StartCheck, IdleCheck
  <2> QED
    BY <2>1 DEF CheckSoFar, Exists
<1>3. ASSUME NEW known \in check.todo, StatRow(known), alone'.who = Checker
      PROVE  CheckSoFar'
  <2>1. /\ check.phase = "scan" /\ UNCHANGED <<rows, alone>>
        /\ check'.phase = "mark" /\ check'.todo = check.todo \ {known}
        /\ check'.row = known[1] /\ check'.seen = FileAt(known[2])
    BY <1>3 DEF StatRow
  <2>2. CheckSoFar
    BY <1>3, <2>1 DEF Sound, SoFar
  <2>3. check'.row \in Rows /\ (check'.seen <=> FileAt(rows[check'.row].ext))
    BY <2>1, <2>2 DEF CheckSoFar
  <2>4. \A i \in Rows : <<i, rows[i].ext>> = known => check'.row = i
    BY <2>1
  <2>5. \A i \in Rows : FileAt(rows[i].ext)' <=> FileAt(rows[i].ext)
    BY <1>1, <2>1 DEF FileAt
  <2>6. check'.phase = "mark" => check'.row \in Rows /\ (check'.seen <=> FileAt(rows[check.row].ext)')
    BY <1>1, <2>1, <2>3 DEF FileAt
  <2> QED
    BY <2>1, <2>2, <2>4, <2>5, <2>6 DEF CheckSoFar, Exists
<1>4. ASSUME MarkRow, alone'.who = Checker
      PROVE  CheckSoFar'
  <2>1. /\ check.phase = "mark" /\ UNCHANGED alone /\ rows' = Marked(check.row, check.seen)
        /\ check'.phase = "scan" /\ check'.todo = check.todo
    BY <1>4 DEF MarkRow, Sound, Inv, Types, Check
  <2>2. CheckSoFar
    BY <1>4, <2>1 DEF Sound, SoFar
  <2>3. \A i \in Rows :
          /\ rows'[i].ext = rows[i].ext
          /\ i # check.row => rows'[i] = rows[i]
          /\ Exists(i)' => Exists(i)
          /\ i = check.row /\ Exists(i) => (rows'[i].status = "available" <=> check.seen)
    BY <2>1 DEF Marked, Exists, Sound, Inv, Types, Row
  <2>4. \A i \in Rows : FileAt(rows[i].ext)' <=> FileAt(rows[i].ext)
    BY <1>1, <2>3 DEF FileAt
  <2> QED
    BY <2>1, <2>2, <2>3, <2>4 DEF CheckSoFar
<1>5. ASSUME FinishCheck \/ FailCheck PROVE alone'.who # Checker
  BY <1>5, ConstantsAssumption DEF FinishCheck, FailCheck, Stopped
<1> QED
  BY <1>2, <1>3, <1>4, <1>5 DEF CheckStep

LEMMA CheckStepSound ==
  ASSUME Sound, CheckStep
  PROVE  Sound'
<1>1. UNCHANGED <<folder, ext, uploads, deletes>>
  BY DEF CheckStep, StartCheck, StatRow, MarkRow, FinishCheck, FailCheck
<1>2. alone'.who \in {Checker, Nobody}
  <2>1. CASE StartCheck
    BY <2>1 DEF StartCheck, Begin, Stopped
  <2>2. CASE alone' = Stopped
    BY <2>2 DEF Stopped
  <2>3. CASE UNCHANGED alone /\ check.phase # "idle"
    BY <2>3 DEF Sound, Lonely
  <2> QED
    BY <2>1, <2>2, <2>3 DEF CheckStep, StatRow, MarkRow, FinishCheck, FailCheck
<1>3. alone'.who \in {alone.who, Nobody} \/ ~InFlight
  <2>1. CASE StartCheck
    BY <2>1 DEF StartCheck, Begin, Stopped
  <2>2. CASE alone' = Stopped \/ UNCHANGED alone
    BY <2>2 DEF Stopped
  <2> QED
    BY <2>1, <2>2 DEF CheckStep, StatRow, MarkRow, FinishCheck, FailCheck
<1>4. Lonely'
  BY <1>1, <1>2, <1>3 DEF Sound, Lonely, InFlight
<1>5. Unheld'
  BY <1>1 DEF Sound, Unheld
<1>7. alone'.faults \in Nat /\ alone'.faults <= faults'
  <2>1. UNCHANGED faults \/ Fault
    BY DEF CheckStep, StartCheck, StatRow, MarkRow, FinishCheck, FailCheck
  <2>2. \/ UNCHANGED alone \/ alone' = Stopped
        \/ alone'.faults = faults
    BY DEF CheckStep, StartCheck, StatRow, MarkRow, FinishCheck, FailCheck, Begin
  <2> QED
    BY <2>1, <2>2, FaultsCounted
<1>6. SoFar'
  BY <1>2, <1>7, CheckIsRight, ConstantsAssumption DEF SoFar
<1> QED
  BY <1>4, <1>5, <1>6, CheckStepInv DEF Sound

LEMMA WorldStepSound ==
  ASSUME Sound, WorldStep
  PROVE  Sound'
<1>1. alone' = Stopped
  BY DEF WorldStep, TakeAway, PutBack, Crash, Disturb
<1>5. faults' \in Nat
  <2>1. Fault
    BY DEF WorldStep, TakeAway, PutBack, Crash
  <2>2. faults' \in 0 .. MaxFaults
    BY <2>1, FaultIs DEF Sound
  <2> QED
    BY <2>2
<1>2. Lonely' /\ SoFar'
  BY <1>1, <1>5, ConstantsAssumption DEF Lonely, SoFar, Stopped
<1>3. Unheld'
  <2>1. CASE TakeAway \/ PutBack
    BY <2>1 DEF TakeAway, PutBack, Sound, Unheld
  <2>2. CASE Crash
    <3>1. \A u \in Uploads : uploads'[u] = uploads[u] \/ uploads'[u].displaced = NoDir
      BY <2>2 DEF Crash
    <3>2. \A d \in Deletes : deletes'[d] = deletes[d] \/ deletes'[d].staged = NoDir
      <4>1. \A d \in Deletes : [deletes[d] EXCEPT !.phase = "lost", !.staged = NoDir].staged = NoDir
        BY DEF Sound, Inv, Types, Delete
      <4> QED
        BY <2>2, <4>1 DEF Crash
    <3> QED
      BY <3>1, <3>2 DEF Sound, Unheld
  <2> QED
    BY <2>1, <2>2 DEF WorldStep
<1>4. Inv'
  BY TakeAwayInv, PutBackInv, CrashInv DEF WorldStep, Sound
<1> QED
  BY <1>2, <1>3, <1>4 DEF Sound

LEMMA NextSound == Sound /\ [Next]_vars => Sound'
<1> SUFFICES ASSUME Sound, [Next]_vars PROVE Sound'
  OBVIOUS
<1>1. CASE \E u \in Uploads : UploadStep(u)
  BY <1>1, UploadStepSound
<1>2. CASE \E d \in Deletes : DeleteStep(d)
  BY <1>2, DeleteStepSound
<1>3. CASE CheckStep
  BY <1>3, CheckStepSound
<1>4. CASE WorldStep
  BY <1>4, WorldStepSound
<1>5. CASE UNCHANGED vars
  <2>1. Inv'
    BY <1>5, NextInv DEF Sound
  <2>2. Lonely' /\ Unheld'
    BY <1>5 DEF vars, Sound, Lonely, Unheld
  <2>3. SoFar'
    BY <1>5 DEF vars, Sound, SoFar, UploadSoFar, DeleteSoFar, CheckSoFar, OnlyMissingMarked,
                FileAt, Exists
  <2> QED
    BY <2>1, <2>2, <2>3 DEF Sound
<1> QED
  BY <1>1, <1>2, <1>3, <1>4, <1>5 DEF Next

LEMMA SpecSound == Spec => []Sound
<1>1. Init => Sound
  BY InitSound
<1> QED
  BY <1>1, NextSound, PTL DEF Spec

(* A step of something else leaves a request that is alone at work, or loses it.      *)
LEMMA OthersAnswerNothing ==
  ASSUME Sound, [Next]_vars
  PROVE  /\ \A u \in Uploads : alone.who = u => UploadOutcome(u)
         /\ \A d \in Deletes : alone.who = d => DeleteOutcome(d)
<1>1. \A u \in Uploads : alone.who = u => uploads[u].phase \in UploadSteps
  BY DEF Sound, SoFar, UploadSoFar
<1>2. \A d \in Deletes : alone.who = d => deletes[d].phase \in DeleteSteps
  BY DEF Sound, SoFar, DeleteSoFar
<1>3. ASSUME NEW u \in Uploads, alone.who = u,
             uploads'[u] = uploads[u] \/ uploads'[u].phase = "lost"
      PROVE  UploadOutcome(u)
  BY <1>1, <1>3 DEF UploadOutcome, UploadSteps
<1>4. ASSUME NEW d \in Deletes, alone.who = d,
             deletes'[d] = deletes[d] \/ deletes'[d].phase = "lost"
      PROVE  DeleteOutcome(d)
  BY <1>2, <1>4 DEF DeleteOutcome, DeleteSteps
<1>5. ASSUME NEW v \in Uploads, UploadStep(v)
      PROVE  /\ \A u \in Uploads : alone.who = u => UploadOutcome(u)
             /\ \A d \in Deletes : alone.who = d => DeleteOutcome(d)
  <2>1. UploadsKept(v) /\ UNCHANGED deletes
    BY <1>5, UploadAlone
  <2>2. alone.who = v => UploadOutcome(v)
    BY <1>5, UploadStepIsRight DEF UploadIsRight
  <2> QED
    BY <1>3, <1>4, <2>1, <2>2 DEF UploadsKept
<1>6. ASSUME NEW e \in Deletes, DeleteStep(e)
      PROVE  /\ \A u \in Uploads : alone.who = u => UploadOutcome(u)
             /\ \A d \in Deletes : alone.who = d => DeleteOutcome(d)
  <2>1. DeletesKept(e) /\ UNCHANGED uploads
    BY <1>6, DeleteAlone
  <2>2. alone.who = e => DeleteOutcome(e)
    BY <1>6, DeleteStepIsRight DEF DeleteIsRight
  <2> QED
    BY <1>3, <1>4, <2>1, <2>2 DEF DeletesKept
<1>7. CASE CheckStep \/ TakeAway \/ PutBack \/ UNCHANGED vars
  <2>1. UNCHANGED <<uploads, deletes>>
    BY <1>7 DEF CheckStep, StartCheck, StatRow, MarkRow, FinishCheck, FailCheck, TakeAway, PutBack,
                vars
  <2> QED
    BY <1>3, <1>4, <2>1
<1>8. CASE Crash
  <2>1. \A u \in Uploads : uploads'[u] = uploads[u] \/ uploads'[u].phase = "lost"
    BY <1>8 DEF Crash
  <2>2. \A d \in Deletes : deletes'[d] = deletes[d] \/ deletes'[d].phase = "lost"
    <3>1. \A d \in Deletes : [deletes[d] EXCEPT !.phase = "lost", !.staged = NoDir].phase = "lost"
      BY DEF Sound, Inv, Types, Delete
    <3> QED
      BY <1>8, <3>1 DEF Crash
  <2> QED
    BY <1>3, <1>4, <2>1, <2>2
<1> QED
  BY <1>5, <1>6, <1>7, <1>8 DEF Next, WorldStep

(* An upload or a deletion that nothing else meets changes folder and rows together   *)
(* or not at all, whichever of its steps fails, in a library of any number of         *)
(* requests, faults and stops; and the ways in which it is left half-way are those    *)
(* AllOrNothing names, a folder left aside taking a second fault                      *)
(* (movie-upload-service.js:366-421, content-delete-service.js:174-193).              *)
THEOREM RequestsAreAtomic == Spec => AllOrNothing
<1>1. Sound /\ [Next]_vars =>
        [/\ \A u \in Uploads : alone.who = u => UploadOutcome(u)
         /\ \A d \in Deletes : alone.who = d => DeleteOutcome(d)]_vars
  BY OthersAnswerNothing
<1> QED
  BY <1>1, SpecSound, PTL DEF Spec, AllOrNothing

(* An availability check that nothing else meets leaves every row available exactly   *)
(* when its video is there.                                                           *)
THEOREM CheckRepairs == Spec => CheckHeals
<1>1. Sound /\ [Next]_vars =>
        [FinishCheck /\ alone.who = Checker =>
           \A i \in Rows :
             Exists(i) => (rows[i].status = "available" <=> FileAt(rows[i].ext))]_vars
  <2> SUFFICES ASSUME Sound, FinishCheck, alone.who = Checker
               PROVE  \A i \in Rows :
                        Exists(i) => (rows[i].status = "available" <=> FileAt(rows[i].ext))
    OBVIOUS
  <2>1. CheckSoFar /\ check.phase = "scan" /\ check.todo = {}
    BY DEF Sound, SoFar, FinishCheck
  <2> QED
    BY <2>1 DEF CheckSoFar
<1> QED
  BY <1>1, SpecSound, PTL DEF Spec, CheckHeals
===================================================================================
