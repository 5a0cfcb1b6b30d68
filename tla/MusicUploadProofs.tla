-------------------------- MODULE MusicUploadProofs --------------------------
(***************************************************************************)
(* Theorems about MusicUpload, for every number of sessions, handlers,     *)
(* pages, tracks and places and any number of faults:                      *)
(*   - no state is malformed (TypeCorrect);                                *)
(*   - a manifest is sound at every moment (ManifestsSound), and exact     *)
(*     between two operations (ManifestsExact);                            *)
(*   - nobody waits for a lock outside its queue, and a step of who holds  *)
(*     one is possible (NobodyForgotten, LocksPassed);                     *)
(*   - the module implements TrackFate (FateImplemented).                  *)
(*                                                                         *)
(* All rest on one inductive invariant, Inv.  Its parts say where a        *)
(* handler can be (Shaped), whose turn it is (SessionTurns, LibraryTurns), *)
(* what the disk and the database say of each other (DiskSound), what a    *)
(* handler may rely on between two of its steps although a sweep takes no  *)
(* lock (AtWork: its session is gone, or as it read it but for the track   *)
(* in its hand), and what holds of a session nobody works on (Rested).     *)
(* Most steps are one handler's on one session: the lemma OneStep says     *)
(* that they keep the rest as it was, AfterEnd and AfterGoOn what is left  *)
(* to show of a handler that ends or goes on.                              *)
(***************************************************************************)
EXTENDS MusicUpload, TLAPS

-----------------------------------------------------------------------------
(* The inductive invariant. *)

PhasesOf == [none   |-> {"idle"},
             create |-> {"received", "moved"} \cup Answers,
             tags   |-> {"queued", "write", "install", "record", "list"} \cup Answers,
             commit |-> {"queued", "edit", "move", "index", "undo", "record", "list"}
                          \cup Answers,
             cancel |-> {"queued", "record"} \cup Answers]

\* A handler is where its operation can be, with what it needs there.
Shaped(q) ==
  /\ q.phase \in PhasesOf[q.op]
  /\ q.op \in {"none", "create"} /\ q.phase \in {"idle", "received"} => q.session = None
  /\ q.op \in {"tags", "commit", "cancel"} \/ q.phase = "moved" => q.session \in Sessions
  /\ q.op \in {"tags", "commit"} => q.track \in Tracks
  /\ q.phase \in {"move", "index", "undo"} => q.tag \in Places

Working == {"write", "install", "edit", "move", "index", "undo", "record", "list"}
LibraryWork == {"edit", "move", "index", "undo"}

\* What waits in a queue is there once; what works is at the head of its queues.
Once(seq) == \A i, j \in DOMAIN seq : seq[i] = seq[j] => i = j

SessionTurns ==
  /\ \A s \in Sessions : Once(queue[s])
  /\ \A s \in Sessions : \A i \in DOMAIN queue[s] :
       /\ requests[queue[s][i]].session = s
       /\ requests[queue[s][i]].phase \in Working \cup {"queued"}
  /\ \A r \in Requests : requests[r].phase \in Working => MyTurn(r)

LibraryTurns ==
  /\ Once(edits)
  /\ \A i \in DOMAIN edits : requests[edits[i]].phase \in LibraryWork
  /\ \A r \in Requests : requests[r].phase \in LibraryWork \ {"edit"} => LibraryTurn(r)

\* What the disk and the database say of each other.
DiskSound ==
  /\ \A p \in Places : rows[p] # None => spot[rows[p]] = p
  /\ \A t \in aside : spot[t] \in Sessions
  /\ \A s \in Sessions : sessions[s].dir \in {"new", "absent"} => \A t \in Tracks : spot[t] # s
  /\ \A s \in stale : sessions[s].dir # "new"

\* A session is known once its directory is there.
Known ==
  /\ \A r \in Requests, s \in Sessions : requests[r].session = s => sessions[s].dir # "new"
  /\ \A c \in Pages, s \in Sessions : pages[c].session = s => sessions[s].dir # "new"

Creates(r, phase) == requests[r].op = "create" /\ requests[r].phase = phase

\* The files of an upload are its handler's alone until the session is published.
Received ==
  /\ \A r \in Requests : Creates(r, "received") =>
       \A t \in requests[r].batch : spot[t] = "incoming"
  /\ \A r, q \in Requests : Creates(r, "received") /\ Creates(q, "received") /\ r # q =>
       requests[r].batch \cap requests[q].batch = {}

Held(s) == {t \in Tracks : spot[t] = s}

Unpublished(r) ==
  LET s == requests[r].session IN
  /\ sessions[s].dir = "unlisted"
  /\ s \notin stale
  /\ Held(s) = requests[r].batch
  /\ requests[r].batch \cap aside = {}
  /\ \A c \in Pages : pages[c].session # s
  /\ \A q \in Requests \ {r} : requests[q].session # s
Moved == \A r \in Requests : Creates(r, "moved") => Unpublished(r)

\* The manifest of s is sound, or exact, whatever the state of the directory.
Sound(s) ==
  /\ Held(s) \subseteq sessions[s].manifest.pending
  /\ \A t \in sessions[s].manifest.imported : \E p \in Places : rows[p] = t
Present(s) == {t \in Tracks : spot[t] = s /\ t \notin aside}

\* The handler has touched the session: it is not going to be swept.
Touched(r) ==
  \/ requests[r].phase \in {"install", "index", "undo", "list"}
  \/ requests[r].phase = "record" /\ requests[r].op # "cancel"

\* The track the handler has taken out of what the manifest lists.
InHand(r) ==
  IF \/ requests[r].phase \in {"install", "index", "undo"}
     \/ requests[r].phase \in {"record", "list"} /\ requests[r].op = "commit"
  THEN {requests[r].track} ELSE {}

\* What the handler at work on a session finds there, unless it has been swept.
Intact(r) ==
  LET s == requests[r].session IN
  /\ sessions[s].dir = IF requests[r].phase = "list" THEN "unlisted" ELSE "listed"
  /\ sessions[s].manifest = requests[r].read
  /\ Sound(s)
  /\ requests[r].op # "cancel" => requests[r].track \in requests[r].read.pending
  /\ s \notin hurt => sessions[s].manifest.pending = Present(s) \cup InHand(r)

Swept(r) == sessions[requests[r].session].dir = "absent"

Where(r) ==
  LET q == requests[r] IN
  /\ q.phase = "install" => spot[q.track] = q.session /\ q.track \in aside
  /\ q.phase = "move" => ~PlaceTaken(q.tag)
  /\ q.phase \in {"index", "undo"} => spot[q.track] = q.tag /\ rows[q.tag] = None
  /\ q.phase \in {"record", "list"} /\ q.op = "commit" => \E p \in Places : rows[p] = q.track

AtWork(r) ==
  /\ Touched(r) => requests[r].session \notin stale /\ ~Swept(r)
  /\ Swept(r) \/ Intact(r)
  /\ Where(r)
Works == \A r \in Requests : requests[r].phase \in Working => AtWork(r)

\* Without a handler at work the manifest is exact.
Rested ==
  \A s \in Sessions \ hurt :
    /\ sessions[s].dir = "listed"
    /\ \A r \in Requests : requests[r].session = s => requests[r].phase \notin Working
    => sessions[s].manifest.pending = Present(s)

\* A handler and the page that waits for it know of each other.
Paged ==
  \A r \in Requests :
    LET q == requests[r] IN
    /\ q.page # None => pages[q.page].request = r
    /\ q.page # None /\ q.op = "tags" => q.track \in pages[q.page].pending
    /\ q.op = "tags" /\ q.phase \in Answers => q.ready \subseteq {q.track}
    /\ q.op = "create" /\ q.phase \in Answers => q.ready \subseteq q.batch

DiskPart == DiskSound /\ Known /\ Received /\ Moved /\ ManifestSound /\ Works /\ Rested

Inv ==
  /\ TypeOK
  /\ \A r \in Requests : Shaped(requests[r])
  /\ SessionTurns /\ LibraryTurns
  /\ DiskPart
  /\ Paged

-----------------------------------------------------------------------------
(* How handlers, queues and pages change. *)

\* An idle handler is one.
LEMMA IdleTyped == Idle \in Request
  BY ConstantsAssumption DEF Idle, Request, Phases, Blank, Manifest

\* A handler that answers is over, or has an answer for its page.
LEMMA Replied ==
  ASSUME TypeOK, NEW r \in Requests, NEW answer \in Answers, NEW ready \in SUBSET Tracks,
         Reply(r, answer, ready)
  PROVE  /\ requests' \in [Requests -> Request]
         /\ \A q \in Requests \ {r} : requests'[q] = requests[q]
         /\ \/ requests'[r] = Idle
            \/ /\ requests[r].page # None
               /\ requests'[r].page = requests[r].page
               /\ requests'[r].op = requests[r].op
               /\ requests'[r].phase = answer
               /\ requests'[r].session = requests[r].session
               /\ requests'[r].track = requests[r].track
               /\ requests'[r].batch = requests[r].batch
               /\ requests'[r].ready = ready
<1>1. requests[r] \in Request /\ requests \in [Requests -> Request]
  BY DEF TypeOK
<1>2. CASE requests[r].page = None
  <2>1. requests' = [requests EXCEPT ![r] = Idle]
    BY <1>1, <1>2 DEF Reply
  <2>. QED BY <1>1, <2>1, IdleTyped
<1>3. CASE requests[r].page # None
  <2>1. requests' = [requests EXCEPT ![r] = [requests[r] EXCEPT
           !.phase = answer, !.ready = ready, !.tag = None, !.read = Blank]]
    BY <1>1, <1>3 DEF Reply
  <2>2. [requests[r] EXCEPT !.phase = answer, !.ready = ready, !.tag = None, !.read = Blank]
          \in Request
    BY <1>1 DEF Request, Phases, Blank, Manifest
  <2>. QED BY <1>1, <1>3, <2>1, <2>2 DEF Request
<1>. QED BY <1>2, <1>3

\* A handler that goes on keeps all but its phase.
LEMMA Went ==
  ASSUME TypeOK, NEW r \in Requests, NEW phase \in Phases, GoTo(r, phase)
  PROVE  /\ requests' \in [Requests -> Request]
         /\ \A q \in Requests \ {r} : requests'[q] = requests[q]
         /\ requests'[r] = [requests[r] EXCEPT !.phase = phase]
         /\ requests'[r].phase = phase
         /\ requests'[r].page = requests[r].page
         /\ requests'[r].op = requests[r].op
         /\ requests'[r].session = requests[r].session
         /\ requests'[r].track = requests[r].track
         /\ requests'[r].tag = requests[r].tag
         /\ requests'[r].batch = requests[r].batch
         /\ requests'[r].read = requests[r].read
         /\ requests'[r].ready = requests[r].ready
<1>1. requests[r] \in Request /\ requests \in [Requests -> Request]
  BY DEF TypeOK
<1>2. [requests[r] EXCEPT !.phase = phase] \in Request
  BY <1>1 DEF Request
<1>3. requests' = [requests EXCEPT ![r] = [requests[r] EXCEPT !.phase = phase]]
  BY <1>1 DEF GoTo
<1>. QED BY <1>1, <1>2, <1>3 DEF Request

\* An answer nobody waits for any more.
LEMMA UnheardTyped ==
  ASSUME NEW q \in Request
  PROVE  /\ Unheard(q) \in Request
         /\ Unheard(q).page = None
         /\ Unheard(q) = Idle \/ Unheard(q) = [q EXCEPT !.page = None]
<1>1. CASE q.phase \in Answers
  BY <1>1, IdleTyped DEF Unheard, Idle
<1>2. CASE q.phase \notin Answers
  BY <1>2 DEF Unheard, Request
<1>. QED BY <1>1, <1>2

\* The queue of a session without its head.
LEMMA LeftTyped ==
  ASSUME TypeOK, NEW r \in Requests, requests[r].session \in Sessions, MyTurn(r), LeaveSession(r)
  PROVE  /\ queue' \in [Sessions -> Seq(Requests)]
         /\ queue'[requests[r].session] = Tail(queue[requests[r].session])
         /\ \A s \in Sessions \ {requests[r].session} : queue'[s] = queue[s]
<1>1. queue \in [Sessions -> Seq(Requests)]
  BY DEF TypeOK
<1>2. queue[requests[r].session] \in Seq(Requests) /\ queue[requests[r].session] # <<>>
  BY <1>1 DEF MyTurn
<1>3. Tail(queue[requests[r].session]) \in Seq(Requests)
  BY <1>2
<1>. QED BY <1>1, <1>3 DEF LeaveSession

\* The queue of the library without its head.
LEMMA LibraryLeftTyped ==
  ASSUME TypeOK, edits # <<>>
  PROVE  Tail(edits) \in Seq(Requests)
  BY DEF TypeOK

-----------------------------------------------------------------------------
(* Types. *)

\* The first state is well formed.
LEMMA InitTypes == ASSUME Init PROVE TypeOK
<1>1. Blank \in Manifest
  BY DEF Blank, Manifest
<1>2. [dir |-> "new", manifest |-> Blank] \in Directory
  BY <1>1 DEF Directory
<1>3. FreshPage \in Page /\ FreshPage.ready \subseteq FreshPage.pending
  BY DEF FreshPage, Page
<1>. QED BY <1>2, <1>3, IdleTyped, ConstantsAssumption DEF Init, TypeOK

\* A page sends a request.
LEMMA Sent ==
  ASSUME TypeOK, NEW c \in Pages, NEW r \in Requests, NEW q \in Request, Send(c, r, q)
  PROVE  /\ requests[r] = Idle
         /\ requests' \in [Requests -> Request]
         /\ \A i \in Requests \ {r} : requests'[i] = requests[i]
         /\ requests'[r] = [q EXCEPT !.page = c]
         /\ pages' = [pages EXCEPT ![c].request = r]
         /\ pages' \in [Pages -> Page]
         /\ \A d \in Pages : /\ pages'[d].ready = pages[d].ready
                             /\ pages'[d].pending = pages[d].pending
                             /\ pages'[d].session = pages[d].session
<1>1. requests \in [Requests -> Request] /\ pages \in [Pages -> Page]
  BY DEF TypeOK
<1>2. [q EXCEPT !.page = c] \in Request
  BY DEF Request
<1>3. /\ requests[r] = Idle
      /\ requests' = [requests EXCEPT ![r] = [q EXCEPT !.page = c]]
      /\ pages' = [pages EXCEPT ![c].request = r]
  BY DEF Send
<1>4. pages[c] \in Page /\ pages' = [pages EXCEPT ![c] = [pages[c] EXCEPT !.request = r]]
  BY <1>1, <1>3
<1>5. [pages[c] EXCEPT !.request = r] \in Page
  BY <1>4 DEF Page
<1>. QED BY <1>1, <1>2, <1>3, <1>4, <1>5 DEF Page

\* A request about the session of a page.
Question(c, op, t, p) ==
  [Idle EXCEPT !.op = op, !.phase = "queued", !.session = pages[c].session,
               !.track = t, !.tag = p]

\* What a page asks is a request, about a session.
LEMMA QuestionTyped ==
  ASSUME TypeOK, NEW c \in Pages, pages[c].session # None,
         NEW op \in {"tags", "commit", "cancel"}, NEW t \in Tracks \cup {None},
         NEW p \in Places \cup {None}
  PROVE  /\ Question(c, op, t, p) \in Request
         /\ pages[c].session \in Sessions
<1>1. pages[c] \in Page
  BY DEF TypeOK
<1>2. pages[c].session \in Sessions
  BY <1>1 DEF Page
<1>. QED BY <1>2, IdleTyped, ZenonT(60) DEF Question, Request, Phases

\* What a page changes when it asks.
LEMMA Asked ==
  ASSUME TypeOK, NEW c \in Pages, NEW r \in Requests,
         NEW op \in {"tags", "commit", "cancel"}, NEW t \in Tracks \cup {None},
         NEW p \in Places \cup {None}, Ask(c, r, op, t, p)
  PROVE  /\ pages[c].session \in Sessions
         /\ Question(c, op, t, p) \in Request
         /\ Send(c, r, Question(c, op, t, p))
         /\ queue' = [queue EXCEPT ![pages[c].session] = Append(@, r)]
         /\ queue' \in [Sessions -> Seq(Requests)]
         /\ UNCHANGED <<disk, edits, faults, hurt>>
<1>1. pages[c].session # None
  BY DEF Ask
<1>2. pages[c].session \in Sessions /\ Question(c, op, t, p) \in Request
  BY <1>1, QuestionTyped
<1>3. /\ Send(c, r, Question(c, op, t, p))
      /\ queue' = [queue EXCEPT ![pages[c].session] = Append(@, r)]
      /\ UNCHANGED <<disk, edits, faults, hurt>>
  BY DEF Ask, Question
<1>. QED BY <1>2, <1>3 DEF TypeOK

\* Asking keeps the types.
LEMMA AskTypes ==
  ASSUME TypeOK, NEW c \in Pages, NEW r \in Requests,
         NEW op \in {"tags", "commit", "cancel"}, NEW t \in Tracks \cup {None},
         NEW p \in Places \cup {None}, Ask(c, r, op, t, p)
  PROVE  TypeOK'
<1>1. PICK q \in Request : Send(c, r, q)
  BY Asked
<1>2. /\ requests' \in [Requests -> Request]
      /\ pages' \in [Pages -> Page]
      /\ \A d \in Pages : pages'[d].ready = pages[d].ready /\ pages'[d].pending = pages[d].pending
  BY <1>1, Sent
<1>3. /\ queue' \in [Sessions -> Seq(Requests)]
      /\ UNCHANGED <<disk, edits, faults, hurt>>
  BY Asked
<1>. QED BY <1>2, <1>3 DEF TypeOK, disk

\* So does uploading ...
LEMMA UploadTypes ==
  ASSUME TypeOK, NEW c \in Pages, NEW r \in Requests, NEW T \in SUBSET Tracks,
         PageUpload(c, r, T)
  PROVE  TypeOK'
<1>1. [Idle EXCEPT !.op = "create", !.phase = "received", !.batch = T] \in Request
  BY IdleTyped DEF Request, Phases
<1>2. /\ requests' \in [Requests -> Request]
      /\ pages' \in [Pages -> Page]
      /\ \A d \in Pages : pages'[d].ready = pages[d].ready /\ pages'[d].pending = pages[d].pending
  BY <1>1, Sent DEF PageUpload
<1>3. spot' \in [Tracks -> {"outside", "incoming", "gone"} \cup Sessions \cup Places]
  BY DEF PageUpload, TypeOK
<1>. QED BY <1>2, <1>3 DEF PageUpload, TypeOK

\* ... choosing what to import ...
LEMMA ImportTypes ==
  ASSUME TypeOK, NEW c \in Pages, NEW T \in SUBSET Tracks, PageImport(c, T)
  PROVE  TypeOK'
<1>1. pages[c] \in Page /\ [pages[c] EXCEPT !.batch = T] \in Page
  BY DEF TypeOK, Page
<1>2. pages' = [pages EXCEPT ![c] = [pages[c] EXCEPT !.batch = T]]
  BY <1>1 DEF PageImport, TypeOK
<1>3. /\ pages' \in [Pages -> Page]
      /\ \A d \in Pages : pages'[d].ready = pages[d].ready /\ pages'[d].pending = pages[d].pending
  BY <1>1, <1>2 DEF TypeOK, Page
<1>. QED BY <1>3 DEF PageImport, TypeOK, disk

\* What a page makes of an answer is a page, which knows the tracks it calls ready.
LEMMA AnswerTyped ==
  ASSUME TypeOK, Paged, NEW r \in Requests, Shaped(requests[r]), NEW c \in Pages,
         requests[r].page = c, requests[r].phase \in Answers
  PROVE  /\ AfterAnswer(pages[c], r) \in Page
         /\ AfterAnswer(pages[c], r).ready \subseteq AfterAnswer(pages[c], r).pending
<1>. DEFINE q == requests[r]
<1>1. q \in Request /\ pages[c] \in Page /\ pages[c].ready \subseteq pages[c].pending
  BY DEF TypeOK
<1>2. FreshPage \in Page
  BY DEF FreshPage, Page
<1>3. c # None
  BY ConstantsAssumption
<1>4. CASE q.phase = "refused"
  <2>1. AfterAnswer(pages[c], r) = [pages[c] EXCEPT !.request = None, !.batch = {}]
    BY <1>4 DEF AfterAnswer
  <2>. QED BY <1>1, <2>1 DEF Page
<1>5. CASE q.phase # "refused" /\ (q.phase = "complete" \/ q.op = "cancel")
  <2>1. AfterAnswer(pages[c], r) = FreshPage
    BY <1>5 DEF AfterAnswer
  <2>. QED BY <1>2, <2>1 DEF FreshPage
<1>6. CASE ~(q.phase = "refused") /\ ~(q.phase = "complete" \/ q.op = "cancel") /\ q.op = "create"
  <2>1. AfterAnswer(pages[c], r) = [FreshPage EXCEPT !.session = q.session, !.pending = q.batch,
                                                     !.ready = q.ready]
    BY <1>6 DEF AfterAnswer
  <2>2. q.ready \subseteq q.batch
    BY <1>6 DEF Paged
  <2>. QED BY <1>1, <2>1, <2>2 DEF FreshPage, Page, Request
<1>7. CASE ~(q.phase = "refused") /\ ~(q.phase = "complete" \/ q.op = "cancel") /\ q.op = "tags"
  <2>. DEFINE P == pages[c].pending
              R == (pages[c].ready \ {q.track}) \cup q.ready
  <2>1. AfterAnswer(pages[c], r) = [pages[c] EXCEPT !.request = None, !.ready = R]
    BY <1>7 DEF AfterAnswer
  <2>2. q.ready \subseteq {q.track} /\ q.track \in P
    BY <1>3, <1>7 DEF Paged
  <2>3. P \in SUBSET Tracks /\ R \in SUBSET P /\ pages[c].pending = P
    BY <1>1, <2>2 DEF Page
  <2>. HIDE DEF P, R
  <2>4. LET kept == [pages[c] EXCEPT !.request = None, !.ready = R]
        IN  kept \in Page /\ kept.ready \subseteq kept.pending
    BY <1>1, <2>3 DEF Page
  <2>. QED BY <2>1, <2>4
<1>8. CASE ~(q.phase = "refused") /\ ~(q.phase = "complete" \/ q.op = "cancel")
           /\ q.op # "create" /\ q.op # "tags"
  <2>. DEFINE P == pages[c].pending \ {q.track}
              R == pages[c].ready \ {q.track}
              B == pages[c].batch \ {q.track}
  <2>1. AfterAnswer(pages[c], r) =
          [pages[c] EXCEPT !.request = None, !.pending = P, !.ready = R, !.batch = B]
    BY <1>8 DEF AfterAnswer
  <2>2. P \in SUBSET Tracks /\ R \in SUBSET P /\ B \in SUBSET Tracks
    BY <1>1 DEF Page
  <2>. HIDE DEF P, R, B
  <2>3. LET new == [pages[c] EXCEPT !.request = None, !.pending = P, !.ready = R, !.batch = B]
        IN  new \in Page /\ new.ready \subseteq new.pending
    BY <1>1, <2>2 DEF Page
  <2>. QED BY <2>1, <2>3
<1>. QED BY <1>4, <1>5, <1>6, <1>7, <1>8

\* A page takes the answer to its request.
LEMMA Delivered ==
  ASSUME TypeOK, Paged, NEW r \in Requests, Shaped(requests[r]), Deliver(r)
  PROVE  /\ requests' \in [Requests -> Request]
         /\ requests'[r] = Idle
         /\ \A q \in Requests \ {r} : requests'[q] = requests[q]
         /\ pages' \in [Pages -> Page]
         /\ \A c \in Pages : pages'[c].ready \subseteq pages'[c].pending
         /\ \A c \in Pages : pages'[c] = IF c = requests[r].page THEN AfterAnswer(pages[c], r)
                                                                 ELSE pages[c]
<1>. DEFINE c == requests[r].page
<1>1. requests' \in [Requests -> Request] /\ requests'[r] = Idle
      /\ \A q \in Requests \ {r} : requests'[q] = requests[q]
  BY IdleTyped DEF Deliver, TypeOK
<1>2. c \in Pages \cup {None}
  BY DEF TypeOK, Request
<1>3. pages' = [pages EXCEPT ![c] = AfterAnswer(@, r)] /\ requests[r].phase \in Answers
  BY DEF Deliver
<1>4. CASE c \in Pages
  <2>1. AfterAnswer(pages[c], r) \in Page
        /\ AfterAnswer(pages[c], r).ready \subseteq AfterAnswer(pages[c], r).pending
    BY <1>3, <1>4, AnswerTyped
  <2>2. pages' = [pages EXCEPT ![c] = AfterAnswer(pages[c], r)]
    BY <1>3, <1>4 DEF TypeOK
  <2>. QED BY <1>1, <1>4, <2>1, <2>2 DEF TypeOK
<1>5. CASE c = None
  <2>1. c \notin Pages
    BY <1>5, ConstantsAssumption
  <2>2. pages' = pages
    BY <1>3, <2>1 DEF TypeOK
  <2>. QED BY <1>1, <2>1, <2>2 DEF TypeOK
<1>. QED BY <1>2, <1>4, <1>5

\* ... taking an answer ...
LEMMA DeliverTypes ==
  ASSUME TypeOK, Paged, NEW r \in Requests, Shaped(requests[r]), Deliver(r)
  PROVE  TypeOK'
<1>1. UNCHANGED <<disk, queue, edits, faults, hurt>>
  BY DEF Deliver
<1>. QED BY <1>1, Delivered DEF TypeOK, disk

\* A page stops waiting: an answer that is there is lost, a handler goes on.
LEMMA Lost ==
  ASSUME TypeOK, NEW c \in Pages, LoseAnswer(c)
  PROVE  /\ pages[c].request \in Requests
         /\ requests' \in [Requests -> Request]
         /\ \A q \in Requests : requests'[q] = IF q = pages[c].request THEN Unheard(requests[q])
                                               ELSE requests[q]
         /\ pages' \in [Pages -> Page]
         /\ pages'[c].request = None
         /\ \A d \in Pages : /\ pages'[d].ready = pages[d].ready
                             /\ pages'[d].pending = pages[d].pending
                             /\ pages'[d].session = pages[d].session
         /\ \A d \in Pages \ {c} : pages'[d] = pages[d]
<1>1. pages[c] \in Page /\ pages[c].request # None
  BY DEF LoseAnswer, TypeOK
<1>2. pages[c].request \in Requests
  BY <1>1 DEF Page
<1>3. Unheard(requests[pages[c].request]) \in Request
  BY <1>2, UnheardTyped DEF TypeOK
<1>4. requests' = [requests EXCEPT ![pages[c].request] = Unheard(requests[pages[c].request])]
  BY <1>2 DEF LoseAnswer, TypeOK
<1>5. pages' = [pages EXCEPT ![c] = [pages[c] EXCEPT !.request = None, !.batch = {}]]
  BY DEF LoseAnswer, TypeOK
<1>6. [pages[c] EXCEPT !.request = None, !.batch = {}] \in Page
  BY <1>1 DEF Page
<1>7. requests' \in [Requests -> Request]
      /\ \A q \in Requests : requests'[q] = IF q = pages[c].request THEN Unheard(requests[q])
                                            ELSE requests[q]
  BY <1>2, <1>3, <1>4 DEF TypeOK
<1>. QED BY <1>1, <1>2, <1>5, <1>6, <1>7 DEF TypeOK, Page

\* ... losing one ...
LEMMA LoseTypes ==
  ASSUME TypeOK, NEW c \in Pages, LoseAnswer(c)
  PROVE  TypeOK'
<1>1. UNCHANGED <<disk, queue, edits, faults, hurt>>
  BY DEF LoseAnswer
<1>. QED BY <1>1, Lost DEF TypeOK, disk

\* A page that is loaded again knows nothing, and nobody waits for its answers.
LEMMA Reloaded ==
  ASSUME TypeOK, NEW c \in Pages, PageReload(c)
  PROVE  /\ requests' \in [Requests -> Request]
         /\ \A q \in Requests : requests'[q] = IF requests[q].page = c THEN Unheard(requests[q])
                                               ELSE requests[q]
         /\ pages' \in [Pages -> Page]
         /\ pages'[c] = FreshPage
         /\ \A d \in Pages \ {c} : pages'[d] = pages[d]
<1>1. FreshPage \in Page
  BY DEF FreshPage, Page
<1>2. \A q \in Requests : Unheard(requests[q]) \in Request
  BY UnheardTyped DEF TypeOK
<1>. QED BY <1>1, <1>2 DEF PageReload, TypeOK

\* ... and loading the page again.
LEMMA ReloadTypes ==
  ASSUME TypeOK, NEW c \in Pages, PageReload(c)
  PROVE  TypeOK'
<1>1. UNCHANGED <<disk, queue, edits, faults, hurt>>
  BY DEF PageReload
<1>2. FreshPage.ready \subseteq FreshPage.pending
  BY DEF FreshPage
<1>3. \A d \in Pages : pages'[d].ready \subseteq pages'[d].pending
  BY <1>2, Reloaded DEF TypeOK
<1>. QED BY <1>1, <1>3, Reloaded DEF TypeOK, disk

\* What a handler at a phase is about.
LEMMA About ==
  ASSUME TypeOK, NEW r \in Requests, Shaped(requests[r])
  PROVE  LET q == requests[r] IN
         /\ q \in Request
         /\ q.phase \in Working \cup {"queued"} =>
              q.op \in {"tags", "commit", "cancel"} /\ q.session \in Sessions
         /\ q.phase \in {"write", "install"} => q.op = "tags" /\ q.track \in Tracks
         /\ q.phase \in LibraryWork => q.op = "commit" /\ q.track \in Tracks
         /\ q.phase = "list" => q.op \in {"tags", "commit"} /\ q.track \in Tracks
         /\ q.phase \in {"record", "list"} /\ q.op \in {"tags", "commit"} => q.track \in Tracks
         /\ q.phase \in {"move", "index", "undo"} => q.tag \in Places
<1>1. requests[r] \in Request
  BY DEF TypeOK
<1>2. requests[r].op \in {"none", "create", "tags", "commit", "cancel"}
  BY <1>1 DEF Request
<1>. QED BY <1>1, <1>2 DEF Shaped, PhasesOf, Working, LibraryWork, Answers

\* A directory that is created, listed, unlisted or removed is one.
LEMMA SessionTyped ==
  ASSUME TypeOK, NEW s \in Sessions, NEW d \in {"new", "listed", "unlisted", "absent"},
         NEW m \in Manifest
  PROVE  /\ [dir |-> d, manifest |-> m] \in Directory
         /\ [sessions EXCEPT ![s] = [dir |-> d, manifest |-> m]] \in [Sessions -> Directory]
         /\ [sessions EXCEPT ![s].dir = d] \in [Sessions -> Directory]
<1>1. sessions \in [Sessions -> Directory] /\ sessions[s] \in Directory
  BY DEF TypeOK
<1>2. [dir |-> d, manifest |-> m] \in Directory
  BY DEF Directory
<1>3. [sessions[s] EXCEPT !.dir = d] \in Directory
  BY <1>1 DEF Directory
<1>4. [sessions EXCEPT ![s].dir = d] = [sessions EXCEPT ![s] = [sessions[s] EXCEPT !.dir = d]]
  BY <1>1
<1>. QED BY <1>1, <1>2, <1>3, <1>4

\* The manifest of no tracks is one.
LEMMA BlankTyped == Blank \in Manifest
  BY DEF Blank, Manifest

Spots == [Tracks -> {"outside", "incoming", "gone"} \cup Sessions \cup Places]

\* A faulty step counts its fault; hurt only has sessions.
LEMMA FaultTyped ==
  ASSUME TypeOK, faults < MaxFaults
  PROVE  faults + 1 \in 0..MaxFaults
  BY ConstantsAssumption DEF TypeOK

\* The steps of the handlers keep the types: creating a session ...
LEMMA MoveIntoSessionTypes ==
  ASSUME TypeOK, NEW r \in Requests, NEW s \in Sessions, MoveIntoSession(r, s)
  PROVE  /\ TypeOK'
         /\ \A q \in Requests \ {r} : requests'[q] = requests[q]
         /\ requests'[r] = [requests[r] EXCEPT !.phase = "moved", !.session = s]
<1>1. requests \in [Requests -> Request] /\ requests[r] \in Request
  BY DEF TypeOK
<1>2. requests' = [requests EXCEPT ![r] = [requests[r] EXCEPT !.phase = "moved", !.session = s]]
  BY <1>1 DEF MoveIntoSession
<1>3. [requests[r] EXCEPT !.phase = "moved", !.session = s] \in Request
  BY <1>1 DEF Request, Phases
<1>4. requests' \in [Requests -> Request]
  BY <1>1, <1>2, <1>3
<1>5. sessions' \in [Sessions -> Directory]
  BY SessionTyped, BlankTyped DEF MoveIntoSession
<1>6. spot' \in Spots
  BY DEF MoveIntoSession, TypeOK, Spots
<1>7. UNCHANGED <<aside, tags, rows, stale, queue, edits, pages, faults, hurt>>
  BY DEF MoveIntoSession
<1>. QED BY <1>1, <1>2, <1>4, <1>5, <1>6, <1>7 DEF TypeOK, Spots

\* ... publishing it ...
LEMMA PublishTypes ==
  ASSUME TypeOK, NEW r \in Requests, Shaped(requests[r]), PublishSession(r)
  PROVE  TypeOK'
<1>1. requests[r].session \in Sessions /\ requests[r].batch \in SUBSET Tracks
  BY DEF TypeOK, Request, PublishSession, Shaped
<1>2. [pending |-> requests[r].batch, imported |-> {}] \in Manifest
  BY <1>1 DEF Manifest
<1>3. sessions' \in [Sessions -> Directory]
  BY <1>1, <1>2, SessionTyped DEF PublishSession
<1>4. {t \in requests[r].batch : tags[t] # None} \in SUBSET Tracks
  BY <1>1
<1>5. requests' \in [Requests -> Request]
  BY <1>4, Replied DEF PublishSession, Answers
<1>6. UNCHANGED <<spot, aside, tags, rows, stale, queue, edits, pages, faults, hurt>>
  BY DEF PublishSession
<1>. QED BY <1>3, <1>5, <1>6 DEF TypeOK

\* ... failing to ...
LEMMA CreateFailsTypes ==
  ASSUME TypeOK, NEW r \in Requests, CreateFails(r)
  PROVE  TypeOK'
<1>1. requests[r] \in Request
  BY DEF TypeOK
<1>2. requests' \in [Requests -> Request]
  BY Replied DEF CreateFails, Answers
<1>3. sessions' \in [Sessions -> Directory]
  <2>1. CASE requests[r].session = None
    BY <2>1 DEF CreateFails, TypeOK
  <2>2. CASE requests[r].session # None
    <3>1. requests[r].session \in Sessions
      BY <1>1, <2>2 DEF Request
    <3>. QED BY <2>2, <3>1, SessionTyped, BlankTyped DEF CreateFails
  <2>. QED BY <2>1, <2>2
<1>4. spot' \in Spots
  BY DEF CreateFails, TypeOK, Spots
<1>5. UNCHANGED <<aside, tags, rows, stale, queue, edits, pages, faults, hurt>>
  BY DEF CreateFails
<1>. QED BY <1>2, <1>3, <1>4, <1>5 DEF TypeOK, Spots

\* ... reading a manifest ...
LEMMA ReadTypes ==
  ASSUME TypeOK, NEW r \in Requests, Shaped(requests[r]), ReadManifest(r)
  PROVE  /\ TypeOK'
         /\ requests[r].op \in {"tags", "commit", "cancel"} /\ requests[r].session \in Sessions
         /\ \A q \in Requests \ {r} : requests'[q] = requests[q]
         /\ requests'[r] = [requests[r] EXCEPT
              !.phase = FirstPhase[requests[r].op],
              !.read = sessions[requests[r].session].manifest]
<1>. DEFINE phase == FirstPhase[requests[r].op]
            manifest == sessions[requests[r].session].manifest
<1>1. /\ requests \in [Requests -> Request] /\ requests[r] \in Request
      /\ requests[r].phase = "queued"
  BY DEF TypeOK, ReadManifest
<1>2. requests[r].op \in {"tags", "commit", "cancel"} /\ requests[r].session \in Sessions
  BY <1>1, About
<1>3. phase \in Phases
  BY <1>2 DEF FirstPhase, Phases
<1>4. manifest \in Manifest
  BY <1>2 DEF TypeOK, Directory
<1>5. requests' = [requests EXCEPT ![r].phase = phase, ![r].read = manifest]
  BY DEF ReadManifest
<1>. HIDE DEF phase, manifest
<1>6. requests' = [requests EXCEPT ![r] = [requests[r] EXCEPT !.phase = phase, !.read = manifest]]
  BY <1>1, <1>5
<1>7. [requests[r] EXCEPT !.phase = phase, !.read = manifest] \in Request
  BY <1>1, <1>3, <1>4 DEF Request
<1>8. /\ requests' \in [Requests -> Request]
      /\ requests'[r] = [requests[r] EXCEPT !.phase = phase, !.read = manifest]
      /\ \A q \in Requests \ {r} : requests'[q] = requests[q]
  BY <1>1, <1>6, <1>7
<1>9. edits' \in Seq(Requests) /\ UNCHANGED <<disk, queue, pages, faults, hurt>>
  BY DEF ReadManifest, TypeOK
<1>. QED BY <1>2, <1>8, <1>9 DEF TypeOK, disk, phase, manifest

\* A handler that ends is well formed, and so is the queue it leaves.
LEMMA EndTyped ==
  ASSUME TypeOK, NEW r \in Requests, Shaped(requests[r]), MyTurn(r),
         requests[r].phase \in Working \cup {"queued"},
         NEW answer \in Answers, Answer(r, answer)
  PROVE  /\ requests' \in [Requests -> Request]
         /\ queue' \in [Sessions -> Seq(Requests)]
<1>1. {} \in SUBSET Tracks
  OBVIOUS
<1>2. requests[r].session \in Sessions
  BY About
<1>3. Reply(r, answer, {}) /\ LeaveSession(r)
  BY DEF Answer
<1>. QED BY <1>1, <1>2, <1>3, Replied, LeftTyped

\* ... going on ...
LEMMA GoOnTypes ==
  ASSUME TypeOK, NEW r \in Requests, Shaped(requests[r]),
         SetAside(r) \/ InstallTagged(r) \/ CheckImport(r) \/ MoveIntoLibrary(r) \/ IndexTrack(r)
           \/ IndexFails(r) \/ SwapManifest(r),
         LibraryTurns
  PROVE  TypeOK'
<1>1. requests \in [Requests -> Request] /\ requests[r] \in Request
  BY DEF TypeOK
<1>2. CASE SetAside(r)
  <2>1. requests[r].track \in Tracks
    BY <1>2, About DEF SetAside
  <2>2. requests' \in [Requests -> Request]
    BY <1>2, Went DEF SetAside, Phases
  <2>. QED BY <1>2, <2>1, <2>2 DEF SetAside, Touch, TypeOK
<1>3. CASE InstallTagged(r)
  <2>1. requests[r].track \in Tracks /\ requests[r].tag \in Places \cup {None}
    BY <1>1, <1>3, About DEF InstallTagged, Request
  <2>2. requests' \in [Requests -> Request]
    BY <1>3, Went DEF InstallTagged, Phases
  <2>. QED BY <1>3, <2>1, <2>2 DEF InstallTagged, TypeOK
<1>4. CASE CheckImport(r)
  <2>1. tags[requests[r].track] \in Places \cup {None}
    BY <1>4, About DEF CheckImport, TypeOK, LibraryWork
  <2>. DEFINE p == tags[requests[r].track]
  <2>2. requests' = [requests EXCEPT ![r].phase = "move", ![r].tag = p]
    BY <1>4 DEF CheckImport
  <2>. HIDE DEF p
  <2>3. requests' = [requests EXCEPT ![r] = [requests[r] EXCEPT !.phase = "move", !.tag = p]]
    BY <1>1, <2>2
  <2>4. p \in Places \cup {None}
    BY <2>1 DEF p
  <2>5. [requests[r] EXCEPT !.phase = "move", !.tag = p] \in Request
    BY <1>1, <2>4 DEF Request, Phases
  <2>6. requests' \in [Requests -> Request]
    BY <1>1, <2>3, <2>5
  <2>. QED BY <1>4, <2>6 DEF CheckImport, TypeOK, disk
<1>5. CASE MoveIntoLibrary(r)
  <2>1. requests[r].track \in Tracks /\ requests[r].tag \in Places
    BY <1>5, About DEF MoveIntoLibrary, LibraryWork
  <2>2. requests' \in [Requests -> Request]
    BY <1>5, Went DEF MoveIntoLibrary, Phases
  <2>3. spot' \in Spots
    BY <1>5, <2>1 DEF MoveIntoLibrary, MovedTo, TypeOK, Spots
  <2>. QED BY <1>5, <2>2, <2>3 DEF MoveIntoLibrary, Touch, TypeOK, Spots
<1>6. CASE IndexTrack(r)
  <2>1. requests[r].track \in Tracks /\ requests[r].tag \in Places
    BY <1>6, About DEF IndexTrack, LibraryWork
  <2>2. requests' \in [Requests -> Request]
    BY <1>6, Went DEF IndexTrack, Phases
  <2>3. edits # <<>>
    BY <1>6 DEF IndexTrack, LibraryTurns, LibraryTurn, LibraryWork
  <2>. QED BY <1>6, <2>1, <2>2, <2>3, LibraryLeftTyped DEF IndexTrack, TypeOK
<1>7. CASE IndexFails(r)
  <2>1. requests' \in [Requests -> Request]
    BY <1>7, Went DEF IndexFails, Phases
  <2>. QED BY <1>7, <2>1 DEF IndexFails, TypeOK, disk
<1>8. CASE SwapManifest(r)
  <2>1. requests[r].session \in Sessions
    BY <1>8, About DEF SwapManifest, Working
  <2>2. requests' \in [Requests -> Request]
    BY <1>8, Went DEF SwapManifest, Phases
  <2>3. sessions' \in [Sessions -> Directory]
    BY <1>8, <2>1, SessionTyped, BlankTyped DEF SwapManifest
  <2>. QED BY <1>8, <2>2, <2>3 DEF SwapManifest, TypeOK
<1>. QED BY <1>2, <1>3, <1>4, <1>5, <1>6, <1>7, <1>8

\* A removal leaves directories, spots and tracks.
LEMMA RemoveTyped ==
  ASSUME TypeOK, NEW s \in Sessions, RemoveDirectory(s)
  PROVE  /\ sessions' \in [Sessions -> Directory]
         /\ spot' \in Spots
         /\ aside' \subseteq Tracks /\ stale' \subseteq Sessions
<1>1. sessions' \in [Sessions -> Directory]
  BY SessionTyped, BlankTyped DEF RemoveDirectory
<1>. QED BY <1>1 DEF RemoveDirectory, TypeOK, Spots

\* ... ending ...
LEMMA EndTypes ==
  ASSUME TypeOK, NEW r \in Requests, Shaped(requests[r]),
         requests[r].phase \in Working => MyTurn(r), LibraryTurns,
         RefuseRequest(r) \/ RefuseTags(r) \/ InstallTaggedFails(r) \/ RefuseImport(r)
           \/ MoveFails(r) \/ UndoMove(r) \/ UndoFails(r) \/ CloseSession(r) \/ RecordFails(r)
  PROVE  TypeOK'
<1>1. requests \in [Requests -> Request] /\ requests[r] \in Request
  BY DEF TypeOK
<1>2. MyTurn(r) /\ requests[r].phase \in Working \cup {"queued"}
  BY DEF RefuseRequest, RefuseTags, InstallTaggedFails, RefuseImport, MoveFails, UndoMove,
         UndoFails, CloseSession, RecordFails, Working
<1>3. /\ requests[r].session \in Sessions
      /\ requests[r].phase \in {"install", "undo"} => requests[r].track \in Tracks
  BY <1>2, About DEF LibraryWork
<1>4. PICK answer \in Answers : Answer(r, answer)
  BY DEF RefuseRequest, RefuseTags, InstallTaggedFails, RefuseImport, MoveFails, UndoMove,
         UndoFails, CloseSession, RecordFails, Answers
<1>5. /\ requests' \in [Requests -> Request]
      /\ queue' \in [Sessions -> Seq(Requests)]
  BY <1>2, <1>4, EndTyped
<1>6. CASE RefuseRequest(r)
  BY <1>5, <1>6 DEF RefuseRequest, TypeOK, disk
<1>7. CASE RefuseTags(r)
  BY <1>5, <1>7 DEF RefuseTags, TypeOK, disk
<1>8. CASE InstallTaggedFails(r)
  BY <1>5, <1>8, FaultTyped DEF InstallTaggedFails, TypeOK
<1>9. CASE RefuseImport(r)
  <2>1. edits' \in Seq(Requests)
    BY <1>9, LibraryLeftTyped DEF RefuseImport, LibraryTurn
  <2>. QED BY <1>5, <1>9, <2>1 DEF RefuseImport, TypeOK, disk
<1>10. CASE MoveFails(r)
  <2>1. edits' \in Seq(Requests)
    BY <1>10, LibraryLeftTyped DEF MoveFails, LibraryTurns, LibraryTurn, LibraryWork
  <2>2. faults' \in 0..MaxFaults
    BY <1>10, FaultTyped DEF MoveFails, TypeOK
  <2>. QED BY <1>5, <1>10, <2>1, <2>2 DEF MoveFails, TypeOK, disk
<1>11. CASE UndoMove(r)
  <2>1. edits' \in Seq(Requests)
    BY <1>11, LibraryLeftTyped DEF UndoMove, LibraryTurns, LibraryTurn, LibraryWork
  <2>2. spot' \in Spots
    BY <1>3, <1>11 DEF UndoMove, TypeOK, Spots
  <2>. QED BY <1>5, <1>11, <2>1, <2>2 DEF UndoMove, TypeOK, Spots
<1>12. CASE UndoFails(r)
  <2>1. edits' \in Seq(Requests)
    BY <1>12, LibraryLeftTyped DEF UndoFails, LibraryTurns, LibraryTurn, LibraryWork
  <2>2. faults' \in 0..MaxFaults
    BY <1>12, FaultTyped DEF UndoFails
  <2>3. hurt' \subseteq Sessions
    BY <1>3, <1>12 DEF UndoFails, TypeOK
  <2>. QED BY <1>5, <1>12, <2>1, <2>2, <2>3 DEF UndoFails, TypeOK, disk
<1>13. CASE CloseSession(r)
  <2>1. RemoveDirectory(requests[r].session)
    BY <1>13 DEF CloseSession
  <2>. QED BY <1>3, <1>5, <1>13, <2>1, RemoveTyped DEF CloseSession, TypeOK, Spots
<1>14. CASE RecordFails(r)
  <2>1. sessions' \in [Sessions -> Directory]
    BY <1>3, <1>14, SessionTyped, BlankTyped DEF RecordFails, TypeOK
  <2>2. faults' \in 0..MaxFaults
    BY <1>14, FaultTyped DEF RecordFails
  <2>3. hurt' \subseteq Sessions
    BY <1>3, <1>14 DEF RecordFails, TypeOK
  <2>. QED BY <1>5, <1>14, <2>1, <2>2, <2>3 DEF RecordFails, TypeOK
<1>. QED BY <1>6, <1>7, <1>8, <1>9, <1>10, <1>11, <1>12, <1>13, <1>14

\* The manifest to be written is one.
LEMMA NewManifestTyped ==
  ASSUME TypeOK, NEW r \in Requests, requests[r].op = "commit" => requests[r].track \in Tracks
  PROVE  NewManifest(r) \in Manifest
<1>1. requests[r].read \in Manifest
  BY DEF TypeOK, Request
<1>2. CASE requests[r].op = "commit"
  BY <1>1, <1>2 DEF NewManifest, Manifest
<1>3. CASE requests[r].op # "commit"
  BY <1>1, <1>3 DEF NewManifest
<1>. QED BY <1>2, <1>3

\* ... and writing a manifest.
LEMMA InstallTypes ==
  ASSUME TypeOK, NEW r \in Requests, Shaped(requests[r]), MyTurn(r), InstallManifest(r)
  PROVE  TypeOK'
<1>1. requests[r].session \in Sessions /\ requests[r].track \in Tracks
  BY About DEF InstallManifest, Working
<1>2. sessions' \in [Sessions -> Directory]
  BY <1>1, SessionTyped, NewManifestTyped DEF InstallManifest
<1>. DEFINE T == {t \in {requests[r].track} : tags[t] # None /\ spot[t] = requests[r].session}
<1>3. T \in SUBSET Tracks /\ Reply(r, "ok", T)
  BY <1>1 DEF InstallManifest
<1>. HIDE DEF T
<1>4. requests' \in [Requests -> Request]
  BY <1>3, Replied DEF Answers
<1>5. queue' \in [Sessions -> Seq(Requests)]
  BY <1>1, LeftTyped DEF InstallManifest
<1>6. UNCHANGED <<spot, aside, tags, rows, stale, edits, pages, faults, hurt>>
  BY DEF InstallManifest
<1>. QED BY <1>2, <1>4, <1>5, <1>6 DEF TypeOK

\* A restart and a sweep keep the types.
LEMMA RestartTypes ==
  ASSUME TypeOK, NEW old \in SUBSET Sessions, Restart(old)
  PROVE  TypeOK'
<1>1. requests' \in [Requests -> Request]
  BY IdleTyped DEF Restart
<1>2. queue' \in [Sessions -> Seq(Requests)] /\ edits' \in Seq(Requests)
  <2>1. <<>> \in Seq(Requests)
    OBVIOUS
  <2>. QED BY <2>1 DEF Restart
<1>3. \A c \in Pages : [pages[c] EXCEPT !.request = None, !.batch = {}] \in Page
  BY DEF TypeOK, Page
<1>4. \A c \in Pages : [pages[c] EXCEPT !.request = None, !.batch = {}].ready
         \subseteq [pages[c] EXCEPT !.request = None, !.batch = {}].pending
  BY DEF TypeOK, Page
<1>5. /\ pages' \in [Pages -> Page]
      /\ \A c \in Pages : pages'[c].ready \subseteq pages'[c].pending
  BY <1>3, <1>4 DEF Restart
<1>6. spot' \in Spots
  BY DEF Restart, TypeOK, Spots
<1>7. faults' \in 0..MaxFaults
  BY FaultTyped DEF Restart
<1>8. hurt' \subseteq Sessions /\ stale' \subseteq Sessions
  BY DEF Restart, TypeOK
<1>. QED BY <1>1, <1>2, <1>5, <1>6, <1>7, <1>8 DEF Restart, TypeOK, Spots

\* A sweep takes a directory and what is in it.
LEMMA SweepTypes ==
  ASSUME TypeOK, NEW s \in Sessions, Sweep(s)
  PROVE  TypeOK'
<1>1. RemoveDirectory(s)
  BY DEF Sweep
<1>. QED BY <1>1, RemoveTyped DEF Sweep, TypeOK, Spots

-----------------------------------------------------------------------------
(* Turns.  Each lemma is about one way to change the queues. *)

\* The handler at the head of a queue leaves it.
LEMMA TailOnce ==
  ASSUME NEW S, NEW seq \in Seq(S), seq # <<>>, Once(seq)
  PROVE  /\ Once(Tail(seq))
         /\ \A i \in DOMAIN Tail(seq) : /\ i + 1 \in DOMAIN seq
                                        /\ Tail(seq)[i] = seq[i + 1]
                                        /\ Tail(seq)[i] # Head(seq)
<1>1. /\ Len(seq) \in Nat \ {0} /\ DOMAIN seq = 1..Len(seq)
      /\ DOMAIN Tail(seq) = 1..(Len(seq) - 1)
      /\ \A i \in 1..(Len(seq) - 1) : Tail(seq)[i] = seq[i + 1]
      /\ Head(seq) = seq[1]
  OBVIOUS
<1>. QED BY <1>1 DEF Once

\* A handler takes its place at the end of a queue.
LEMMA AppendOnce ==
  ASSUME NEW S, NEW seq \in Seq(S), NEW x \in S, Once(seq), \A i \in DOMAIN seq : seq[i] # x
  PROVE  /\ Once(Append(seq, x))
         /\ \A i \in DOMAIN Append(seq, x) : (i \in DOMAIN seq /\ Append(seq, x)[i] = seq[i])
                                             \/ Append(seq, x)[i] = x
         /\ seq # <<>> => Head(Append(seq, x)) = Head(seq)
         /\ Append(seq, x) # <<>>
<1>1. /\ Len(seq) \in Nat /\ DOMAIN seq = 1..Len(seq)
      /\ DOMAIN Append(seq, x) = 1..(Len(seq) + 1)
      /\ \A i \in 1..Len(seq) : Append(seq, x)[i] = seq[i]
      /\ Append(seq, x)[Len(seq) + 1] = x
  OBVIOUS
<1>2. Once(Append(seq, x))
  BY <1>1 DEF Once
<1>3. seq # <<>> => Head(Append(seq, x)) = Head(seq)
  BY <1>1
<1>. QED BY <1>1, <1>2, <1>3

\* r ends: its session's queue goes on without it.
LEMMA TurnsAfterEnd ==
  ASSUME TypeOK, SessionTurns, \A q \in Requests : Shaped(requests[q]),
         NEW r \in Requests, MyTurn(r),
         requests[r].phase \in Working \cup {"queued"},
         LeaveSession(r),
         \A q \in Requests \ {r} : requests'[q] = requests[q],
         requests'[r].phase \notin Working \cup {"queued"},
         TypeOK'
  PROVE  SessionTurns'
<1>. DEFINE s == requests[r].session
<1>1. s \in Sessions
  BY About
<1>2. /\ queue'[s] = Tail(queue[s])
      /\ \A z \in Sessions \ {s} : queue'[z] = queue[z]
  BY <1>1, LeftTyped
<1>3. queue[s] \in Seq(Requests) /\ queue[s] # <<>> /\ Head(queue[s]) = r /\ Once(queue[s])
  BY <1>1 DEF TypeOK, MyTurn, SessionTurns
<1>4. /\ Once(Tail(queue[s]))
      /\ \A i \in DOMAIN Tail(queue[s]) :
           i + 1 \in DOMAIN queue[s] /\ Tail(queue[s])[i] = queue[s][i + 1] /\ Tail(queue[s])[i] # r
  BY <1>3, TailOnce
<1>5. \A z \in Sessions : Once(queue'[z])
  BY <1>2, <1>4 DEF SessionTurns
<1>6. ASSUME NEW z \in Sessions, NEW i \in DOMAIN queue'[z]
      PROVE  requests'[queue'[z][i]].session = z
             /\ requests'[queue'[z][i]].phase \in Working \cup {"queued"}
  <2>1. queue'[z][i] \in Requests
    BY <1>6 DEF TypeOK
  <2>2. CASE z = s
    <3>1. i \in DOMAIN Tail(queue[s]) /\ queue'[z][i] = Tail(queue[s])[i]
      BY <1>2, <1>6, <2>2
    <3>2. i + 1 \in DOMAIN queue[s] /\ queue'[z][i] = queue[s][i + 1] /\ queue'[z][i] # r
      BY <1>4, <3>1
    <3>3. /\ requests[queue[s][i + 1]].session = s
          /\ requests[queue[s][i + 1]].phase \in Working \cup {"queued"}
      BY <1>1, <3>2 DEF SessionTurns
    <3>. QED BY <2>1, <2>2, <3>2, <3>3
  <2>3. CASE z # s
    <3>1. queue'[z] = queue[z]
      BY <1>2, <2>3
    <3>2. requests[queue[z][i]].session = z
          /\ requests[queue[z][i]].phase \in Working \cup {"queued"}
      BY <1>6, <3>1 DEF SessionTurns
    <3>3. queue[z][i] # r
      BY <2>3, <3>2
    <3>. QED BY <2>1, <3>1, <3>2, <3>3
  <2>. QED BY <2>2, <2>3
<1>7. ASSUME NEW q \in Requests, requests'[q].phase \in Working
      PROVE  MyTurn(q)'
  <2>1. q # r /\ requests'[q] = requests[q]
    BY <1>7
  <2>2. MyTurn(q)
    BY <1>7, <2>1 DEF SessionTurns
  <2>3. requests[q].session # s
    BY <1>3, <2>1, <2>2 DEF MyTurn
  <2>4. requests[q].session \in Sessions
    BY <1>7, <2>1, About
  <2>. QED BY <1>2, <2>1, <2>2, <2>3, <2>4 DEF MyTurn
<1>. QED BY <1>5, <1>6, <1>7 DEF SessionTurns

\* r goes on at the head of its queue.
LEMMA TurnsKept ==
  ASSUME TypeOK, SessionTurns, NEW r \in Requests,
         MyTurn(r),
         UNCHANGED queue,
         \A q \in Requests \ {r} : requests'[q] = requests[q],
         requests'[r].session = requests[r].session,
         requests'[r].phase \in Working
  PROVE  SessionTurns'
<1>1. ASSUME NEW z \in Sessions, NEW i \in DOMAIN queue[z]
      PROVE  requests'[queue[z][i]].session = z
             /\ requests'[queue[z][i]].phase \in Working \cup {"queued"}
  <2>1. queue[z][i] \in Requests
    BY <1>1 DEF TypeOK
  <2>. QED BY <1>1, <2>1 DEF SessionTurns
<1>2. ASSUME NEW q \in Requests, requests'[q].phase \in Working
      PROVE  MyTurn(q)'
  <2>1. requests'[q].session = requests[q].session
    OBVIOUS
  <2>2. MyTurn(q)
    BY <1>2 DEF SessionTurns
  <2>. QED BY <2>1, <2>2 DEF MyTurn
<1>. QED BY <1>1, <1>2 DEF SessionTurns

\* Handlers change, but none that is in a queue, or goes into one.
SameTurn(q) ==
  /\ requests[q].phase \in Working \cup {"queued"} <=> requests'[q].phase \in Working \cup {"queued"}
  /\ requests[q].phase \in Working \cup {"queued"} =>
       /\ requests'[q].phase = requests[q].phase
       /\ requests'[q].session = requests[q].session

\* Steps that touch no handler in a queue keep the turns.
LEMMA TurnsUntouched ==
  ASSUME TypeOK, SessionTurns, LibraryTurns, UNCHANGED <<queue, edits>>,
         \A q \in Requests : SameTurn(q)
  PROVE  SessionTurns' /\ LibraryTurns'
<1>1. ASSUME NEW z \in Sessions, NEW i \in DOMAIN queue[z]
      PROVE  requests'[queue[z][i]].session = z
             /\ requests'[queue[z][i]].phase \in Working \cup {"queued"}
  <2>1. queue[z][i] \in Requests
    BY <1>1 DEF TypeOK
  <2>. QED BY <1>1, <2>1 DEF SessionTurns, SameTurn
<1>2. ASSUME NEW q \in Requests, requests'[q].phase \in Working
      PROVE  MyTurn(q)'
  <2>1. requests'[q].session = requests[q].session /\ requests[q].phase = requests'[q].phase
    BY <1>2 DEF SameTurn
  <2>2. MyTurn(q)
    BY <1>2, <2>1 DEF SessionTurns
  <2>. QED BY <2>1, <2>2 DEF MyTurn
<1>3. ASSUME NEW i \in DOMAIN edits PROVE requests'[edits[i]].phase \in LibraryWork
  <2>1. edits[i] \in Requests
    BY <1>3 DEF TypeOK
  <2>. QED BY <1>3, <2>1 DEF LibraryTurns, SameTurn, LibraryWork, Working
<1>4. ASSUME NEW q \in Requests, requests'[q].phase \in LibraryWork \ {"edit"}
      PROVE  LibraryTurn(q)'
  <2>1. requests[q].phase = requests'[q].phase
    BY <1>4 DEF SameTurn, LibraryWork, Working
  <2>. QED BY <1>4, <2>1 DEF LibraryTurns, LibraryTurn
<1>. QED BY <1>1, <1>2, <1>3, <1>4 DEF SessionTurns, LibraryTurns

\* r leaves the library, of which it has had the turn.
LEMMA LibraryAfterEnd ==
  ASSUME TypeOK, LibraryTurns, NEW r \in Requests, LibraryTurn(r),
         edits' = Tail(edits),
         \A q \in Requests \ {r} : requests'[q] = requests[q],
         requests'[r].phase \notin LibraryWork
  PROVE  LibraryTurns'
<1>1. /\ edits \in Seq(Requests) /\ edits # <<>> /\ Head(edits) = r /\ Once(edits)
  BY DEF TypeOK, LibraryTurn, LibraryTurns
<1>2. /\ Once(edits')
      /\ \A i \in DOMAIN edits' :
           i + 1 \in DOMAIN edits /\ edits'[i] = edits[i + 1] /\ edits'[i] # r
  BY <1>1, TailOnce
<1>3. ASSUME NEW i \in DOMAIN edits' PROVE requests'[edits'[i]].phase \in LibraryWork
  <2>1. edits'[i] \in Requests \ {r} /\ requests[edits'[i]].phase \in LibraryWork
    BY <1>1, <1>2, <1>3 DEF LibraryTurns
  <2>. QED BY <2>1
<1>4. ASSUME NEW q \in Requests, requests'[q].phase \in LibraryWork \ {"edit"}
      PROVE  LibraryTurn(q)'
  <2>1. q # r /\ requests[q].phase \in LibraryWork \ {"edit"}
    BY <1>4
  <2>. QED BY <1>1, <2>1 DEF LibraryTurns, LibraryTurn
<1>. QED BY <1>2, <1>3, <1>4 DEF LibraryTurns

\* r goes on in the library, or does not come into it.
LEMMA LibraryKept ==
  ASSUME TypeOK, LibraryTurns, NEW r \in Requests,
         UNCHANGED edits,
         \A q \in Requests \ {r} : requests'[q] = requests[q],
         \/ LibraryTurn(r) /\ requests'[r].phase \in LibraryWork
         \/ requests[r].phase \notin LibraryWork /\ requests'[r].phase \notin LibraryWork
  PROVE  LibraryTurns'
<1>1. ASSUME NEW i \in DOMAIN edits PROVE requests'[edits[i]].phase \in LibraryWork
  <2>1. edits[i] \in Requests /\ requests[edits[i]].phase \in LibraryWork
    BY <1>1 DEF LibraryTurns, TypeOK
  <2>. QED BY <2>1
<1>2. ASSUME NEW q \in Requests, requests'[q].phase \in LibraryWork \ {"edit"}
      PROVE  LibraryTurn(q)'
  BY <1>2 DEF LibraryTurns, LibraryTurn
<1>. QED BY <1>1, <1>2 DEF LibraryTurns

-----------------------------------------------------------------------------
(* What a step leaves alone. *)

SoundAt(s) == sessions[s].dir = "listed" => Sound(s)
RestedAt(s) ==
  /\ s \notin hurt
  /\ sessions[s].dir = "listed"
  /\ \A r \in Requests : requests[r].session = s => requests[r].phase \notin Working
  => sessions[s].manifest.pending = Present(s)

\* ManifestSound, session by session, before and after a step.
LEMMA SoundEverywhere ==
  /\ ManifestSound <=> \A s \in Sessions : SoundAt(s)
  /\ ManifestSound' <=> \A s \in Sessions : SoundAt(s)'
  BY DEF ManifestSound, SoundAt, Sound, Held

\* Rested, session by session, before and after a step.
LEMMA RestedEverywhere ==
  /\ Rested <=> \A s \in Sessions : RestedAt(s)
  /\ Rested' <=> \A s \in Sessions : RestedAt(s)'
  BY DEF Rested, RestedAt

\* A session the step has nothing to do with.
Spares(s) ==
  /\ sessions'[s] = sessions[s]
  /\ \A t \in Tracks : spot'[t] = s <=> spot[t] = s
  /\ \A t \in Tracks : spot[t] = s => (t \in aside' <=> t \in aside)
  /\ s \in stale' => s \in stale
  /\ s \in hurt => s \in hurt'

RowsGrow == \A p \in Places : rows[p] # None => rows'[p] = rows[p]
PlacesSpared ==
  /\ UNCHANGED rows
  /\ \A p \in Places, t \in Tracks : spot'[t] = p <=> spot[t] = p

\* A handler that goes on as it was, for a page or for nobody.
SameWork(q) ==
  /\ requests'[q].op = requests[q].op
  /\ requests'[q].phase = requests[q].phase
  /\ requests'[q].session = requests[q].session
  /\ requests'[q].track = requests[q].track
  /\ requests'[q].tag = requests[q].tag
  /\ requests'[q].batch = requests[q].batch
  /\ requests'[q].read = requests[q].read

\* A sound manifest stays sound in a session the step spares: rows are only added.
LEMMA SoundSpared ==
  ASSUME TypeOK, NEW s \in Sessions, Spares(s), RowsGrow
  PROVE  Sound(s) => Sound(s)'
<1>1. sessions[s].manifest.imported \subseteq Tracks /\ None \notin Tracks
  BY ConstantsAssumption DEF TypeOK, Directory, Manifest
<1>2. Held(s)' = Held(s)
  BY DEF Spares, Held
<1>3. sessions'[s].manifest = sessions[s].manifest
  BY DEF Spares
<1>4. ASSUME NEW t \in Tracks, NEW p \in Places, rows[p] = t PROVE rows'[p] = t
  BY <1>1, <1>4 DEF RowsGrow
<1>. QED BY <1>1, <1>2, <1>3, <1>4 DEF Sound

\* What is present there stays.
LEMMA PresentSpared ==
  ASSUME NEW s \in Sessions, Spares(s)
  PROVE  Present(s)' = Present(s)
  BY DEF Spares, Present

\* A handler relies on its session, its place and its row only.
LEMMA AtWorkSpared ==
  ASSUME TypeOK, NEW q \in Requests, Shaped(requests[q]), requests[q].phase \in Working,
         AtWork(q), SameWork(q), Spares(requests[q].session), RowsGrow,
         requests[q].phase \in {"move", "index", "undo"} => PlacesSpared
  PROVE  AtWork(q)'
<1>. DEFINE s == requests[q].session
<1>1. s \in Sessions /\ requests'[q].session = s
  BY About DEF SameWork
<1>2. Touched(q)' <=> Touched(q)
  BY DEF Touched, SameWork
<1>3. InHand(q)' = InHand(q)
  BY DEF InHand, SameWork
<1>4. Swept(q)' <=> Swept(q)
  BY <1>1 DEF Swept, Spares
<1>5. Intact(q) => Intact(q)'
  <2>1. Sound(s) => Sound(s)'
    BY <1>1, SoundSpared
  <2>2. Present(s)' = Present(s)
    BY <1>1, PresentSpared
  <2>3. sessions'[s] = sessions[s] /\ (s \in hurt => s \in hurt')
    BY DEF Spares
  <2>. QED BY <1>1, <1>3, <2>1, <2>2, <2>3 DEF Intact, SameWork
<1>6. Where(q) => Where(q)'
  <2>1. requests[q].phase \in {"move", "index", "undo"} =>
          requests[q].tag \in Places /\ requests[q].track \in Tracks
    BY About DEF LibraryWork
  <2>2. requests[q].phase = "install" => requests[q].track \in Tracks
    BY About
  <2>3. requests[q].phase = "move" /\ ~PlaceTaken(requests[q].tag) => ~PlaceTaken(requests[q].tag)'
    BY <2>1 DEF PlaceTaken, PlacesSpared, SameWork
  <2>4. requests[q].phase \in {"record", "list"} /\ requests[q].op = "commit"
          => requests[q].track \in Tracks
    BY About
  <2>5. None \notin Tracks
    BY ConstantsAssumption
  <2>6. CASE requests[q].phase = "install"
    BY <1>1, <2>2, <2>6 DEF Where, SameWork, Spares
  <2>7. CASE requests[q].phase = "move"
    BY <2>3, <2>7 DEF Where, SameWork
  <2>8. CASE requests[q].phase \in {"index", "undo"}
    BY <2>1, <2>8 DEF Where, SameWork, PlacesSpared
  <2>9. CASE requests[q].phase \in {"record", "list"}
    BY <2>4, <2>5, <2>9 DEF Where, SameWork, RowsGrow
  <2>10. CASE requests[q].phase \notin {"install", "move", "index", "undo", "record", "list"}
    BY <2>10 DEF Where, SameWork
  <2>. QED BY <2>6, <2>7, <2>8, <2>9, <2>10
<1>7. s \notin stale => s \notin stale'
  BY DEF Spares
<1>. QED BY <1>1, <1>2, <1>4, <1>5, <1>6, <1>7 DEF AtWork

\* Two handlers are not at work on one session.
LEMMA Apart ==
  ASSUME SessionTurns, NEW r \in Requests, MyTurn(r), NEW q \in Requests \ {r},
         requests[q].phase \in Working
  PROVE  requests[q].session # requests[r].session
  BY DEF SessionTurns, MyTurn

\* What a handler whose turn it is leaves alone, when all it touches is its session,
\* its place and its row.
OneAtWork(r, s) ==
  /\ \A q \in Requests \ {r} : requests'[q] = requests[q]
  /\ requests'[r].session \in {s, None}
  /\ requests'[r].phase \notin {"received", "moved"}
  /\ \A z \in Sessions \ {s} : Spares(z)
  /\ RowsGrow
  /\ LibraryTurn(r) \/ PlacesSpared
  /\ UNCHANGED pages
  /\ \A t \in Tracks : spot[t] = "incoming" => spot'[t] = "incoming"
  /\ sessions'[s].dir # "new"
  /\ stale' \subseteq stale

\* A step of one handler on its own session keeps all that the disk and the database promise.
LEMMA OneStep ==
  ASSUME TypeOK, \A q \in Requests : Shaped(requests[q]), SessionTurns, LibraryTurns, DiskPart,
         NEW r \in Requests, MyTurn(r), requests[r].phase \in Working \cup {"queued"},
         NEW s \in Sessions, requests[r].session = s,
         OneAtWork(r, s), SoundAt(s)', RestedAt(s)',
         (requests[r].phase \in Working => AtWork(r))',
         \A p \in Places : rows'[p] # None => spot'[rows'[p]] = p,
         \A t \in aside' : spot'[t] \in Sessions,
         sessions'[s].dir = "absent" => \A t \in Tracks : spot'[t] # s
  PROVE  DiskPart'
<1>2. \A z \in Sessions \ {s} : Spares(z)
  BY DEF OneAtWork
<1>3. \A q \in Requests \ {r} : requests'[q] = requests[q]
  BY DEF OneAtWork
<1>4. DiskSound'
  <2>1. ASSUME NEW z \in Sessions, sessions'[z].dir \in {"new", "absent"}, NEW t \in Tracks
        PROVE  spot'[t] # z
    <3>1. CASE z = s
      BY <2>1, <3>1 DEF OneAtWork
    <3>2. CASE z # s
      BY <1>2, <2>1, <3>2 DEF Spares, DiskPart, DiskSound
    <3>. QED BY <3>1, <3>2
  <2>2. ASSUME NEW z \in stale' PROVE sessions'[z].dir # "new"
    <3>1. z \in stale /\ z \in Sessions
      BY <2>2 DEF OneAtWork, TypeOK
    <3>2. CASE z = s
      BY <3>2 DEF OneAtWork
    <3>3. CASE z # s
      BY <1>2, <3>1, <3>3 DEF Spares, DiskPart, DiskSound
    <3>. QED BY <3>2, <3>3
  <2>. QED BY <2>1, <2>2 DEF DiskSound
<1>5. Known'
  <2>1. ASSUME NEW z \in Sessions, sessions[z].dir # "new" PROVE sessions'[z].dir # "new"
    <3>1. CASE z = s
      BY <3>1 DEF OneAtWork
    <3>2. CASE z # s
      BY <1>2, <2>1, <3>2 DEF Spares
    <3>. QED BY <3>1, <3>2
  <2>2. ASSUME NEW q \in Requests, NEW z \in Sessions, requests'[q].session = z
        PROVE  requests[q].session = z
    <3>1. z # None
      BY ConstantsAssumption
    <3>. QED BY <1>3, <2>2, <3>1 DEF OneAtWork
  <2>3. UNCHANGED pages
    BY DEF OneAtWork
  <2>. QED BY <2>1, <2>2, <2>3 DEF Known, DiskPart
<1>6. Received'
  <2>1. \A q \in Requests : Creates(q, "received")' => q # r /\ Creates(q, "received")
    BY <1>3 DEF Creates, OneAtWork
  <2>2. \A t \in Tracks : spot[t] = "incoming" => spot'[t] = "incoming"
    BY DEF OneAtWork
  <2>3. \A q \in Requests : requests[q].batch \subseteq Tracks
    BY DEF TypeOK, Request
  <2>4. \A q \in Requests : Creates(q, "received")' =>
          \A t \in requests'[q].batch : spot'[t] = "incoming"
    BY <1>3, <2>1, <2>2, <2>3 DEF Received, DiskPart
  <2>5. \A q, o \in Requests : Creates(q, "received")' /\ Creates(o, "received")' /\ q # o =>
          requests'[q].batch \cap requests'[o].batch = {}
    BY <1>3, <2>1 DEF Received, DiskPart
  <2>. QED BY <2>4, <2>5 DEF Received
<1>7. Moved'
  <2> SUFFICES ASSUME NEW q \in Requests, Creates(q, "moved")' PROVE Unpublished(q)'
    BY DEF Moved
  <2>0. PICK z : z = requests[q].session
    OBVIOUS
  <2>1. q # r /\ requests'[q] = requests[q] /\ Creates(q, "moved")
    BY <1>3 DEF Creates, OneAtWork
  <2>2. Unpublished(q)
    BY <2>1 DEF Moved, DiskPart
  <2>3. z \in Sessions /\ z # s
    BY <2>0, <2>1, <2>2 DEF Unpublished, Shaped, Creates
  <2>4. Spares(z)
    BY <1>2, <2>3
  <2>5. Held(z)' = Held(z)
    BY <2>4 DEF Spares, Held
  <2>6. requests[q].batch \cap aside' = {}
    BY <2>0, <2>2, <2>4 DEF Unpublished, Spares, Held
  <2>7. \A o \in Requests \ {q} : requests'[o].session # z
    BY <1>3, <2>0, <2>2, <2>3, ConstantsAssumption DEF Unpublished, OneAtWork
  <2>. QED BY <2>0, <2>1, <2>2, <2>4, <2>5, <2>6, <2>7 DEF Unpublished, Spares, OneAtWork
<1>8. ManifestSound'
  <2>1. ASSUME NEW z \in Sessions PROVE SoundAt(z)'
    <3>1. CASE z = s
      BY <3>1
    <3>2. CASE z # s
      <4>1. Spares(z) /\ RowsGrow /\ SoundAt(z)
        BY <1>2, <3>2, SoundEverywhere DEF OneAtWork, DiskPart
      <4>. QED BY <4>1, SoundSpared DEF SoundAt, Spares
    <3>. QED BY <3>1, <3>2
  <2>. QED BY <2>1, SoundEverywhere
<1>9. Works'
  <2> SUFFICES ASSUME NEW q \in Requests, requests'[q].phase \in Working PROVE AtWork(q)'
    BY DEF Works
  <2>1. CASE q = r
    BY <2>1
  <2>2. CASE q # r
    <3>1. requests'[q] = requests[q] /\ SameWork(q) /\ requests[q].phase \in Working
      BY <1>3, <2>2 DEF SameWork
    <3>2. requests[q].session # s /\ requests[q].session \in Sessions
      BY <2>2, <3>1, Apart, About
    <3>3. AtWork(q) /\ Spares(requests[q].session) /\ RowsGrow
      BY <1>2, <3>1, <3>2 DEF OneAtWork, Works, DiskPart
    <3>4. requests[q].phase \in {"move", "index", "undo"} => PlacesSpared
      BY <2>2 DEF LibraryTurns, LibraryTurn, OneAtWork, LibraryWork
    <3>. QED BY <3>1, <3>3, <3>4, AtWorkSpared
  <2>. QED BY <2>1, <2>2
<1>10. Rested'
  <2>1. ASSUME NEW z \in Sessions PROVE RestedAt(z)'
    <3>1. CASE z = s
      BY <3>1
    <3>2. CASE z # s
      <4>1. Spares(z) /\ RestedAt(z) /\ Present(z)' = Present(z)
        BY <1>2, <3>2, RestedEverywhere, PresentSpared DEF DiskPart
      <4>2. \A q \in Requests : requests[q].session = z => requests'[q] = requests[q]
        BY <1>3, <3>2
      <4>. QED BY <4>1, <4>2 DEF RestedAt, Spares
    <3>. QED BY <3>1, <3>2
  <2>. QED BY <2>1, RestedEverywhere
<1>. QED BY <1>4, <1>5, <1>6, <1>7, <1>8, <1>9, <1>10 DEF DiskPart

-----------------------------------------------------------------------------
(* A handler that ends, a handler that goes on. *)

\* An idle handler has its shape.
LEMMA IdleShaped == Shaped(Idle)
  BY DEF Shaped, Idle, PhasesOf

\* r ends, with an answer for its page or without one.
EndsWith(r, answer, ready) ==
  /\ \A q \in Requests \ {r} : requests'[q] = requests[q]
  /\ \/ requests'[r] = Idle
     \/ /\ requests'[r].page = requests[r].page
        /\ requests'[r].op = requests[r].op
        /\ requests'[r].phase = answer
        /\ requests'[r].session = requests[r].session
        /\ requests'[r].track = requests[r].track
        /\ requests'[r].batch = requests[r].batch
        /\ requests'[r].ready = ready

\* A handler that ends has the shape of an answer, or is idle.
LEMMA EndShaped ==
  ASSUME \A q \in Requests : Shaped(requests[q]), TypeOK, NEW r \in Requests,
         NEW answer \in Answers, NEW ready,
         requests[r].op # "none", EndsWith(r, answer, ready)
  PROVE  /\ \A q \in Requests : Shaped(requests'[q])
         /\ requests'[r].phase \notin Working \cup {"queued", "received", "moved"}
         /\ requests'[r].session \in {requests[r].session, None}
<1>1. CASE requests'[r] = Idle
  BY <1>1, IdleShaped DEF EndsWith, Idle, Working
<1>2. CASE requests'[r] # Idle
  <2>1. requests[r].op \in {"create", "tags", "commit", "cancel"}
    BY DEF TypeOK, Request
  <2>2. Shaped(requests'[r])
    BY <1>2, <2>1 DEF EndsWith, Shaped, PhasesOf, Answers
  <2>. QED BY <1>2, <2>2 DEF EndsWith, Answers, Working
<1>. QED BY <1>1, <1>2

\* Its page still knows it.
LEMMA EndPaged ==
  ASSUME Paged, NEW r \in Requests, NEW answer \in Answers, NEW ready,
         EndsWith(r, answer, ready), UNCHANGED pages,
         requests[r].op = "tags" => ready \subseteq {requests[r].track},
         requests[r].op = "create" => ready \subseteq requests[r].batch
  PROVE  Paged'
<1>1. ASSUME NEW q \in Requests \ {r}
      PROVE  /\ requests'[q].page # None => pages[requests'[q].page].request = q
             /\ requests'[q].page # None /\ requests'[q].op = "tags" =>
                  requests'[q].track \in pages[requests'[q].page].pending
             /\ requests'[q].op = "tags" /\ requests'[q].phase \in Answers =>
                  requests'[q].ready \subseteq {requests'[q].track}
             /\ requests'[q].op = "create" /\ requests'[q].phase \in Answers =>
                  requests'[q].ready \subseteq requests'[q].batch
  BY DEF EndsWith, Paged
<1>2. /\ requests'[r].page # None => pages[requests'[r].page].request = r
      /\ requests'[r].page # None /\ requests'[r].op = "tags" =>
           requests'[r].track \in pages[requests'[r].page].pending
      /\ requests'[r].op = "tags" /\ requests'[r].phase \in Answers =>
           requests'[r].ready \subseteq {requests'[r].track}
      /\ requests'[r].op = "create" /\ requests'[r].phase \in Answers =>
           requests'[r].ready \subseteq requests'[r].batch
  <2>1. CASE requests'[r] = Idle
    BY <2>1 DEF Idle
  <2>2. CASE requests'[r] # Idle
    BY <2>2 DEF EndsWith, Paged
  <2>. QED BY <2>1, <2>2
<1>. QED BY <1>1, <1>2 DEF Paged

\* What all ends of a handler have in common.
LEMMA Ended ==
  ASSUME TypeOK, TypeOK', \A q \in Requests : Shaped(requests[q]), SessionTurns, Paged,
         NEW r \in Requests, MyTurn(r), requests[r].phase \in Working \cup {"queued"},
         NEW answer \in Answers, NEW ready \in SUBSET Tracks, ready \subseteq {requests[r].track},
         Reply(r, answer, ready), LeaveSession(r), UNCHANGED pages
  PROVE  /\ EndsWith(r, answer, ready)
         /\ \A q \in Requests : Shaped(requests'[q])
         /\ SessionTurns' /\ Paged'
         /\ requests'[r].phase \notin Working \cup {"queued", "received", "moved"}
         /\ requests'[r].session \in {requests[r].session, None}
<1>2. EndsWith(r, answer, ready)
  BY Replied DEF EndsWith
<1>3. requests[r].op \in {"tags", "commit", "cancel"}
  BY About
<1>4. /\ \A q \in Requests : Shaped(requests'[q])
      /\ requests'[r].phase \notin Working \cup {"queued", "received", "moved"}
      /\ requests'[r].session \in {requests[r].session, None}
  BY <1>2, <1>3, EndShaped
<1>5. SessionTurns'
  BY <1>2, <1>4, TurnsAfterEnd DEF EndsWith
<1>6. Paged'
  BY <1>2, <1>3, EndPaged
<1>. QED BY <1>2, <1>4, <1>5, <1>6

\* r goes on: only its phase, its tag and what it has read change.
GoesOn(r) ==
  /\ \A q \in Requests \ {r} : requests'[q] = requests[q]
  /\ requests'[r].page = requests[r].page
  /\ requests'[r].op = requests[r].op
  /\ requests'[r].session = requests[r].session
  /\ requests'[r].track = requests[r].track
  /\ requests'[r].batch = requests[r].batch

\* What all handlers that go on have in common.
LEMMA WentOn ==
  ASSUME TypeOK, \A q \in Requests : Shaped(requests[q]), SessionTurns, Paged,
         NEW r \in Requests, MyTurn(r), requests[r].phase \in Working \cup {"queued"},
         UNCHANGED <<pages, queue>>, GoesOn(r),
         requests'[r].phase \in Working \cap PhasesOf[requests[r].op],
         requests'[r].phase \in {"move", "index", "undo"} => requests'[r].tag \in Places
  PROVE  /\ \A q \in Requests : Shaped(requests'[q])
         /\ SessionTurns' /\ Paged'
         /\ requests'[r].phase \notin {"received", "moved"}
<1>1. requests[r].session \in Sessions /\ requests[r].op \in {"tags", "commit", "cancel"}
  BY About
<1>2. Shaped(requests'[r])
  <2>1. requests[r].op \in {"tags", "commit"} => requests[r].track \in Tracks
    BY DEF Shaped
  <2>. QED BY <1>1, <2>1 DEF GoesOn, Shaped, Working
<1>3. SessionTurns'
  BY TurnsKept DEF GoesOn
<1>4. ASSUME NEW q \in Requests \ {r}
      PROVE  /\ requests'[q].page # None => pages[requests'[q].page].request = q
             /\ requests'[q].page # None /\ requests'[q].op = "tags" =>
                  requests'[q].track \in pages[requests'[q].page].pending
             /\ requests'[q].op = "tags" /\ requests'[q].phase \in Answers =>
                  requests'[q].ready \subseteq {requests'[q].track}
             /\ requests'[q].op = "create" /\ requests'[q].phase \in Answers =>
                  requests'[q].ready \subseteq requests'[q].batch
  BY DEF GoesOn, Paged
<1>5. requests'[r].phase \notin Answers
  BY DEF Working, Answers
<1>6. Paged'
  BY <1>4, <1>5 DEF GoesOn, Paged
<1>. QED BY <1>2, <1>3, <1>6 DEF GoesOn, Working

\* Nobody is at work on a session whose turn is a waiting handler's.
LEMMA NobodyAtWork ==
  ASSUME SessionTurns, NEW r \in Requests, MyTurn(r), NEW s, requests[r].session = s
  PROVE  \A q \in Requests \ {r} : requests[q].session = s => requests[q].phase \notin Working
  BY Apart

\* A step that leaves the disk alone spares every session.
LEMMA SparedAll ==
  ASSUME UNCHANGED disk, hurt \subseteq hurt'
  PROVE  /\ \A z \in Sessions : Spares(z)
         /\ RowsGrow /\ PlacesSpared
  BY DEF disk, Spares, RowsGrow, PlacesSpared

-----------------------------------------------------------------------------
(* The ends of handlers. *)

\* A handler at work has its turn and can rely on its session.
LEMMA Now ==
  ASSUME Inv, NEW r \in Requests, requests[r].phase \in Working
  PROVE  MyTurn(r) /\ AtWork(r)
  BY DEF Inv, SessionTurns, DiskPart, Works

\* A handler's session has been created.
LEMMA NotNew ==
  ASSUME Inv, NEW r \in Requests, NEW s \in Sessions, requests[r].session = s
  PROVE  sessions[s].dir # "new"
  BY DEF Inv, DiskPart, Known

\* What is left to show of a handler that ends.
LEMMA AfterEnd ==
  ASSUME Inv, TypeOK', NEW r \in Requests, MyTurn(r),
         requests[r].phase \in Working \cup {"queued"},
         NEW s \in Sessions, requests[r].session = s,
         NEW answer \in Answers, NEW ready \in SUBSET Tracks, ready \subseteq {requests[r].track},
         Reply(r, answer, ready), LeaveSession(r), UNCHANGED pages,
         \/ UNCHANGED edits /\ requests[r].phase \notin LibraryWork
         \/ edits' = Tail(edits) /\ LibraryTurn(r),
         \A z \in Sessions \ {s} : Spares(z),
         RowsGrow, LibraryTurn(r) \/ PlacesSpared,
         \A t \in Tracks : spot[t] = "incoming" => spot'[t] = "incoming",
         sessions'[s].dir # "new", stale' \subseteq stale,
         SoundAt(s)',
         s \notin hurt' /\ sessions'[s].dir = "listed" =>
           sessions'[s].manifest.pending = {t \in Tracks : spot'[t] = s /\ t \notin aside'},
         \A p \in Places : rows'[p] # None => spot'[rows'[p]] = p,
         \A t \in aside' : spot'[t] \in Sessions,
         sessions'[s].dir = "absent" => \A t \in Tracks : spot'[t] # s
  PROVE  Inv'
<1>1. TypeOK /\ (\A q \in Requests : Shaped(requests[q])) /\ SessionTurns /\ LibraryTurns
      /\ DiskPart /\ Paged
  BY DEF Inv
<1>2. /\ EndsWith(r, answer, ready)
      /\ \A q \in Requests : Shaped(requests'[q])
      /\ SessionTurns' /\ Paged'
      /\ requests'[r].phase \notin Working \cup {"queued", "received", "moved"}
      /\ requests'[r].session \in {s, None}
  BY <1>1, Ended
<1>3. LibraryTurns'
  <2>1. requests'[r].phase \notin LibraryWork
    BY <1>2 DEF LibraryWork, Working
  <2>2. \A q \in Requests \ {r} : requests'[q] = requests[q]
    BY <1>2 DEF EndsWith
  <2>3. CASE UNCHANGED edits /\ requests[r].phase \notin LibraryWork
    BY <1>1, <2>1, <2>2, <2>3, LibraryKept
  <2>4. CASE edits' = Tail(edits) /\ LibraryTurn(r)
    BY <1>1, <2>1, <2>2, <2>4, LibraryAfterEnd
  <2>. QED BY <2>3, <2>4
<1>4. OneAtWork(r, s)
  BY <1>2 DEF OneAtWork, EndsWith
<1>5. RestedAt(s)'
  BY DEF RestedAt, Present
<1>6. (requests[r].phase \in Working => AtWork(r))'
  BY <1>2
<1>7. DiskPart'
  BY <1>1, <1>4, <1>5, <1>6, OneStep
<1>. QED BY <1>2, <1>3, <1>7 DEF Inv

\* What an answer that changes nothing on the disk needs.
LEMMA AfterRefusal ==
  ASSUME Inv, TypeOK', NEW r \in Requests, MyTurn(r),
         requests[r].phase \in Working \cup {"queued"},
         NEW s \in Sessions, requests[r].session = s,
         NEW answer \in Answers, Answer(r, answer), UNCHANGED <<disk, pages>>,
         hurt \subseteq hurt',
         \/ UNCHANGED edits /\ requests[r].phase \notin LibraryWork
         \/ edits' = Tail(edits) /\ LibraryTurn(r),
         s \in hurt' \/ InHand(r) = {}
  PROVE  Inv'
<1>1. /\ {} \in SUBSET Tracks /\ {} \subseteq {requests[r].track}
      /\ Reply(r, answer, {}) /\ LeaveSession(r)
  BY DEF Answer
<1>2. /\ \A z \in Sessions : Spares(z)
      /\ RowsGrow /\ PlacesSpared
  BY SparedAll
<1>3. UNCHANGED <<spot, aside, rows, sessions, stale>> /\ DiskPart /\ TypeOK /\ SessionTurns
  BY DEF disk, Inv
<1>4. sessions'[s].dir # "new"
  BY <1>3, NotNew
<1>5. SoundAt(s)'
  <2>1. SoundAt(s)
    BY <1>3, SoundEverywhere DEF DiskPart
  <2>. QED BY <1>2, <1>3, <2>1, SoundSpared DEF SoundAt
<1>6. s \notin hurt' /\ sessions[s].dir = "listed" => sessions[s].manifest.pending = Present(s)
  <2>1. CASE requests[r].phase \in Working
    <3>1. AtWork(r)
      BY <2>1, Now
    <3>. QED BY <3>1 DEF AtWork, Swept, Intact
  <2>2. CASE requests[r].phase = "queued"
    <3>1. \A q \in Requests : requests[q].session = s => requests[q].phase \notin Working
      BY <1>3, <2>2, NobodyAtWork DEF Working
    <3>2. RestedAt(s)
      BY <1>3, RestedEverywhere DEF DiskPart
    <3>. QED BY <3>1, <3>2 DEF RestedAt
  <2>. QED BY <2>1, <2>2
<1>7. s \notin hurt' /\ sessions'[s].dir = "listed" =>
        sessions'[s].manifest.pending = {t \in Tracks : spot'[t] = s /\ t \notin aside'}
  BY <1>3, <1>6 DEF Present
<1>8. /\ \A p \in Places : rows'[p] # None => spot'[rows'[p]] = p
      /\ \A t \in aside' : spot'[t] \in Sessions
      /\ sessions'[s].dir = "absent" => \A t \in Tracks : spot'[t] # s
      /\ \A t \in Tracks : spot[t] = "incoming" => spot'[t] = "incoming"
      /\ stale' \subseteq stale
  BY <1>3 DEF DiskPart, DiskSound
<1>9. UNCHANGED pages
  OBVIOUS
<1>. QED BY <1>1, <1>2, <1>4, <1>5, <1>7, <1>8, <1>9, AfterEnd

\* Handlers that end without a change on the disk keep the invariant.
LEMMA Refusals ==
  ASSUME Inv, NEW r \in Requests,
         RefuseRequest(r) \/ RefuseTags(r) \/ RefuseImport(r) \/ MoveFails(r) \/ UndoFails(r)
  PROVE  Inv'
<1>1. TypeOK /\ Shaped(requests[r]) /\ LibraryTurns
  BY DEF Inv
<1>2. MyTurn(r) /\ requests[r].phase \in Working \cup {"queued"}
  BY Now DEF RefuseRequest, RefuseTags, RefuseImport, MoveFails, UndoFails, Working
<1>3. TypeOK'
  BY <1>1, <1>2, EndTypes
<1>4. PICK s \in Sessions : requests[r].session = s
  BY <1>1, <1>2, About
<1>5. "refused" \in Answers /\ Answer(r, "refused") /\ UNCHANGED <<disk, pages>>
  BY DEF Answers, RefuseRequest, RefuseTags, RefuseImport, MoveFails, UndoFails
<1>6. \/ UNCHANGED edits /\ requests[r].phase \notin LibraryWork
      \/ edits' = Tail(edits) /\ LibraryTurn(r)
  BY <1>1 DEF RefuseRequest, RefuseTags, RefuseImport, MoveFails, UndoFails, LibraryTurns,
              LibraryWork
<1>7. hurt \subseteq hurt'
  BY DEF RefuseRequest, RefuseTags, RefuseImport, MoveFails, UndoFails
<1>8. s \in hurt' \/ InHand(r) = {}
  <2>1. CASE UndoFails(r)
    BY <1>4, <2>1 DEF UndoFails
  <2>2. CASE RefuseRequest(r) \/ RefuseTags(r) \/ RefuseImport(r) \/ MoveFails(r)
    BY <2>2 DEF RefuseRequest, RefuseTags, RefuseImport, MoveFails, InHand
  <2>. QED BY <2>1, <2>2
<1>. QED BY <1>2, <1>3, <1>4, <1>5, <1>6, <1>7, <1>8, AfterRefusal

\* The backup goes back: the track is present again.
LEMMA InstallTaggedFailsInv ==
  ASSUME Inv, NEW r \in Requests, InstallTaggedFails(r)
  PROVE  Inv'
<1>1. TypeOK /\ Shaped(requests[r]) /\ LibraryTurns /\ DiskPart
  BY DEF Inv
<1>2. requests[r].phase \in Working /\ requests[r].phase = "install"
  BY DEF InstallTaggedFails, Working
<1>3. MyTurn(r) /\ AtWork(r)
  BY <1>2, Now
<1>4. TypeOK'
  BY <1>1, <1>3, EndTypes
<1>5. PICK s \in Sessions, t \in Tracks : requests[r].session = s /\ requests[r].track = t
  BY <1>1, <1>2, About
<1>6. Intact(r) /\ spot[t] = s /\ t \in aside /\ InHand(r) = {t}
  BY <1>2, <1>3, <1>5 DEF AtWork, Touched, Where, InHand
<1>7. /\ aside' = aside \ {t} /\ UNCHANGED <<spot, tags, rows, sessions, stale, edits, pages, hurt>>
      /\ Answer(r, "refused")
  BY <1>5 DEF InstallTaggedFails
<1>8. /\ "refused" \in Answers /\ {} \in SUBSET Tracks /\ {} \subseteq {requests[r].track}
      /\ Reply(r, "refused", {}) /\ LeaveSession(r)
  BY <1>7 DEF Answers, Answer
<1>9. requests[r].phase \notin LibraryWork
  BY <1>2 DEF LibraryWork
<1>10. \A z \in Sessions \ {s} : Spares(z)
  BY <1>6, <1>7 DEF Spares
<1>11. RowsGrow /\ PlacesSpared
  BY <1>7 DEF RowsGrow, PlacesSpared
<1>12. sessions'[s].dir # "new"
  BY <1>5, <1>7, NotNew
<1>13. SoundAt(s)'
  BY <1>5, <1>6, <1>7 DEF Intact, SoundAt, Sound, Held
<1>14. s \notin hurt' /\ sessions'[s].dir = "listed" =>
         sessions'[s].manifest.pending = {u \in Tracks : spot'[u] = s /\ u \notin aside'}
  BY <1>5, <1>6, <1>7 DEF Intact, Present
<1>15. /\ \A p \in Places : rows'[p] # None => spot'[rows'[p]] = p
       /\ \A u \in aside' : spot'[u] \in Sessions
       /\ sessions'[s].dir = "absent" => \A u \in Tracks : spot'[u] # s
       /\ \A u \in Tracks : spot[u] = "incoming" => spot'[u] = "incoming"
       /\ stale' \subseteq stale
  BY <1>1, <1>7 DEF DiskPart, DiskSound
<1>16. UNCHANGED pages /\ UNCHANGED edits
  BY <1>7
<1>. QED BY <1>2, <1>3, <1>4, <1>5, <1>8, <1>9, <1>10, <1>11, <1>12, <1>13, <1>14, <1>15, <1>16, AfterEnd

\* Sessions, places and the other spots are told apart.
LEMMA SpotsApart ==
  /\ \A s \in Sessions : s \notin Places /\ s \notin {"outside", "incoming", "gone", None}
  /\ \A p \in Places : p \notin {"outside", "incoming", "gone", "away", "waiting", "discarded", None}
  /\ None \notin Tracks /\ None \notin Requests /\ None \notin Pages
  BY ConstantsAssumption

\* The file goes back to the session: what the manifest lists is there again.
LEMMA UndoMoveInv ==
  ASSUME Inv, NEW r \in Requests, UndoMove(r)
  PROVE  Inv'
<1>1. TypeOK /\ Shaped(requests[r]) /\ LibraryTurns /\ DiskPart
  BY DEF Inv
<1>2. requests[r].phase \in Working /\ requests[r].phase = "undo" /\ LibraryTurn(r)
  BY <1>1 DEF UndoMove, Working, LibraryTurns, LibraryWork
<1>3. MyTurn(r) /\ AtWork(r)
  BY <1>2, Now
<1>4. TypeOK'
  BY <1>1, <1>3, EndTypes
<1>5. PICK s \in Sessions, t \in Tracks, p \in Places :
        requests[r].session = s /\ requests[r].track = t /\ requests[r].tag = p
  BY <1>1, <1>2, About DEF LibraryWork
<1>6. Intact(r) /\ spot[t] = p /\ rows[p] = None /\ InHand(r) = {t} /\ requests[r].op # "cancel"
  BY <1>1, <1>2, <1>3, <1>5, About DEF AtWork, Touched, Where, InHand, LibraryWork
<1>7. /\ spot' = [spot EXCEPT ![t] = s] /\ edits' = Tail(edits)
      /\ UNCHANGED <<aside, tags, rows, sessions, stale, pages, hurt>>
      /\ Answer(r, "refused")
  BY <1>5 DEF UndoMove
<1>8. /\ "refused" \in Answers /\ {} \in SUBSET Tracks /\ {} \subseteq {requests[r].track}
      /\ Reply(r, "refused", {}) /\ LeaveSession(r)
  BY <1>7 DEF Answers, Answer
<1>9. \A u \in Tracks : spot'[u] = IF u = t THEN s ELSE spot[u]
  BY <1>1, <1>7 DEF TypeOK
<1>10. \A z \in Sessions \ {s} : Spares(z)
  BY <1>6, <1>7, <1>9, SpotsApart DEF Spares
<1>11. RowsGrow
  BY <1>7 DEF RowsGrow
<1>12. sessions'[s].dir # "new"
  BY <1>5, <1>7, NotNew
<1>13. t \in sessions[s].manifest.pending /\ t \notin aside
  BY <1>1, <1>5, <1>6, SpotsApart DEF Intact, DiskPart, DiskSound
<1>14. SoundAt(s)'
  BY <1>5, <1>6, <1>7, <1>9, <1>13 DEF Intact, SoundAt, Sound, Held
<1>15. s \notin hurt' /\ sessions'[s].dir = "listed" =>
         sessions'[s].manifest.pending = {u \in Tracks : spot'[u] = s /\ u \notin aside'}
  BY <1>5, <1>6, <1>7, <1>9, <1>13 DEF Intact, Present
<1>16. \A q \in Places : rows'[q] # None => spot'[rows'[q]] = q
  <2> SUFFICES ASSUME NEW q \in Places, rows[q] # None PROVE spot'[rows[q]] = q
    BY <1>7
  <2>1. spot[rows[q]] = q /\ rows[q] \in Tracks
    BY <1>1 DEF DiskPart, DiskSound, TypeOK
  <2>2. rows[q] # t
    BY <1>6, <2>1
  <2>. QED BY <1>9, <2>1, <2>2
<1>17. \A u \in aside' : spot'[u] \in Sessions
  BY <1>1, <1>7, <1>9 DEF DiskPart, DiskSound, TypeOK
<1>18. sessions'[s].dir = "absent" => \A u \in Tracks : spot'[u] # s
  BY <1>2, <1>5, <1>6, <1>7 DEF Intact
<1>19. \A u \in Tracks : spot[u] = "incoming" => spot'[u] = "incoming"
  BY <1>6, <1>9, SpotsApart
<1>20. UNCHANGED pages /\ stale' \subseteq stale /\ edits' = Tail(edits)
  BY <1>7
<1>. QED BY <1>2, <1>3, <1>4, <1>5, <1>8, <1>10, <1>11, <1>12, <1>14, <1>15, <1>16, <1>17, <1>18,
            <1>19, <1>20, AfterEnd

\* A directory is removed with what it holds.
LEMMA Removed ==
  ASSUME TypeOK, DiskSound, NEW s \in Sessions, RemoveDirectory(s), UNCHANGED rows
  PROVE  /\ sessions'[s] = [dir |-> "absent", manifest |-> Blank]
         /\ \A t \in Tracks : spot'[t] = IF spot[t] = s THEN "gone" ELSE spot[t]
         /\ \A t \in Tracks : spot'[t] # s
         /\ \A z \in Sessions \ {s} : sessions'[z] = sessions[z]
         /\ \A t \in Tracks : spot[t] # s => (t \in aside' <=> t \in aside)
         /\ stale' = stale \ {s}
         /\ PlacesSpared
         /\ \A p \in Places : rows'[p] # None => spot'[rows'[p]] = p
         /\ \A t \in aside' : spot'[t] \in Sessions
         /\ \A t \in Tracks : spot[t] = "incoming" => spot'[t] = "incoming"
<1>1. sessions'[s] = [dir |-> "absent", manifest |-> Blank]
      /\ \A z \in Sessions \ {s} : sessions'[z] = sessions[z]
  BY DEF RemoveDirectory, TypeOK
<1>2. \A t \in Tracks : spot'[t] = IF spot[t] = s THEN "gone" ELSE spot[t]
  BY DEF RemoveDirectory
<1>3. aside' = {t \in aside : spot[t] # s} /\ aside \subseteq Tracks /\ stale' = stale \ {s}
  BY DEF RemoveDirectory, TypeOK
<1>4. PlacesSpared
  BY <1>2, SpotsApart DEF PlacesSpared
<1>5. \A p \in Places : rows'[p] # None => spot'[rows'[p]] = p
  <2> SUFFICES ASSUME NEW p \in Places, rows[p] # None PROVE spot'[rows[p]] = p
    OBVIOUS
  <2>1. spot[rows[p]] = p /\ rows[p] \in Tracks
    BY DEF DiskSound, TypeOK
  <2>. QED BY <1>2, <2>1, SpotsApart
<1>6. \A t \in aside' : spot'[t] \in Sessions
  BY <1>2, <1>3 DEF DiskSound
<1>. QED BY <1>1, <1>2, <1>3, <1>4, <1>5, <1>6, SpotsApart

\* The session goes with all its files.
LEMMA CloseSessionInv ==
  ASSUME Inv, NEW r \in Requests, CloseSession(r)
  PROVE  Inv'
<1>1. TypeOK /\ Shaped(requests[r]) /\ LibraryTurns /\ DiskPart
  BY DEF Inv
<1>2. requests[r].phase \in Working /\ requests[r].phase \notin LibraryWork
  BY DEF CloseSession, Working, LibraryWork
<1>3. MyTurn(r)
  BY <1>2, Now
<1>4. TypeOK'
  BY <1>1, <1>3, EndTypes
<1>5. PICK s \in Sessions : requests[r].session = s
  BY <1>1, <1>2, About
<1>6. PICK answer \in Answers : Answer(r, answer)
  BY DEF CloseSession, Answers
<1>7. /\ {} \in SUBSET Tracks /\ {} \subseteq {requests[r].track}
      /\ Reply(r, answer, {}) /\ LeaveSession(r)
  BY <1>6 DEF Answer
<1>8. RemoveDirectory(s) /\ UNCHANGED <<tags, rows, edits, pages, faults, hurt>>
  BY <1>5 DEF CloseSession
<1>9. /\ sessions'[s] = [dir |-> "absent", manifest |-> Blank]
      /\ \A t \in Tracks : spot'[t] = IF spot[t] = s THEN "gone" ELSE spot[t]
      /\ \A t \in Tracks : spot'[t] # s
      /\ \A z \in Sessions \ {s} : sessions'[z] = sessions[z]
      /\ \A t \in Tracks : spot[t] # s => (t \in aside' <=> t \in aside)
      /\ stale' = stale \ {s}
      /\ PlacesSpared
      /\ \A p \in Places : rows'[p] # None => spot'[rows'[p]] = p
      /\ \A t \in aside' : spot'[t] \in Sessions
      /\ \A t \in Tracks : spot[t] = "incoming" => spot'[t] = "incoming"
  BY <1>1, <1>8, Removed DEF DiskPart
<1>10. \A z \in Sessions \ {s} : Spares(z)
  BY <1>8, <1>9, SpotsApart DEF Spares
<1>11. RowsGrow
  BY <1>8 DEF RowsGrow
<1>12. SoundAt(s)' /\ sessions'[s].dir = "absent"
  BY <1>9 DEF SoundAt
<1>. QED BY <1>2, <1>3, <1>4, <1>5, <1>7, <1>8, <1>9, <1>10, <1>11, <1>12, AfterEnd

\* The old manifest is back; the session has met a fault.
LEMMA RecordFailsInv ==
  ASSUME Inv, NEW r \in Requests, RecordFails(r)
  PROVE  Inv'
<1>1. TypeOK /\ Shaped(requests[r]) /\ LibraryTurns /\ DiskPart
  BY DEF Inv
<1>2. /\ requests[r].phase \in Working /\ requests[r].phase \notin LibraryWork
      /\ requests[r].phase \in {"record", "list"}
  BY DEF RecordFails, Working, LibraryWork
<1>3. MyTurn(r) /\ AtWork(r)
  BY <1>2, Now
<1>4. TypeOK'
  BY <1>1, <1>3, EndTypes
<1>5. PICK s \in Sessions : requests[r].session = s
  BY <1>1, <1>2, About
<1>6. /\ "refused" \in Answers /\ {} \in SUBSET Tracks /\ {} \subseteq {requests[r].track}
      /\ Reply(r, "refused", {}) /\ LeaveSession(r)
  BY DEF RecordFails, Answer, Answers
<1>7. /\ UNCHANGED <<spot, aside, tags, rows, stale, edits, pages>>
      /\ hurt' = hurt \cup {s}
      /\ sessions' = IF requests[r].phase = "list" THEN [sessions EXCEPT ![s].dir = "listed"]
                     ELSE sessions
  BY <1>5 DEF RecordFails
<1>8. \A z \in Sessions \ {s} : Spares(z)
  BY <1>1, <1>7 DEF Spares, TypeOK
<1>9. RowsGrow /\ PlacesSpared
  BY <1>7 DEF RowsGrow, PlacesSpared
<1>10. sessions'[s].manifest = sessions[s].manifest
  BY <1>1, <1>7 DEF TypeOK, Directory
<1>11. CASE requests[r].phase = "list"
  <2>1. sessions'[s].dir = "listed"
    BY <1>1, <1>7, <1>11 DEF TypeOK, Directory
  <2>2. Sound(s)
    BY <1>3, <1>5, <1>11 DEF AtWork, Touched, Intact
  <2>3. SoundAt(s)'
    BY <1>7, <1>10, <2>2 DEF SoundAt, Sound, Held
  <2>4. /\ \A p \in Places : rows'[p] # None => spot'[rows'[p]] = p
        /\ \A t \in aside' : spot'[t] \in Sessions
    BY <1>1, <1>7 DEF DiskPart, DiskSound
  <2>. QED BY <1>2, <1>3, <1>4, <1>5, <1>6, <1>7, <1>8, <1>9, <2>1, <2>3, <2>4, AfterEnd
<1>12. CASE requests[r].phase # "list"
  <2>1. sessions' = sessions /\ sessions'[s].dir # "new"
    BY <1>5, <1>7, <1>12, NotNew
  <2>2. SoundAt(s)
    BY <1>1, SoundEverywhere DEF DiskPart
  <2>3. SoundAt(s)'
    BY <1>7, <2>1, <2>2 DEF SoundAt, Sound, Held
  <2>4. /\ \A p \in Places : rows'[p] # None => spot'[rows'[p]] = p
        /\ \A t \in aside' : spot'[t] \in Sessions
        /\ sessions'[s].dir = "absent" => \A t \in Tracks : spot'[t] # s
    BY <1>1, <1>7, <2>1 DEF DiskPart, DiskSound
  <2>. QED BY <1>2, <1>3, <1>4, <1>5, <1>6, <1>7, <1>8, <1>9, <2>1, <2>3, <2>4, AfterEnd
<1>. QED BY <1>11, <1>12

\* The new manifest lists what is there: the imported track has left the session.
LEMMA InstallManifestInv ==
  ASSUME Inv, NEW r \in Requests, InstallManifest(r)
  PROVE  Inv'
<1>1. TypeOK /\ Shaped(requests[r]) /\ LibraryTurns /\ DiskPart
  BY DEF Inv
<1>2. /\ requests[r].phase \in Working /\ requests[r].phase \notin LibraryWork
      /\ requests[r].phase = "list"
  BY DEF InstallManifest, Working, LibraryWork
<1>3. MyTurn(r) /\ AtWork(r)
  BY <1>2, Now
<1>4. TypeOK'
  BY <1>1, <1>3, InstallTypes DEF InstallManifest
<1>5. PICK s \in Sessions, t \in Tracks : requests[r].session = s /\ requests[r].track = t
  BY <1>1, <1>2, About
<1>6. requests[r].op \in {"tags", "commit"}
  BY <1>1, <1>2, About
<1>7. /\ Intact(r) /\ s \notin stale
      /\ requests[r].op = "commit" => \E p \in Places : rows[p] = t
  BY <1>2, <1>3, <1>5 DEF AtWork, Touched, Where
<1>. DEFINE T == {u \in {requests[r].track} : tags[u] # None /\ spot[u] = requests[r].session}
<1>8. /\ T \in SUBSET Tracks /\ T \subseteq {requests[r].track}
      /\ "ok" \in Answers /\ Reply(r, "ok", T) /\ LeaveSession(r)
  BY <1>5 DEF InstallManifest, Answers
<1>. HIDE DEF T
<1>9. /\ sessions' = [sessions EXCEPT ![s] = [dir |-> "listed", manifest |-> NewManifest(r)]]
      /\ UNCHANGED <<spot, aside, tags, rows, stale, edits, pages, faults, hurt>>
  BY <1>5 DEF InstallManifest
<1>10. /\ sessions'[s] = [dir |-> "listed", manifest |-> NewManifest(r)]
       /\ \A z \in Sessions \ {s} : sessions'[z] = sessions[z]
  BY <1>1, <1>9 DEF TypeOK
<1>11. sessions'[s].dir = "listed" /\ sessions'[s].manifest = NewManifest(r)
  BY <1>10
<1>12. (\A z \in Sessions \ {s} : Spares(z)) /\ RowsGrow /\ PlacesSpared
  BY <1>9, <1>10 DEF Spares, RowsGrow, PlacesSpared
<1>13. requests[r].op = "commit" => spot[t] # s
  BY <1>1, <1>7, SpotsApart DEF DiskPart, DiskSound
<1>14. /\ Held(s) \subseteq requests[r].read.pending
       /\ \A u \in requests[r].read.imported : \E p \in Places : rows[p] = u
       /\ s \notin hurt => requests[r].read.pending = Present(s) \cup InHand(r)
  BY <1>5, <1>7 DEF Intact, Sound
<1>15. CASE requests[r].op = "tags"
  <2>1. NewManifest(r) = requests[r].read /\ InHand(r) = {}
    BY <1>2, <1>15 DEF NewManifest, InHand
  <2>2. SoundAt(s)'
    BY <1>9, <1>11, <1>14, <2>1 DEF SoundAt, Sound, Held
  <2>3. s \notin hurt' =>
          sessions'[s].manifest.pending = {u \in Tracks : spot'[u] = s /\ u \notin aside'}
    BY <1>9, <1>11, <1>14, <2>1 DEF Present
  <2>4. /\ \A p \in Places : rows'[p] # None => spot'[rows'[p]] = p
        /\ \A u \in aside' : spot'[u] \in Sessions
    BY <1>1, <1>9 DEF DiskPart, DiskSound
  <2>. QED BY <1>2, <1>3, <1>4, <1>5, <1>8, <1>9, <1>11, <1>12, <2>2, <2>3, <2>4, AfterEnd
<1>16. CASE requests[r].op = "commit"
  <2>1. /\ NewManifest(r).pending = requests[r].read.pending \ {t}
        /\ NewManifest(r).imported = requests[r].read.imported \cup {t}
        /\ InHand(r) = {t}
    BY <1>2, <1>5, <1>16 DEF NewManifest, InHand
  <2>2. SoundAt(s)'
    BY <1>7, <1>9, <1>11, <1>13, <1>14, <1>16, <2>1 DEF SoundAt, Sound, Held
  <2>3. s \notin hurt' =>
          sessions'[s].manifest.pending = {u \in Tracks : spot'[u] = s /\ u \notin aside'}
    BY <1>9, <1>11, <1>13, <1>14, <1>16, <2>1 DEF Present
  <2>4. /\ \A p \in Places : rows'[p] # None => spot'[rows'[p]] = p
        /\ \A u \in aside' : spot'[u] \in Sessions
    BY <1>1, <1>9 DEF DiskPart, DiskSound
  <2>. QED BY <1>2, <1>3, <1>4, <1>5, <1>8, <1>9, <1>11, <1>12, <2>2, <2>3, <2>4, AfterEnd
<1>. QED BY <1>6, <1>15, <1>16

-----------------------------------------------------------------------------
(* The steps of handlers that go on. *)

\* What is left to show of a handler that goes on.
LEMMA AfterGoOn ==
  ASSUME Inv, TypeOK', NEW r \in Requests, MyTurn(r),
         requests[r].phase \in Working \cup {"queued"},
         NEW s \in Sessions, requests[r].session = s,
         UNCHANGED <<pages, queue>>, GoesOn(r),
         requests'[r].phase \in Working \cap PhasesOf[requests[r].op],
         requests'[r].phase \in {"move", "index", "undo"} => requests'[r].tag \in Places,
         LibraryTurns',
         \A z \in Sessions \ {s} : Spares(z),
         RowsGrow, LibraryTurn(r) \/ PlacesSpared,
         \A t \in Tracks : spot[t] = "incoming" => spot'[t] = "incoming",
         sessions'[s].dir # "new", stale' \subseteq stale,
         SoundAt(s)', AtWork(r)',
         \A p \in Places : rows'[p] # None => spot'[rows'[p]] = p,
         \A t \in aside' : spot'[t] \in Sessions,
         sessions'[s].dir = "absent" => \A t \in Tracks : spot'[t] # s
  PROVE  Inv'
<1>1. TypeOK /\ (\A q \in Requests : Shaped(requests[q])) /\ SessionTurns /\ LibraryTurns
      /\ DiskPart /\ Paged
  BY DEF Inv
<1>2. /\ \A q \in Requests : Shaped(requests'[q])
      /\ SessionTurns' /\ Paged'
      /\ requests'[r].phase \notin {"received", "moved"}
  BY <1>1, WentOn
<1>3. OneAtWork(r, s)
  BY <1>2 DEF OneAtWork, GoesOn
<1>4. RestedAt(s)'
  BY DEF RestedAt, GoesOn
<1>5. (requests[r].phase \in Working => AtWork(r))'
  OBVIOUS
<1>6. DiskPart'
  BY <1>1, <1>3, <1>4, <1>5, OneStep
<1>. QED BY <1>1, <1>2, <1>6 DEF Inv

\* The manifest is read: the handler works on what it finds.
LEMMA ReadManifestInv ==
  ASSUME Inv, NEW r \in Requests, ReadManifest(r)
  PROVE  Inv'
<1>1. TypeOK /\ Shaped(requests[r]) /\ LibraryTurns /\ SessionTurns /\ DiskPart
  BY DEF Inv
<1>2. requests[r].phase = "queued" /\ MyTurn(r) /\ MayProceed(r)
      /\ UNCHANGED <<disk, queue, pages, faults, hurt>>
  BY DEF ReadManifest
<1>3. PICK s \in Sessions : requests[r].session = s
  BY <1>1, ReadTypes
<1>. DEFINE phase == FirstPhase[requests[r].op]
<1>4. /\ TypeOK'
      /\ requests[r].op \in {"tags", "commit", "cancel"}
      /\ \A q \in Requests \ {r} : requests'[q] = requests[q]
      /\ requests'[r] = [requests[r] EXCEPT !.phase = phase, !.read = sessions[s].manifest]
  BY <1>1, <1>3, ReadTypes
<1>5. /\ GoesOn(r)
      /\ requests'[r].phase = phase /\ requests'[r].read = sessions[s].manifest
      /\ requests'[r].op = requests[r].op /\ requests'[r].track = requests[r].track
  BY <1>1, <1>4 DEF GoesOn, TypeOK, Request
<1>6. /\ phase \in Working \cap PhasesOf[requests[r].op]
      /\ phase \in {"write", "edit", "record"}
      /\ phase = "record" => requests[r].op = "cancel"
      /\ phase = "edit" <=> requests[r].op = "commit"
  BY <1>4 DEF FirstPhase, PhasesOf, Working
<1>. HIDE DEF phase
<1>7. LibraryTurns'
  <2>1. CASE requests[r].op = "commit"
    <3>1. edits' = Append(edits, r) /\ edits \in Seq(Requests) /\ Once(edits)
      BY <1>1, <2>1 DEF ReadManifest, TypeOK, LibraryTurns
    <3>2. \A i \in DOMAIN edits : edits[i] # r
      BY <1>1, <1>2 DEF LibraryTurns, LibraryWork
    <3>3. /\ Once(edits')
          /\ \A i \in DOMAIN edits' : (i \in DOMAIN edits /\ edits'[i] = edits[i]) \/ edits'[i] = r
          /\ edits # <<>> => Head(edits') = Head(edits)
          /\ edits' # <<>>
      BY <3>1, <3>2, AppendOnce
    <3>4. ASSUME NEW i \in DOMAIN edits' PROVE requests'[edits'[i]].phase \in LibraryWork
      <4>1. CASE edits'[i] = r
        BY <1>5, <1>6, <2>1, <4>1 DEF LibraryWork
      <4>2. CASE edits'[i] # r
        <5>1. edits[i] \in Requests /\ edits'[i] = edits[i] /\ requests[edits[i]].phase \in LibraryWork
          BY <1>1, <3>1, <3>3, <3>4, <4>2 DEF LibraryTurns
        <5>. QED BY <1>4, <4>2, <5>1
      <4>. QED BY <4>1, <4>2
    <3>5. ASSUME NEW q \in Requests, requests'[q].phase \in LibraryWork \ {"edit"}
          PROVE  LibraryTurn(q)'
      <4>1. q # r
        BY <1>5, <1>6, <2>1, <3>5
      <4>2. LibraryTurn(q)
        BY <1>1, <1>4, <3>5, <4>1 DEF LibraryTurns
      <4>. QED BY <3>3, <4>2 DEF LibraryTurn
    <3>. QED BY <3>3, <3>4, <3>5 DEF LibraryTurns
  <2>2. CASE requests[r].op # "commit"
    <3>1. UNCHANGED edits /\ requests'[r].phase \notin LibraryWork
      BY <1>5, <1>6, <2>2 DEF ReadManifest, LibraryWork
    <3>2. requests[r].phase \notin LibraryWork
      BY <1>2 DEF LibraryWork
    <3>. QED BY <1>1, <1>4, <3>1, <3>2, LibraryKept
  <2>. QED BY <2>1, <2>2
<1>8. (\A z \in Sessions : Spares(z)) /\ RowsGrow /\ PlacesSpared
  BY <1>2, SparedAll
<1>9. UNCHANGED <<spot, aside, rows, sessions, stale>>
  BY <1>2 DEF disk
<1>10. sessions[s].dir = "listed" /\ SoundAt(s) /\ Sound(s)
  BY <1>1, <1>2, <1>3, SoundEverywhere DEF DiskPart, MayProceed, SoundAt
<1>11. Sound(s)' /\ SoundAt(s)'
  BY <1>1, <1>8, <1>10, SoundSpared DEF SoundAt
<1>12. s \notin hurt => sessions[s].manifest.pending = Present(s)
  <2>1. \A q \in Requests : requests[q].session = s => requests[q].phase \notin Working
    BY <1>1, <1>2, <1>3, NobodyAtWork DEF Working
  <2>2. RestedAt(s)
    BY <1>1, RestedEverywhere DEF DiskPart
  <2>. QED BY <1>10, <2>1, <2>2 DEF RestedAt
<1>13. requests'[r].session = s
  BY <1>3, <1>5 DEF GoesOn
<1>14. Intact(r)'
  <2>1. Present(s)' = Present(s) /\ InHand(r)' = {}
    BY <1>5, <1>6, <1>8, PresentSpared DEF InHand
  <2>2. requests'[r].op # "cancel" => requests'[r].track \in requests'[r].read.pending
    BY <1>2, <1>3, <1>5 DEF MayProceed
  <2>. QED BY <1>2, <1>5, <1>6, <1>9, <1>10, <1>11, <1>12, <1>13, <2>1, <2>2 DEF Intact
<1>15. AtWork(r)'
  BY <1>5, <1>6, <1>14 DEF AtWork, Touched, Where
<1>16. /\ sessions'[s].dir # "new" /\ sessions'[s].dir # "absent"
       /\ \A p \in Places : rows'[p] # None => spot'[rows'[p]] = p
       /\ \A t \in aside' : spot'[t] \in Sessions
       /\ \A t \in Tracks : spot[t] = "incoming" => spot'[t] = "incoming"
       /\ stale' \subseteq stale
  BY <1>1, <1>9, <1>10 DEF DiskPart, DiskSound
<1>17. requests'[r].phase \in Working \cap PhasesOf[requests[r].op]
       /\ requests'[r].phase \notin {"move", "index", "undo"}
  BY <1>5, <1>6
<1>. QED BY <1>2, <1>3, <1>4, <1>5, <1>7, <1>8, <1>11, <1>15, <1>16, <1>17, AfterGoOn

\* A handler that goes on by GoTo.
LEMMA GoesTo ==
  ASSUME Inv, NEW r \in Requests, NEW phase \in Phases, GoTo(r, phase)
  PROVE  GoesOn(r) /\ requests'[r].phase = phase /\ requests'[r].tag = requests[r].tag
         /\ requests'[r].read = requests[r].read
  BY Went DEF Inv, GoesOn

\* What is found where it should be has not been swept.
LEMMA FoundIntact ==
  ASSUME Inv, NEW r \in Requests, AtWork(r), FileThere(r),
         NEW s \in Sessions, requests[r].session = s,
         NEW t \in Tracks, requests[r].track = t
  PROVE  Intact(r) /\ sessions[s].dir # "absent" /\ spot[t] = s /\ t \notin aside
  BY DEF Inv, DiskPart, DiskSound, AtWork, Swept, FileThere

\* The track is in the hand of its handler, and the session is not going to be swept.
LEMMA SetAsideInv ==
  ASSUME Inv, NEW r \in Requests, SetAside(r)
  PROVE  Inv'
<1>1. TypeOK /\ Shaped(requests[r]) /\ LibraryTurns /\ DiskPart
  BY DEF Inv
<1>2. requests[r].phase = "write" /\ requests[r].phase \in Working /\ FileThere(r)
  BY DEF SetAside, Working
<1>3. MyTurn(r) /\ AtWork(r)
  BY <1>2, Now
<1>4. TypeOK'
  BY <1>1, GoOnTypes
<1>5. PICK s \in Sessions, t \in Tracks : requests[r].session = s /\ requests[r].track = t
  BY <1>1, <1>2, About
<1>6. /\ requests[r].op = "tags" /\ Intact(r) /\ spot[t] = s /\ t \notin aside
      /\ sessions[s].dir # "absent"
  BY <1>1, <1>2, <1>3, <1>5, About, FoundIntact
<1>7. /\ aside' = aside \cup {t} /\ stale' = stale \ {s}
      /\ UNCHANGED <<spot, tags, rows, sessions, queue, edits, pages, faults, hurt>>
  BY <1>5 DEF SetAside, Touch
<1>8. /\ GoesOn(r) /\ requests'[r].phase = "install" /\ requests'[r].read = requests[r].read
      /\ requests'[r].session = s /\ requests'[r].track = t /\ requests'[r].op = "tags"
  <2>1. GoTo(r, "install") /\ "install" \in Phases
    BY DEF SetAside, Phases
  <2>. QED BY <1>5, <1>6, <2>1, GoesTo DEF GoesOn
<1>9. LibraryTurns'
  BY <1>1, <1>2, <1>7, <1>8, LibraryKept DEF GoesOn, LibraryWork
<1>10. (\A z \in Sessions \ {s} : Spares(z)) /\ RowsGrow /\ PlacesSpared
  BY <1>6, <1>7 DEF Spares, RowsGrow, PlacesSpared
<1>11. Sound(s)' /\ SoundAt(s)'
  BY <1>5, <1>6, <1>7 DEF Intact, Sound, SoundAt, Held
<1>12. Intact(r)'
  <2>1. InHand(r) = {} /\ InHand(r)' = {t}
    BY <1>2, <1>8 DEF InHand
  <2>2. Present(s)' = Present(s) \ {t} /\ t \in Present(s)
    BY <1>6, <1>7 DEF Present
  <2>. QED BY <1>2, <1>5, <1>6, <1>7, <1>8, <1>11, <2>1, <2>2 DEF Intact
<1>13. AtWork(r)'
  BY <1>6, <1>7, <1>8, <1>12 DEF AtWork, Swept, Where
<1>14. /\ sessions'[s].dir # "new" /\ sessions'[s].dir # "absent"
       /\ \A p \in Places : rows'[p] # None => spot'[rows'[p]] = p
       /\ \A u \in aside' : spot'[u] \in Sessions
       /\ \A u \in Tracks : spot[u] = "incoming" => spot'[u] = "incoming"
       /\ stale' \subseteq stale
  BY <1>1, <1>5, <1>6, <1>7, NotNew DEF DiskPart, DiskSound
<1>15. requests'[r].phase \in Working \cap PhasesOf[requests[r].op]
       /\ requests'[r].phase \notin {"move", "index", "undo"}
  BY <1>6, <1>8 DEF Working, PhasesOf
<1>. QED BY <1>2, <1>3, <1>4, <1>5, <1>7, <1>8, <1>9, <1>10, <1>11, <1>13, <1>14, <1>15, AfterGoOn

\* The track is back from the hand of its handler.
LEMMA InstallTaggedInv ==
  ASSUME Inv, NEW r \in Requests, InstallTagged(r)
  PROVE  Inv'
<1>1. TypeOK /\ Shaped(requests[r]) /\ LibraryTurns /\ DiskPart
  BY DEF Inv
<1>2. requests[r].phase = "install" /\ requests[r].phase \in Working
  BY DEF InstallTagged, Working
<1>3. MyTurn(r) /\ AtWork(r)
  BY <1>2, Now
<1>4. TypeOK'
  BY <1>1, GoOnTypes
<1>5. PICK s \in Sessions, t \in Tracks : requests[r].session = s /\ requests[r].track = t
  BY <1>1, <1>2, About
<1>6. /\ requests[r].op = "tags" /\ Intact(r) /\ s \notin stale /\ sessions[s].dir # "absent"
      /\ spot[t] = s /\ t \in aside
  BY <1>1, <1>2, <1>3, <1>5, About DEF AtWork, Touched, Swept, Where
<1>7. /\ aside' = aside \ {t}
      /\ UNCHANGED <<spot, rows, sessions, stale, queue, edits, pages, faults, hurt>>
  BY <1>5 DEF InstallTagged
<1>8. /\ GoesOn(r) /\ requests'[r].phase = "record" /\ requests'[r].read = requests[r].read
      /\ requests'[r].session = s /\ requests'[r].track = t /\ requests'[r].op = "tags"
  <2>1. GoTo(r, "record") /\ "record" \in Phases
    BY DEF InstallTagged, Phases
  <2>. QED BY <1>5, <1>6, <2>1, GoesTo DEF GoesOn
<1>9. LibraryTurns'
  BY <1>1, <1>2, <1>7, <1>8, LibraryKept DEF GoesOn, LibraryWork
<1>10. (\A z \in Sessions \ {s} : Spares(z)) /\ RowsGrow /\ PlacesSpared
  BY <1>6, <1>7 DEF Spares, RowsGrow, PlacesSpared
<1>11. Sound(s)' /\ SoundAt(s)'
  BY <1>5, <1>6, <1>7 DEF Intact, Sound, SoundAt, Held
<1>12. Intact(r)'
  <2>1. InHand(r) = {t} /\ InHand(r)' = {}
    BY <1>2, <1>5, <1>8 DEF InHand
  <2>2. Present(s)' = Present(s) \cup {t}
    BY <1>6, <1>7 DEF Present
  <2>. QED BY <1>2, <1>5, <1>6, <1>7, <1>8, <1>11, <2>1, <2>2 DEF Intact
<1>13. AtWork(r)'
  BY <1>6, <1>7, <1>8, <1>12 DEF AtWork, Swept, Where
<1>14. /\ sessions'[s].dir # "new" /\ sessions'[s].dir # "absent"
       /\ \A p \in Places : rows'[p] # None => spot'[rows'[p]] = p
       /\ \A u \in aside' : spot'[u] \in Sessions
       /\ \A u \in Tracks : spot[u] = "incoming" => spot'[u] = "incoming"
       /\ stale' \subseteq stale
  BY <1>1, <1>5, <1>6, <1>7, NotNew DEF DiskPart, DiskSound
<1>15. requests'[r].phase \in Working \cap PhasesOf[requests[r].op]
       /\ requests'[r].phase \notin {"move", "index", "undo"}
  BY <1>6, <1>8 DEF Working, PhasesOf
<1>. QED BY <1>2, <1>3, <1>4, <1>5, <1>7, <1>8, <1>9, <1>10, <1>11, <1>13, <1>14, <1>15, AfterGoOn

\* A session whose files, manifest and rows stay: its handler's view of it stays.
LEMMA StaysIntact ==
  ASSUME Inv, NEW r \in Requests, NEW s \in Sessions, requests[r].session = s,
         UNCHANGED <<spot, aside, sessions, hurt>>, RowsGrow,
         requests'[r].session = s, requests'[r].read = requests[r].read,
         requests'[r].track = requests[r].track, requests'[r].op = requests[r].op,
         InHand(r)' = InHand(r),
         requests[r].phase # "list", requests'[r].phase # "list"
  PROVE  /\ Intact(r) => Intact(r)'
         /\ SoundAt(s)'
<1>1. TypeOK /\ SoundAt(s)
  BY SoundEverywhere DEF Inv, DiskPart
<1>2. \A t \in Tracks, p \in Places : rows[p] = t => rows'[p] = t
  BY SpotsApart DEF RowsGrow
<1>3. sessions[s].manifest.imported \subseteq Tracks
  BY <1>1 DEF TypeOK, Directory, Manifest
<1>4. Sound(s) => Sound(s)'
  BY <1>2, <1>3 DEF Sound, Held
<1>5. Present(s)' = Present(s)
  BY DEF Present
<1>. QED BY <1>1, <1>4, <1>5 DEF Intact, SoundAt

\* The place is free when it is looked at, and stays free: the library is locked.
LEMMA CheckImportInv ==
  ASSUME Inv, NEW r \in Requests, CheckImport(r)
  PROVE  Inv'
<1>1. TypeOK /\ Shaped(requests[r]) /\ LibraryTurns /\ DiskPart
  BY DEF Inv
<1>2. /\ requests[r].phase = "edit" /\ requests[r].phase \in Working
      /\ LibraryTurn(r) /\ Importable(r)
      /\ UNCHANGED <<disk, queue, edits, pages, faults, hurt>>
  BY DEF CheckImport, Working
<1>3. MyTurn(r) /\ AtWork(r)
  BY <1>2, Now
<1>4. TypeOK'
  BY <1>1, GoOnTypes
<1>5. PICK s \in Sessions, t \in Tracks : requests[r].session = s /\ requests[r].track = t
  BY <1>1, <1>2, About DEF LibraryWork
<1>6. PICK p \in Places : tags[t] = p
  BY <1>1, <1>2, <1>5 DEF Importable, TypeOK
<1>7. /\ requests[r].op = "commit" /\ Intact(r) /\ sessions[s].dir # "absent"
      /\ ~PlaceTaken(p) /\ FileThere(r)
  BY <1>1, <1>2, <1>3, <1>5, <1>6, About, FoundIntact DEF Importable, LibraryWork
<1>8. /\ GoesOn(r) /\ requests'[r].phase = "move" /\ requests'[r].read = requests[r].read
      /\ requests'[r].session = s /\ requests'[r].track = t /\ requests'[r].op = "commit"
      /\ requests'[r].tag = p
  <2>1. requests' = [requests EXCEPT ![r].phase = "move", ![r].tag = p]
    BY <1>5, <1>6 DEF CheckImport
  <2>2. requests \in [Requests -> Request] /\ requests[r] \in Request
    BY <1>1 DEF TypeOK
  <2>3. requests' = [requests EXCEPT ![r] = [requests[r] EXCEPT !.phase = "move", !.tag = p]]
    BY <2>1, <2>2
  <2>4. /\ \A q \in Requests \ {r} : requests'[q] = requests[q]
        /\ requests'[r] = [requests[r] EXCEPT !.phase = "move", !.tag = p]
    BY <2>2, <2>3
  <2>. QED BY <1>5, <1>7, <2>2, <2>4 DEF GoesOn, Request
<1>9. LibraryTurns'
  BY <1>1, <1>2, <1>8, LibraryKept DEF GoesOn, LibraryWork
<1>10. (\A z \in Sessions : Spares(z)) /\ RowsGrow /\ PlacesSpared
  BY <1>2, SparedAll
<1>11. UNCHANGED <<spot, aside, rows, sessions, stale, hurt>>
  BY <1>2 DEF disk
<1>12. InHand(r)' = InHand(r)
  BY <1>2, <1>8 DEF InHand
<1>13. Intact(r)' /\ SoundAt(s)'
  BY <1>2, <1>5, <1>7, <1>8, <1>10, <1>11, <1>12, StaysIntact
<1>14. AtWork(r)'
  <2>1. Where(r)'
    BY <1>7, <1>8, <1>11 DEF Where, PlaceTaken
  <2>. QED BY <1>8, <1>13, <2>1 DEF AtWork, Touched
<1>15. /\ sessions'[s].dir # "new" /\ sessions'[s].dir # "absent"
       /\ \A q \in Places : rows'[q] # None => spot'[rows'[q]] = q
       /\ \A u \in aside' : spot'[u] \in Sessions
       /\ \A u \in Tracks : spot[u] = "incoming" => spot'[u] = "incoming"
       /\ stale' \subseteq stale
  BY <1>1, <1>5, <1>7, <1>11, NotNew DEF DiskPart, DiskSound
<1>16. requests'[r].phase \in Working \cap PhasesOf[requests[r].op]
       /\ requests'[r].tag \in Places
  BY <1>7, <1>8 DEF Working, PhasesOf
<1>. QED BY <1>2, <1>3, <1>4, <1>5, <1>8, <1>9, <1>10, <1>13, <1>14, <1>15, <1>16, AfterGoOn

\* What moving a track into the library does: the place was free.
LEMMA MovedIn ==
  ASSUME Inv, NEW r \in Requests, MoveIntoLibrary(r)
  PROVE  \E s \in Sessions, t \in Tracks, p \in Places :
           /\ requests[r].session = s /\ requests[r].track = t /\ requests[r].tag = p
           /\ requests[r].op = "commit" /\ Intact(r) /\ sessions[s].dir # "absent"
           /\ spot[t] = s /\ t \notin aside
           /\ ~PlaceTaken(p) /\ rows[p] = None
           /\ \A u \in Tracks : spot'[u] = IF u = t THEN p ELSE spot[u]
<1>1. TypeOK /\ Shaped(requests[r]) /\ DiskSound
  BY DEF Inv, DiskPart
<1>2. requests[r].phase = "move" /\ requests[r].phase \in Working /\ FileThere(r)
  BY DEF MoveIntoLibrary, Working
<1>3. AtWork(r)
  BY <1>2, Now
<1>4. PICK s \in Sessions, t \in Tracks, p \in Places :
        requests[r].session = s /\ requests[r].track = t /\ requests[r].tag = p
  BY <1>1, <1>2, About DEF LibraryWork
<1>5. /\ requests[r].op = "commit" /\ Intact(r) /\ spot[t] = s /\ t \notin aside
      /\ sessions[s].dir # "absent"
  BY <1>1, <1>2, <1>3, <1>4, About, FoundIntact DEF LibraryWork
<1>6. ~PlaceTaken(p)
  BY <1>2, <1>3, <1>4 DEF AtWork, Where
<1>7. rows[p] = None
  <2>1. rows[p] # None => rows[p] \in Tracks /\ spot[rows[p]] = p
    BY <1>1 DEF TypeOK, DiskSound
  <2>. QED BY <1>6, <2>1 DEF PlaceTaken
<1>8. \A u \in Tracks : spot'[u] = IF u = t THEN p ELSE spot[u]
  BY <1>4, <1>6 DEF MoveIntoLibrary, MovedTo, PlaceTaken
<1>. QED BY <1>4, <1>5, <1>6, <1>7, <1>8

\* The track is in the library, in the hand of its handler.
LEMMA MoveIntoLibraryInv ==
  ASSUME Inv, NEW r \in Requests, MoveIntoLibrary(r)
  PROVE  Inv'
<1>1. TypeOK /\ Shaped(requests[r]) /\ LibraryTurns /\ DiskPart
  BY DEF Inv
<1>2. /\ requests[r].phase = "move" /\ requests[r].phase \in Working
  BY DEF MoveIntoLibrary, Working
<1>3. MyTurn(r) /\ LibraryTurn(r)
  BY <1>1, <1>2, Now DEF LibraryTurns, LibraryWork
<1>4. TypeOK'
  BY <1>1, GoOnTypes
<1>5. PICK s \in Sessions, t \in Tracks, p \in Places :
           /\ requests[r].session = s /\ requests[r].track = t /\ requests[r].tag = p
           /\ requests[r].op = "commit" /\ Intact(r) /\ sessions[s].dir # "absent"
           /\ spot[t] = s /\ t \notin aside
           /\ ~PlaceTaken(p) /\ rows[p] = None
           /\ \A u \in Tracks : spot'[u] = IF u = t THEN p ELSE spot[u]
  BY MovedIn
<1>6. /\ stale' = stale \ {s}
      /\ UNCHANGED <<aside, tags, rows, sessions, queue, edits, pages, faults, hurt>>
  BY <1>5 DEF MoveIntoLibrary, Touch
<1>8. /\ GoesOn(r) /\ requests'[r].phase = "index" /\ requests'[r].read = requests[r].read
      /\ requests'[r].session = s /\ requests'[r].track = t /\ requests'[r].op = "commit"
      /\ requests'[r].tag = p
  <2>1. GoTo(r, "index") /\ "index" \in Phases
    BY DEF MoveIntoLibrary, Phases
  <2>. QED BY <1>5, <2>1, GoesTo DEF GoesOn
<1>9. LibraryTurns'
  BY <1>1, <1>3, <1>6, <1>8, LibraryKept DEF GoesOn, LibraryWork
<1>10. \A z \in Sessions \ {s} : Spares(z)
  BY <1>5, <1>6, SpotsApart DEF Spares
<1>11. RowsGrow
  BY <1>6 DEF RowsGrow
<1>12. Sound(s)' /\ SoundAt(s)'
  BY <1>5, <1>6, SpotsApart DEF Intact, Sound, SoundAt, Held
<1>13. Intact(r)'
  <2>1. InHand(r) = {} /\ InHand(r)' = {t}
    BY <1>2, <1>8 DEF InHand
  <2>2. Present(s)' = Present(s) \ {t} /\ t \in Present(s)
    BY <1>5, <1>6, SpotsApart DEF Present
  <2>. QED BY <1>2, <1>5, <1>6, <1>8, <1>12, <2>1, <2>2 DEF Intact
<1>14. AtWork(r)'
  <2>1. Where(r)'
    BY <1>5, <1>6, <1>8 DEF Where
  <2>. QED BY <1>5, <1>6, <1>8, <1>13, <2>1 DEF AtWork, Swept
<1>15. \A q \in Places : rows'[q] # None => spot'[rows'[q]] = q
  <2> SUFFICES ASSUME NEW q \in Places, rows[q] # None PROVE spot'[rows[q]] = q
    BY <1>6
  <2>1. spot[rows[q]] = q /\ rows[q] \in Tracks
    BY <1>1 DEF DiskPart, DiskSound, TypeOK
  <2>2. rows[q] # t
    BY <1>5, <2>1, SpotsApart
  <2>. QED BY <1>5, <2>1, <2>2
<1>16. /\ sessions'[s].dir # "new" /\ sessions'[s].dir # "absent"
       /\ \A u \in aside' : spot'[u] \in Sessions
       /\ \A u \in Tracks : spot[u] = "incoming" => spot'[u] = "incoming"
       /\ stale' \subseteq stale
  <2>1. sessions'[s].dir # "new" /\ sessions'[s].dir # "absent"
    BY <1>5, <1>6, NotNew
  <2>2. \A u \in aside' : spot'[u] \in Sessions
    BY <1>1, <1>5, <1>6 DEF DiskPart, DiskSound, TypeOK
  <2>. QED BY <1>5, <1>6, <2>1, <2>2, SpotsApart
<1>17. requests'[r].phase \in Working \cap PhasesOf[requests[r].op]
       /\ requests'[r].tag \in Places
  BY <1>5, <1>8 DEF Working, PhasesOf
<1>18. requests[r].phase \in Working \cup {"queued"}
  BY <1>2
<1>. QED BY <1>3, <1>4, <1>5, <1>6, <1>8, <1>9, <1>10, <1>11, <1>12, <1>14, <1>15, <1>16, <1>17,
            <1>18, AfterGoOn

\* What indexing a track does: the row was free.
LEMMA Indexed ==
  ASSUME Inv, NEW r \in Requests, requests[r].phase \in {"index", "undo"}
  PROVE  \E s \in Sessions, t \in Tracks, p \in Places :
           /\ requests[r].session = s /\ requests[r].track = t /\ requests[r].tag = p
           /\ requests[r].op = "commit" /\ Intact(r) /\ s \notin stale
           /\ sessions[s].dir # "absent"
           /\ spot[t] = p /\ rows[p] = None
           /\ MyTurn(r) /\ LibraryTurn(r)
<1>1. TypeOK /\ Shaped(requests[r]) /\ LibraryTurns
  BY DEF Inv
<1>2. requests[r].phase \in Working
  BY DEF Working
<1>3. MyTurn(r) /\ AtWork(r) /\ LibraryTurn(r)
  BY <1>1, <1>2, Now DEF LibraryTurns, LibraryWork
<1>4. PICK s \in Sessions, t \in Tracks, p \in Places :
        requests[r].session = s /\ requests[r].track = t /\ requests[r].tag = p
  BY <1>1, <1>2, About DEF LibraryWork
<1>5. requests[r].op = "commit"
  BY <1>1, About DEF LibraryWork
<1>. QED BY <1>3, <1>4, <1>5 DEF AtWork, Touched, Swept, Where

\* The row is there, and the library is free for the next import.
LEMMA IndexTrackInv ==
  ASSUME Inv, NEW r \in Requests, IndexTrack(r)
  PROVE  Inv'
<1>1. TypeOK /\ Shaped(requests[r]) /\ LibraryTurns /\ DiskPart
  BY DEF Inv
<1>2. requests[r].phase = "index" /\ requests[r].phase \in Working
  BY DEF IndexTrack, Working
<1>4. TypeOK'
  BY <1>1, GoOnTypes
<1>5. PICK s \in Sessions, t \in Tracks, p \in Places :
           /\ requests[r].session = s /\ requests[r].track = t /\ requests[r].tag = p
           /\ requests[r].op = "commit" /\ Intact(r) /\ s \notin stale
           /\ sessions[s].dir # "absent"
           /\ spot[t] = p /\ rows[p] = None
           /\ MyTurn(r) /\ LibraryTurn(r)
  BY <1>2, Indexed
<1>6. /\ edits' = Tail(edits)
      /\ UNCHANGED <<spot, aside, tags, sessions, stale, queue, pages, faults, hurt>>
  BY DEF IndexTrack
<1>7. \A q \in Places : rows'[q] = IF q = p THEN t ELSE rows[q]
  BY <1>1, <1>5 DEF IndexTrack, TypeOK
<1>8. /\ GoesOn(r) /\ requests'[r].phase = "record" /\ requests'[r].read = requests[r].read
      /\ requests'[r].session = s /\ requests'[r].track = t /\ requests'[r].op = "commit"
  <2>1. GoTo(r, "record") /\ "record" \in Phases
    BY DEF IndexTrack, Phases
  <2>. QED BY <1>5, <2>1, GoesTo DEF GoesOn
<1>9. LibraryTurns'
  BY <1>1, <1>5, <1>6, <1>8, LibraryAfterEnd DEF GoesOn, LibraryWork
<1>10. (\A z \in Sessions \ {s} : Spares(z)) /\ RowsGrow
  BY <1>5, <1>6, <1>7 DEF Spares, RowsGrow
<1>11. InHand(r)' = InHand(r)
  BY <1>2, <1>5, <1>8 DEF InHand
<1>12. Intact(r)' /\ SoundAt(s)'
  BY <1>2, <1>5, <1>6, <1>8, <1>10, <1>11, StaysIntact
<1>13. AtWork(r)'
  <2>1. Where(r)'
    BY <1>7, <1>8 DEF Where
  <2>. QED BY <1>5, <1>6, <1>8, <1>12, <2>1 DEF AtWork, Swept
<1>14. \A q \in Places : rows'[q] # None => spot'[rows'[q]] = q
  BY <1>1, <1>5, <1>6, <1>7 DEF DiskPart, DiskSound
<1>15. /\ sessions'[s].dir # "new" /\ sessions'[s].dir # "absent"
       /\ \A u \in aside' : spot'[u] \in Sessions
       /\ \A u \in Tracks : spot[u] = "incoming" => spot'[u] = "incoming"
       /\ stale' \subseteq stale
  BY <1>1, <1>5, <1>6, NotNew DEF DiskPart, DiskSound
<1>16. requests'[r].phase \in Working \cap PhasesOf[requests[r].op]
       /\ requests'[r].phase \notin {"move", "index", "undo"}
  BY <1>5, <1>8 DEF Working, PhasesOf
<1>. QED BY <1>2, <1>4, <1>5, <1>6, <1>8, <1>9, <1>10, <1>12, <1>13, <1>14, <1>15, <1>16, AfterGoOn

\* The track is going to be moved back.
LEMMA IndexFailsInv ==
  ASSUME Inv, NEW r \in Requests, IndexFails(r)
  PROVE  Inv'
<1>1. TypeOK /\ Shaped(requests[r]) /\ LibraryTurns /\ DiskPart
  BY DEF Inv
<1>2. /\ requests[r].phase = "index" /\ requests[r].phase \in Working
      /\ UNCHANGED <<disk, queue, edits, pages, faults, hurt>>
  BY DEF IndexFails, Working
<1>4. TypeOK'
  BY <1>1, GoOnTypes
<1>5. PICK s \in Sessions, t \in Tracks, p \in Places :
           /\ requests[r].session = s /\ requests[r].track = t /\ requests[r].tag = p
           /\ requests[r].op = "commit" /\ Intact(r) /\ s \notin stale
           /\ sessions[s].dir # "absent"
           /\ spot[t] = p /\ rows[p] = None
           /\ MyTurn(r) /\ LibraryTurn(r)
  BY <1>2, Indexed
<1>6. UNCHANGED <<spot, aside, rows, sessions, stale, hurt, pages, queue, edits>>
  BY <1>2 DEF disk
<1>8. /\ GoesOn(r) /\ requests'[r].phase = "undo" /\ requests'[r].read = requests[r].read
      /\ requests'[r].session = s /\ requests'[r].track = t /\ requests'[r].op = "commit"
      /\ requests'[r].tag = p
  <2>1. GoTo(r, "undo") /\ "undo" \in Phases
    BY DEF IndexFails, Phases
  <2>. QED BY <1>5, <2>1, GoesTo DEF GoesOn
<1>9. LibraryTurns'
  BY <1>1, <1>5, <1>6, <1>8, LibraryKept DEF GoesOn, LibraryWork
<1>10. (\A z \in Sessions : Spares(z)) /\ RowsGrow /\ PlacesSpared
  BY <1>2, SparedAll
<1>11. InHand(r)' = InHand(r)
  BY <1>2, <1>5, <1>8 DEF InHand
<1>12. Intact(r)' /\ SoundAt(s)'
  BY <1>2, <1>5, <1>6, <1>8, <1>10, <1>11, StaysIntact
<1>13. AtWork(r)'
  <2>1. Where(r)'
    BY <1>5, <1>6, <1>8 DEF Where
  <2>. QED BY <1>5, <1>6, <1>8, <1>12, <2>1 DEF AtWork, Swept
<1>15. /\ sessions'[s].dir # "new" /\ sessions'[s].dir # "absent"
       /\ \A q \in Places : rows'[q] # None => spot'[rows'[q]] = q
       /\ \A u \in aside' : spot'[u] \in Sessions
       /\ \A u \in Tracks : spot[u] = "incoming" => spot'[u] = "incoming"
       /\ stale' \subseteq stale
  BY <1>1, <1>5, <1>6, NotNew DEF DiskPart, DiskSound
<1>16. requests'[r].phase \in Working \cap PhasesOf[requests[r].op]
       /\ requests'[r].tag \in Places
  BY <1>5, <1>8 DEF Working, PhasesOf
<1>. QED BY <1>2, <1>4, <1>5, <1>6, <1>8, <1>9, <1>10, <1>12, <1>13, <1>15, <1>16, AfterGoOn

\* For a moment the session has no manifest.
LEMMA SwapManifestInv ==
  ASSUME Inv, NEW r \in Requests, SwapManifest(r)
  PROVE  Inv'
<1>1. TypeOK /\ Shaped(requests[r]) /\ LibraryTurns /\ DiskPart
  BY DEF Inv
<1>2. /\ requests[r].phase = "record" /\ requests[r].phase \in Working
      /\ requests[r].op # "cancel"
  BY DEF SwapManifest, LastTrack, Working
<1>3. MyTurn(r) /\ AtWork(r)
  BY <1>2, Now
<1>4. TypeOK'
  BY <1>1, GoOnTypes
<1>5. PICK s \in Sessions, t \in Tracks : requests[r].session = s /\ requests[r].track = t
  BY <1>1, <1>2, About
<1>6. /\ requests[r].op \in {"tags", "commit"} /\ Intact(r) /\ s \notin stale
      /\ requests[r].op = "commit" => \E p \in Places : rows[p] = t
  BY <1>1, <1>2, <1>3, <1>5, About DEF AtWork, Touched, Where
<1>7. /\ sessions' = [sessions EXCEPT ![s].dir = "unlisted"]
      /\ UNCHANGED <<spot, aside, tags, rows, stale, queue, edits, pages, faults, hurt>>
  BY <1>5 DEF SwapManifest
<1>8. /\ sessions'[s].dir = "unlisted" /\ sessions'[s].manifest = sessions[s].manifest
      /\ \A z \in Sessions \ {s} : sessions'[z] = sessions[z]
  BY <1>1, <1>7 DEF TypeOK, Directory
<1>9. /\ GoesOn(r) /\ requests'[r].phase = "list" /\ requests'[r].read = requests[r].read
      /\ requests'[r].session = s /\ requests'[r].track = t /\ requests'[r].op = requests[r].op
  <2>1. GoTo(r, "list") /\ "list" \in Phases
    BY DEF SwapManifest, Phases
  <2>. QED BY <1>5, <2>1, GoesTo DEF GoesOn
<1>10. LibraryTurns'
  BY <1>1, <1>2, <1>7, <1>9, LibraryKept DEF GoesOn, LibraryWork
<1>11. (\A z \in Sessions \ {s} : Spares(z)) /\ RowsGrow /\ PlacesSpared
  BY <1>7, <1>8 DEF Spares, RowsGrow, PlacesSpared
<1>12. Sound(s)' /\ SoundAt(s)'
  BY <1>5, <1>6, <1>7, <1>8 DEF Intact, Sound, SoundAt, Held
<1>13. Intact(r)'
  <2>1. InHand(r)' = InHand(r)
    BY <1>2, <1>5, <1>9 DEF InHand
  <2>2. Present(s)' = Present(s)
    BY <1>7 DEF Present
  <2>. QED BY <1>2, <1>5, <1>6, <1>7, <1>8, <1>9, <1>12, <2>1, <2>2 DEF Intact
<1>14. AtWork(r)'
  BY <1>5, <1>6, <1>7, <1>8, <1>9, <1>13 DEF AtWork, Swept, Where
<1>15. /\ \A q \in Places : rows'[q] # None => spot'[rows'[q]] = q
       /\ \A u \in aside' : spot'[u] \in Sessions
       /\ \A u \in Tracks : spot[u] = "incoming" => spot'[u] = "incoming"
       /\ stale' \subseteq stale
  BY <1>1, <1>7 DEF DiskPart, DiskSound
<1>16. requests'[r].phase \in Working \cap PhasesOf[requests[r].op]
       /\ requests'[r].phase \notin {"move", "index", "undo"}
  BY <1>6, <1>9 DEF Working, PhasesOf
<1>. QED BY <1>2, <1>3, <1>4, <1>5, <1>7, <1>8, <1>9, <1>10, <1>11, <1>12, <1>14, <1>15, <1>16,
            AfterGoOn

-----------------------------------------------------------------------------
(* The pages. *)

\* A handler that works as before, is done with, or has just been asked for.
Quiet(q) ==
  \/ SameWork(q)
  \/ requests[q].phase \in Answers /\ requests'[q] = Idle
  \/ /\ requests[q] = Idle
     /\ requests'[q].phase \in {"queued", "received"}
     /\ \/ requests'[q].session = None
        \/ \E c \in Pages : pages[c].session = requests'[q].session

\* A step of a page, or of a handler as it was, touches no session.
LEMMA DiskUntouched ==
  ASSUME Inv, UNCHANGED <<aside, rows, sessions, stale, hurt>>,
         \A z \in Sessions : Spares(z), PlacesSpared, Received',
         \A q \in Requests : Quiet(q),
         \A c \in Pages, z \in Sessions : pages'[c].session = z =>
           \/ pages[c].session = z
           \/ \E q \in Requests : requests[q].phase \in Answers /\ requests[q].session = z
  PROVE  DiskPart'
<1>1. TypeOK /\ DiskPart
  BY DEF Inv
<1>2. Idle.session = None /\ Idle.phase = "idle" /\ Idle.op = "none"
  BY DEF Idle
<1>3. DiskSound'
  <2>1. \A p \in Places : rows'[p] # None => spot'[rows'[p]] = p
    <3> SUFFICES ASSUME NEW p \in Places, rows[p] # None PROVE spot'[rows[p]] = p
      OBVIOUS
    <3>1. rows[p] \in Tracks /\ spot[rows[p]] = p
      BY <1>1 DEF TypeOK, DiskPart, DiskSound
    <3>. QED BY <3>1 DEF PlacesSpared
  <2>2. \A t \in aside' : spot'[t] \in Sessions
    BY <1>1 DEF TypeOK, DiskPart, DiskSound, Spares
  <2>3. /\ \A z \in Sessions : sessions'[z].dir \in {"new", "absent"} => \A t \in Tracks : spot'[t] # z
        /\ \A z \in stale' : sessions'[z].dir # "new"
    BY <1>1 DEF DiskPart, DiskSound, Spares
  <2>. QED BY <2>1, <2>2, <2>3 DEF DiskSound
<1>4. \A q \in Requests, z \in Sessions : requests'[q].session = z =>
        requests[q].session = z \/ \E c \in Pages : pages[c].session = z
  BY <1>2, SpotsApart DEF Quiet, SameWork
<1>5. Known'
  BY <1>1, <1>4 DEF Known, DiskPart
<1>6. Moved'
  <2> SUFFICES ASSUME NEW q \in Requests, Creates(q, "moved")' PROVE Unpublished(q)'
    BY DEF Moved
  <2>1. SameWork(q) /\ Creates(q, "moved")
    BY <1>2 DEF Quiet, Creates, SameWork
  <2>2. PICK z \in Sessions : z = requests[q].session
    BY <2>1 DEF Inv, Shaped, Creates
  <2>3. Unpublished(q) /\ requests'[q].session = z /\ requests'[q].batch = requests[q].batch
    BY <1>1, <2>1, <2>2 DEF DiskPart, Moved, SameWork
  <2>4. Spares(z) /\ Held(z)' = Held(z)
    BY DEF Spares, Held
  <2>5. \A c \in Pages : pages[c].session # z
    BY <2>2, <2>3 DEF Unpublished
  <2>6. \A o \in Requests \ {q} : requests'[o].session # z
    BY <1>4, <2>2, <2>3, <2>5 DEF Unpublished
  <2>7. ASSUME NEW c \in Pages PROVE pages'[c].session # z
    <3>1. requests[q].phase \notin Answers
      BY <2>1 DEF Creates, Answers
    <3>. QED BY <2>2, <2>3, <2>5, <3>1 DEF Unpublished
  <2>. QED BY <2>2, <2>3, <2>4, <2>6, <2>7 DEF Unpublished
<1>7. ManifestSound'
  <2>1. ASSUME NEW z \in Sessions PROVE SoundAt(z)'
    <3>1. Spares(z) /\ RowsGrow /\ SoundAt(z)
      BY <1>1, SoundEverywhere DEF DiskPart, RowsGrow
    <3>. QED BY <1>1, <3>1, SoundSpared DEF SoundAt
  <2>. QED BY <2>1, SoundEverywhere
<1>8. Works'
  <2> SUFFICES ASSUME NEW q \in Requests, requests'[q].phase \in Working PROVE AtWork(q)'
    BY DEF Works
  <2>1. SameWork(q) /\ requests[q].phase \in Working
    BY <1>2 DEF Quiet, SameWork, Working
  <2>2. requests[q].session \in Sessions /\ Shaped(requests[q])
    BY <1>1, <2>1, About DEF Inv
  <2>3. AtWork(q) /\ Spares(requests[q].session) /\ RowsGrow
    BY <1>1, <2>1, <2>2 DEF DiskPart, Works, RowsGrow
  <2>. QED BY <1>1, <2>1, <2>2, <2>3, AtWorkSpared
<1>9. Rested'
  <2>1. ASSUME NEW z \in Sessions PROVE RestedAt(z)'
    <3>1. Spares(z) /\ RestedAt(z) /\ Present(z)' = Present(z)
      BY <1>1, RestedEverywhere, PresentSpared DEF DiskPart
    <3>2. ASSUME NEW q \in Requests, requests[q].session = z, requests[q].phase \in Working
          PROVE  requests'[q].session = z /\ requests'[q].phase \in Working
      BY <1>2, <3>2 DEF Quiet, SameWork, Working, Answers
    <3>. QED BY <3>1, <3>2 DEF RestedAt
  <2>. QED BY <2>1, RestedEverywhere
<1>. QED BY <1>3, <1>5, <1>6, <1>7, <1>8, <1>9 DEF DiskPart

\* Handlers that stay, end or have been asked for have a shape; uploads stay.
LEMMA ShapedSame ==
  ASSUME \A q \in Requests : Shaped(requests[q]),
         \A q \in Requests : SameWork(q) \/ Shaped(requests'[q])
  PROVE  \A q \in Requests : Shaped(requests'[q])
  BY DEF SameWork, Shaped

\* Uploads keep their files when nothing moves.
LEMMA ReceivedSame ==
  ASSUME Inv, UNCHANGED spot,
         \A q \in Requests : SameWork(q) \/ requests'[q].phase # "received"
  PROVE  Received'
<1>1. \A q \in Requests : Creates(q, "received")' =>
        Creates(q, "received") /\ requests'[q].batch = requests[q].batch
  BY DEF Creates, SameWork
<1>2. Received
  BY DEF Inv, DiskPart
<1>. QED BY <1>1, <1>2 DEF Received

\* An answer that is lost, a handler that goes on for nobody.
LEMMA UnheardQuiet ==
  ASSUME Inv, NEW q \in Requests, requests'[q] = Unheard(requests[q])
  PROVE  /\ Quiet(q) /\ SameTurn(q)
         /\ SameWork(q) \/ requests'[q] = Idle
         /\ requests'[q].page = None
         /\ requests'[q].phase \notin Answers
<1>1. requests[q] \in Request
  BY DEF Inv, TypeOK
<1>2. CASE requests[q].phase \in Answers
  <2>1. requests'[q] = Idle
    BY <1>2 DEF Unheard
  <2>. QED BY <1>2, <2>1 DEF Quiet, SameTurn, Idle, Working, Answers
<1>3. CASE requests[q].phase \notin Answers
  <2>1. requests'[q] = [requests[q] EXCEPT !.page = None]
    BY <1>3 DEF Unheard
  <2>2. SameWork(q) /\ requests'[q].page = None
    BY <1>1, <2>1 DEF SameWork, Request
  <2>. QED BY <1>3, <2>2 DEF Quiet, SameTurn, SameWork
<1>. QED BY <1>2, <1>3

\* A handler that does not change.
LEMMA SameQuiet ==
  ASSUME NEW q \in Requests, requests'[q] = requests[q]
  PROVE  Quiet(q) /\ SameTurn(q) /\ SameWork(q)
  BY DEF Quiet, SameTurn, SameWork

\* A step that leaves disk and history alone spares all.
LEMMA DiskSpared ==
  ASSUME UNCHANGED <<disk, hurt>>
  PROVE  /\ \A z \in Sessions : Spares(z)
         /\ PlacesSpared
         /\ UNCHANGED <<spot, aside, rows, sessions, stale, hurt>>
  BY DEF disk, Spares, PlacesSpared

\* A page that stops waiting keeps the invariant.
LEMMA LoseAnswerInv ==
  ASSUME Inv, NEW c \in Pages, LoseAnswer(c)
  PROVE  Inv'
<1>1. TypeOK /\ Paged /\ SessionTurns /\ LibraryTurns /\ (\A q \in Requests : Shaped(requests[q]))
  BY DEF Inv
<1>2. /\ pages[c].request \in Requests
      /\ \A q \in Requests : requests'[q] = IF q = pages[c].request THEN Unheard(requests[q])
                                            ELSE requests[q]
      /\ \A d \in Pages : /\ pages'[d].pending = pages[d].pending
                          /\ pages'[d].session = pages[d].session
      /\ \A d \in Pages \ {c} : pages'[d] = pages[d]
  BY <1>1, Lost
<1>3. TypeOK'
  BY <1>1, LoseTypes
<1>4. UNCHANGED <<disk, queue, edits, faults, hurt>>
  BY DEF LoseAnswer
<1>5. \A q \in Requests : /\ Quiet(q) /\ SameTurn(q)
                          /\ SameWork(q) \/ requests'[q] = Idle
  BY <1>2, UnheardQuiet, SameQuiet
<1>6. \A q \in Requests : Shaped(requests'[q])
  BY <1>1, <1>5, ShapedSame, IdleShaped
<1>7. SessionTurns' /\ LibraryTurns'
  BY <1>1, <1>4, <1>5, TurnsUntouched
<1>8. Received'
  BY <1>4, <1>5, DiskSpared, ReceivedSame DEF Idle
<1>9. DiskPart'
  BY <1>2, <1>4, <1>5, <1>8, DiskSpared, DiskUntouched
<1>10. Paged'
  <2>1. ASSUME NEW q \in Requests
        PROVE  /\ requests'[q].page # None => pages'[requests'[q].page].request = q
               /\ requests'[q].page # None /\ requests'[q].op = "tags" =>
                    requests'[q].track \in pages'[requests'[q].page].pending
               /\ requests'[q].op = "tags" /\ requests'[q].phase \in Answers =>
                    requests'[q].ready \subseteq {requests'[q].track}
               /\ requests'[q].op = "create" /\ requests'[q].phase \in Answers =>
                    requests'[q].ready \subseteq requests'[q].batch
    <3>1. CASE q = pages[c].request
      BY <1>2, <3>1, UnheardQuiet
    <3>2. CASE q # pages[c].request
      <4>1. requests'[q] = requests[q] /\ requests[q].page \in Pages \cup {None}
        BY <1>1, <1>2, <3>2 DEF TypeOK, Request
      <4>2. requests[q].page # c
        BY <1>1, <3>2, SpotsApart DEF Paged
      <4>3. requests[q].page # None => pages'[requests[q].page] = pages[requests[q].page]
        BY <1>2, <4>1, <4>2
      <4>. QED BY <1>1, <4>1, <4>3 DEF Paged
    <3>. QED BY <3>1, <3>2
  <2>. QED BY <2>1 DEF Paged
<1>. QED BY <1>3, <1>6, <1>7, <1>9, <1>10 DEF Inv

\* So does a page that is loaded again ...
LEMMA PageReloadInv ==
  ASSUME Inv, NEW c \in Pages, PageReload(c)
  PROVE  Inv'
<1>1. TypeOK /\ Paged /\ SessionTurns /\ LibraryTurns /\ (\A q \in Requests : Shaped(requests[q]))
  BY DEF Inv
<1>2. /\ \A q \in Requests : requests'[q] = IF requests[q].page = c THEN Unheard(requests[q])
                                            ELSE requests[q]
      /\ pages'[c] = FreshPage
      /\ \A d \in Pages \ {c} : pages'[d] = pages[d]
  BY <1>1, Reloaded
<1>3. TypeOK'
  BY <1>1, ReloadTypes
<1>4. UNCHANGED <<disk, queue, edits, faults, hurt>>
  BY DEF PageReload
<1>5. \A q \in Requests : /\ Quiet(q) /\ SameTurn(q)
                          /\ SameWork(q) \/ requests'[q] = Idle
  BY <1>2, UnheardQuiet, SameQuiet
<1>6. \A q \in Requests : Shaped(requests'[q])
  BY <1>1, <1>5, ShapedSame, IdleShaped
<1>7. SessionTurns' /\ LibraryTurns'
  BY <1>1, <1>4, <1>5, TurnsUntouched
<1>8. Received'
  BY <1>4, <1>5, DiskSpared, ReceivedSame DEF Idle
<1>9. DiskPart'
  <2>1. \A d \in Pages, z \in Sessions : pages'[d].session = z => pages[d].session = z
    BY <1>2, SpotsApart DEF FreshPage
  <2>. QED BY <1>4, <1>5, <1>8, <2>1, DiskSpared, DiskUntouched
<1>10. Paged'
  <2>1. ASSUME NEW q \in Requests
        PROVE  /\ requests'[q].page # None => pages'[requests'[q].page].request = q
               /\ requests'[q].page # None /\ requests'[q].op = "tags" =>
                    requests'[q].track \in pages'[requests'[q].page].pending
               /\ requests'[q].op = "tags" /\ requests'[q].phase \in Answers =>
                    requests'[q].ready \subseteq {requests'[q].track}
               /\ requests'[q].op = "create" /\ requests'[q].phase \in Answers =>
                    requests'[q].ready \subseteq requests'[q].batch
    <3>1. CASE requests[q].page = c
      BY <1>2, <3>1, UnheardQuiet
    <3>2. CASE requests[q].page # c
      <4>1. requests'[q] = requests[q] /\ requests[q].page \in Pages \cup {None}
        BY <1>1, <1>2, <3>2 DEF TypeOK, Request
      <4>3. requests[q].page # None => pages'[requests[q].page] = pages[requests[q].page]
        BY <1>2, <3>2, <4>1
      <4>. QED BY <1>1, <4>1, <4>3 DEF Paged
    <3>. QED BY <3>1, <3>2
  <2>. QED BY <2>1 DEF Paged
<1>. QED BY <1>3, <1>6, <1>7, <1>9, <1>10 DEF Inv

\* ... a page that takes an answer ...
LEMMA DeliverInv ==
  ASSUME Inv, NEW r \in Requests, Deliver(r)
  PROVE  Inv'
<1>1. TypeOK /\ Paged /\ SessionTurns /\ LibraryTurns /\ (\A q \in Requests : Shaped(requests[q]))
  BY DEF Inv
<1>2. /\ requests'[r] = Idle
      /\ \A q \in Requests \ {r} : requests'[q] = requests[q]
      /\ \A d \in Pages : pages'[d] = IF d = requests[r].page THEN AfterAnswer(pages[d], r)
                                                              ELSE pages[d]
  BY <1>1, Delivered
<1>3. TypeOK'
  BY <1>1, DeliverTypes
<1>4. UNCHANGED <<disk, queue, edits, faults, hurt>> /\ requests[r].phase \in Answers
  BY DEF Deliver
<1>5. \A q \in Requests : /\ Quiet(q) /\ SameTurn(q)
                          /\ SameWork(q) \/ requests'[q] = Idle
  <2>1. Quiet(r) /\ SameTurn(r)
    BY <1>2, <1>4 DEF Quiet, SameTurn, Idle, Working, Answers
  <2>. QED BY <1>2, <2>1, SameQuiet
<1>6. \A q \in Requests : Shaped(requests'[q])
  BY <1>1, <1>5, ShapedSame, IdleShaped
<1>7. SessionTurns' /\ LibraryTurns'
  BY <1>1, <1>4, <1>5, TurnsUntouched
<1>8. Received'
  BY <1>4, <1>5, DiskSpared, ReceivedSame DEF Idle
<1>9. DiskPart'
  <2>1. ASSUME NEW d \in Pages, NEW z \in Sessions, pages'[d].session = z
        PROVE  pages[d].session = z \/ requests[r].session = z
    <3>1. CASE d = requests[r].page
      <4>1. AfterAnswer(pages[d], r).session \in {pages[d].session, requests[r].session, None}
        <5>1. pages[d] \in Page
          BY <1>1 DEF TypeOK
        <5>. QED BY <5>1 DEF AfterAnswer, FreshPage, Page
      <4>. QED BY <1>2, <2>1, <3>1, <4>1, SpotsApart
    <3>2. CASE d # requests[r].page
      BY <1>2, <2>1, <3>2
    <3>. QED BY <3>1, <3>2
  <2>2. \A d \in Pages, z \in Sessions : pages'[d].session = z =>
           \/ pages[d].session = z
           \/ \E q \in Requests : requests[q].phase \in Answers /\ requests[q].session = z
    BY <1>4, <2>1
  <2>. QED BY <1>4, <1>5, <1>8, <2>2, DiskSpared, DiskUntouched
<1>10. Paged'
  <2>1. ASSUME NEW q \in Requests
        PROVE  /\ requests'[q].page # None => pages'[requests'[q].page].request = q
               /\ requests'[q].page # None /\ requests'[q].op = "tags" =>
                    requests'[q].track \in pages'[requests'[q].page].pending
               /\ requests'[q].op = "tags" /\ requests'[q].phase \in Answers =>
                    requests'[q].ready \subseteq {requests'[q].track}
               /\ requests'[q].op = "create" /\ requests'[q].phase \in Answers =>
                    requests'[q].ready \subseteq requests'[q].batch
    <3>1. CASE q = r
      BY <1>2, <3>1 DEF Idle
    <3>2. CASE q # r
      <4>1. requests'[q] = requests[q] /\ requests[q].page \in Pages \cup {None}
        BY <1>1, <1>2, <3>2 DEF TypeOK, Request
      <4>2. requests[q].page # None => requests[q].page # requests[r].page
        BY <1>1, <3>2 DEF Paged
      <4>3. requests[q].page # None => pages'[requests[q].page] = pages[requests[q].page]
        BY <1>2, <4>1, <4>2
      <4>. QED BY <1>1, <4>1, <4>3 DEF Paged
    <3>. QED BY <3>1, <3>2
  <2>. QED BY <2>1 DEF Paged
<1>. QED BY <1>3, <1>6, <1>7, <1>9, <1>10 DEF Inv

\* A request is sent: it knows its page, and its page it.
LEMMA SentPaged ==
  ASSUME Inv, NEW c \in Pages, NEW r \in Requests, NEW q \in Request, Send(c, r, q),
         pages[c].request = None, q.phase \notin Answers,
         q.op = "tags" => q.track \in pages[c].pending
  PROVE  Paged'
<1>1. TypeOK /\ Paged
  BY DEF Inv
<1>2. /\ \A i \in Requests \ {r} : requests'[i] = requests[i]
      /\ requests'[r] = [q EXCEPT !.page = c]
      /\ pages' = [pages EXCEPT ![c].request = r]
      /\ \A d \in Pages : pages'[d].pending = pages[d].pending
  BY <1>1, Sent
<1>3. /\ pages'[c].request = r
      /\ \A d \in Pages \ {c} : pages'[d] = pages[d]
  BY <1>1, <1>2 DEF TypeOK, Page
<1>4. /\ requests'[r].page = c /\ requests'[r].op = q.op /\ requests'[r].track = q.track
      /\ requests'[r].phase = q.phase
  BY <1>2 DEF Request
<1>5. ASSUME NEW i \in Requests
      PROVE  /\ requests'[i].page # None => pages'[requests'[i].page].request = i
             /\ requests'[i].page # None /\ requests'[i].op = "tags" =>
                  requests'[i].track \in pages'[requests'[i].page].pending
             /\ requests'[i].op = "tags" /\ requests'[i].phase \in Answers =>
                  requests'[i].ready \subseteq {requests'[i].track}
             /\ requests'[i].op = "create" /\ requests'[i].phase \in Answers =>
                  requests'[i].ready \subseteq requests'[i].batch
  <2>1. CASE i = r
    BY <1>2, <1>3, <1>4, <2>1
  <2>2. CASE i # r
    <3>1. requests'[i] = requests[i] /\ requests[i].page \in Pages \cup {None}
      BY <1>1, <1>2, <2>2 DEF TypeOK, Request
    <3>2. requests[i].page # c
      BY <1>1, SpotsApart DEF Paged
    <3>3. requests[i].page # None => pages'[requests[i].page] = pages[requests[i].page]
      BY <1>3, <3>1, <3>2
    <3>. QED BY <1>1, <3>1, <3>3 DEF Paged
  <2>. QED BY <2>1, <2>2
<1>. QED BY <1>5 DEF Paged

\* A request takes its place in the queue of its session.
LEMMA TurnsAfterAsk ==
  ASSUME Inv, NEW r \in Requests, requests[r] = Idle, NEW s \in Sessions,
         queue' = [queue EXCEPT ![s] = Append(@, r)], UNCHANGED edits,
         \A q \in Requests \ {r} : requests'[q] = requests[q],
         requests'[r].phase = "queued", requests'[r].session = s
  PROVE  SessionTurns' /\ LibraryTurns'
<1>1. TypeOK /\ SessionTurns /\ LibraryTurns
  BY DEF Inv
<1>2. requests[r].phase = "idle"
  BY DEF Idle
<1>3. /\ queue'[s] = Append(queue[s], r)
      /\ \A z \in Sessions \ {s} : queue'[z] = queue[z]
      /\ queue[s] \in Seq(Requests) /\ Once(queue[s])
  BY <1>1 DEF TypeOK, SessionTurns
<1>4. \A i \in DOMAIN queue[s] : queue[s][i] # r
  BY <1>1, <1>2 DEF SessionTurns, Working
<1>5. /\ Once(queue'[s])
      /\ \A i \in DOMAIN queue'[s] :
           (i \in DOMAIN queue[s] /\ queue'[s][i] = queue[s][i]) \/ queue'[s][i] = r
      /\ queue[s] # <<>> => Head(queue'[s]) = Head(queue[s])
      /\ queue'[s] # <<>>
  BY <1>3, <1>4, AppendOnce
<1>6. ASSUME NEW z \in Sessions, NEW i \in DOMAIN queue'[z]
      PROVE  requests'[queue'[z][i]].session = z
             /\ requests'[queue'[z][i]].phase \in Working \cup {"queued"}
  <2>1. CASE z = s /\ queue'[z][i] = r
    BY <2>1
  <2>2. CASE ~(z = s /\ queue'[z][i] = r)
    <3>1. i \in DOMAIN queue[z] /\ queue'[z][i] = queue[z][i]
      BY <1>3, <1>5, <1>6, <2>2
    <3>2. /\ requests[queue[z][i]].session = z
          /\ requests[queue[z][i]].phase \in Working \cup {"queued"}
          /\ queue[z][i] \in Requests
      BY <1>1, <3>1 DEF SessionTurns, TypeOK
    <3>3. queue[z][i] # r
      BY <1>2, <3>2 DEF Working
    <3>. QED BY <3>1, <3>2, <3>3
  <2>. QED BY <2>1, <2>2
<1>7. ASSUME NEW q \in Requests, requests'[q].phase \in Working
      PROVE  MyTurn(q)'
  <2>1. q # r /\ requests'[q] = requests[q]
    BY <1>7 DEF Working
  <2>2. MyTurn(q) /\ requests[q].session \in Sessions
    BY <1>1, <1>7, <2>1, About DEF SessionTurns, Inv
  <2>. QED BY <1>3, <1>5, <2>1, <2>2 DEF MyTurn
<1>8. SessionTurns'
  BY <1>3, <1>5, <1>6, <1>7, <1>1 DEF SessionTurns
<1>9. LibraryTurns'
  <2>1. requests[r].phase \notin LibraryWork /\ requests'[r].phase \notin LibraryWork
    BY <1>2 DEF LibraryWork
  <2>. QED BY <1>1, <2>1, LibraryKept
<1>. QED BY <1>8, <1>9

\* ... a page that asks ...
LEMMA AskInv ==
  ASSUME Inv, NEW c \in Pages, NEW r \in Requests,
         NEW op \in {"tags", "commit", "cancel"}, NEW t \in Tracks \cup {None},
         NEW p \in Places \cup {None}, Ask(c, r, op, t, p),
         pages[c].request = None,
         op \in {"tags", "commit"} => t \in Tracks,
         op = "tags" => t \in pages[c].pending
  PROVE  Inv'
<1>0. TypeOK
  BY DEF Inv
<1>1. TypeOK /\ Paged /\ (\A q \in Requests : Shaped(requests[q]))
  BY DEF Inv
<1>2. TypeOK'
  BY <1>1, AskTypes
<1>3. PICK s \in Sessions : pages[c].session = s
  <2>1. pages[c].session \in Sessions
    BY <1>1, Asked
  <2>. QED BY <2>1
<1>4. /\ Question(c, op, t, p) \in Request
      /\ Send(c, r, Question(c, op, t, p))
      /\ queue' = [queue EXCEPT ![s] = Append(@, r)]
      /\ UNCHANGED <<disk, edits, faults, hurt>>
  <2>1. /\ Question(c, op, t, p) \in Request
        /\ Send(c, r, Question(c, op, t, p))
        /\ UNCHANGED <<disk, edits, faults, hurt>>
    BY <1>0, Asked
  <2>2. queue' = [queue EXCEPT ![pages[c].session] = Append(@, r)]
    BY DEF Ask
  <2>. QED BY <1>3, <2>1, <2>2
<1>5. /\ Question(c, op, t, p).op = op /\ Question(c, op, t, p).phase = "queued"
      /\ Question(c, op, t, p).session = s /\ Question(c, op, t, p).track = t
  BY <1>3 DEF Question, Idle
<1>6. PICK q \in Request : /\ Send(c, r, q)
                           /\ q.op = op /\ q.phase = "queued" /\ q.session = s /\ q.track = t
  BY <1>4, <1>5
<1>7. /\ requests[r] = Idle
      /\ \A i \in Requests \ {r} : requests'[i] = requests[i]
      /\ requests'[r] = [q EXCEPT !.page = c]
      /\ \A d \in Pages : pages'[d].session = pages[d].session
  BY <1>1, <1>6, Sent
<1>8. /\ requests'[r].op = op /\ requests'[r].phase = "queued" /\ requests'[r].session = s
      /\ requests'[r].track = t
  BY <1>6, <1>7 DEF Request
<1>9. SessionTurns' /\ LibraryTurns'
  BY <1>4, <1>7, <1>8, TurnsAfterAsk
<1>10. \A i \in Requests : Quiet(i) /\ (SameWork(i) \/ i = r)
  <2>1. Quiet(r)
    BY <1>3, <1>7, <1>8 DEF Quiet
  <2>. QED BY <1>7, <2>1, SameQuiet
<1>11. \A i \in Requests : Shaped(requests'[i])
  <2>2. Shaped(requests'[r])
    BY <1>8 DEF Shaped, PhasesOf
  <2>. QED BY <1>1, <1>10, <2>2, ShapedSame
<1>12. Received'
  BY <1>4, <1>8, <1>10, DiskSpared, ReceivedSame
<1>13. DiskPart'
  BY <1>4, <1>7, <1>10, <1>12, DiskSpared, DiskUntouched
<1>14. Paged'
  BY <1>6, SentPaged DEF Answers
<1>. QED BY <1>2, <1>9, <1>11, <1>13, <1>14 DEF Inv

\* A page that is not busy waits for nothing.
LEMMA AsksInv ==
  ASSUME Inv, NEW c \in Pages, NEW r \in Requests,
         \/ PageCancel(c, r)
         \/ \E t \in Tracks : PageCommit(c, r, t)
         \/ \E t \in Tracks, p \in Places \cup {None} : PageSaveTags(c, r, t, p)
  PROVE  Inv'
<1>1. CASE PageCancel(c, r)
  BY <1>1, AskInv DEF PageCancel, Busy
<1>2. CASE \E t \in Tracks : PageCommit(c, r, t)
  BY <1>2, AskInv DEF PageCommit
<1>3. CASE \E t \in Tracks, p \in Places \cup {None} : PageSaveTags(c, r, t, p)
  BY <1>3, AskInv DEF PageSaveTags, Busy
<1>. QED BY <1>1, <1>2, <1>3

\* ... chooses what to import ...
LEMMA PageImportInv ==
  ASSUME Inv, NEW c \in Pages, NEW T \in SUBSET Tracks, PageImport(c, T)
  PROVE  Inv'
<1>1. TypeOK /\ Paged /\ SessionTurns /\ LibraryTurns /\ (\A q \in Requests : Shaped(requests[q]))
  BY DEF Inv
<1>2. TypeOK'
  BY <1>1, ImportTypes
<1>3. /\ pages' = [pages EXCEPT ![c].batch = T]
      /\ UNCHANGED <<disk, requests, queue, edits, faults, hurt>>
  BY DEF PageImport
<1>4. \A d \in Pages : /\ pages'[d].session = pages[d].session
                       /\ pages'[d].request = pages[d].request
                       /\ pages'[d].pending = pages[d].pending
  BY <1>1, <1>3 DEF TypeOK, Page
<1>5. \A q \in Requests : Quiet(q) /\ SameTurn(q) /\ SameWork(q)
  BY <1>3, SameQuiet
<1>6. SessionTurns' /\ LibraryTurns'
  BY <1>1, <1>3, <1>5, TurnsUntouched
<1>7. Received'
  BY <1>3, <1>5, DiskSpared, ReceivedSame
<1>8. DiskPart'
  BY <1>3, <1>4, <1>5, <1>7, DiskSpared, DiskUntouched
<1>9. Paged'
  <2>1. \A q \in Requests : requests[q].page \in Pages \cup {None}
    BY <1>1 DEF TypeOK, Request
  <2>. QED BY <1>1, <1>3, <1>4, <2>1 DEF Paged
<1>. QED BY <1>1, <1>2, <1>3, <1>6, <1>8, <1>9 DEF Inv

\* ... or uploads: the files were nobody else's.
LEMMA PageUploadInv ==
  ASSUME Inv, NEW c \in Pages, NEW r \in Requests, NEW T \in SUBSET Tracks, PageUpload(c, r, T)
  PROVE  Inv'
<1>1. TypeOK /\ Paged /\ SessionTurns /\ LibraryTurns /\ (\A q \in Requests : Shaped(requests[q]))
      /\ DiskPart
  BY DEF Inv
<1>2. TypeOK'
  BY <1>1, UploadTypes
<1>3. /\ pages[c].request = None
      /\ \A t \in T : spot[t] = "outside"
      /\ spot' = [t \in Tracks |-> IF t \in T THEN "incoming" ELSE spot[t]]
      /\ UNCHANGED <<aside, tags, rows, sessions, stale, queue, edits, faults, hurt>>
  BY DEF PageUpload, Busy
<1>4. PICK q \in Request : /\ Send(c, r, q)
                           /\ q.op = "create" /\ q.phase = "received" /\ q.session = None
                           /\ q.batch = T
  <2>. DEFINE q == [Idle EXCEPT !.op = "create", !.phase = "received", !.batch = T]
  <2>1. q \in Request
    BY IdleTyped DEF Request, Phases
  <2>2. q.op = "create" /\ q.phase = "received" /\ q.session = None /\ q.batch = T
    BY DEF Idle
  <2>3. Send(c, r, q)
    BY DEF PageUpload
  <2>. HIDE DEF q
  <2>. QED BY <2>1, <2>2, <2>3
<1>5. /\ requests[r] = Idle
      /\ \A i \in Requests \ {r} : requests'[i] = requests[i]
      /\ requests'[r] = [q EXCEPT !.page = c]
      /\ \A d \in Pages : pages'[d].session = pages[d].session
  BY <1>1, <1>4, Sent
<1>6. /\ requests'[r].op = "create" /\ requests'[r].phase = "received"
      /\ requests'[r].session = None /\ requests'[r].batch = T
  BY <1>4, <1>5 DEF Request
<1>7. /\ \A i \in Requests : Quiet(i) /\ SameTurn(i)
      /\ \A i \in Requests \ {r} : SameWork(i)
  <2>1. Quiet(r) /\ SameTurn(r)
    BY <1>5, <1>6 DEF Quiet, SameTurn, Idle, Working
  <2>. QED BY <1>5, <2>1, SameQuiet
<1>8. SessionTurns' /\ LibraryTurns'
  BY <1>1, <1>3, <1>7, TurnsUntouched
<1>9. \A i \in Requests : Shaped(requests'[i])
  <2>1. Shaped(requests'[r])
    BY <1>6 DEF Shaped, PhasesOf
  <2>. QED BY <1>1, <1>7, <2>1, ShapedSame
<1>10. (\A z \in Sessions : Spares(z)) /\ PlacesSpared
  BY <1>3, SpotsApart DEF Spares, PlacesSpared
<1>11. Received'
  <2>1. \A i \in Requests \ {r} : Creates(i, "received")' =>
          /\ Creates(i, "received") /\ requests'[i].batch = requests[i].batch
          /\ \A t \in requests[i].batch : spot[t] = "incoming"
    BY <1>1, <1>5 DEF Creates, Received, DiskPart
  <2>2. \A i \in Requests : requests[i].batch \subseteq Tracks
    BY <1>1 DEF TypeOK, Request
  <2>3. ASSUME NEW i \in Requests, Creates(i, "received")'
        PROVE  \A t \in requests'[i].batch : spot'[t] = "incoming"
    <3>1. CASE i = r
      BY <1>3, <1>6, <3>1
    <3>2. CASE i # r
      BY <1>3, <2>1, <2>2, <2>3, <3>2
    <3>. QED BY <3>1, <3>2
  <2>4. ASSUME NEW i \in Requests, NEW j \in Requests, Creates(i, "received")',
               Creates(j, "received")', i # j
        PROVE  requests'[i].batch \cap requests'[j].batch = {}
    <3>1. CASE i # r /\ j # r
      BY <1>1, <2>1, <2>4, <3>1 DEF Received, DiskPart
    <3>2. CASE i = r
      BY <1>3, <1>6, <2>1, <2>4, <3>2
    <3>3. CASE j = r
      BY <1>3, <1>6, <2>1, <2>4, <3>3
    <3>. QED BY <3>1, <3>2, <3>3
  <2>. QED BY <2>3, <2>4 DEF Received
<1>12. DiskPart'
  BY <1>3, <1>5, <1>7, <1>10, <1>11, DiskUntouched
<1>13. Paged'
  BY <1>3, <1>4, SentPaged DEF Answers
<1>. QED BY <1>2, <1>8, <1>9, <1>12, <1>13 DEF Inv

-----------------------------------------------------------------------------
(* Handlers that create a session. *)

\* Such a handler has the sessions S, at most the one it creates, for itself.
CreateStep(r, S) ==
  /\ requests[r].op = "create" /\ requests[r].phase \in {"received", "moved"}
  /\ \A q \in Requests \ {r} : requests'[q] = requests[q] /\ requests[q].session \notin S
  /\ requests'[r].phase \notin Working \cup {"queued", "received"}
  /\ requests'[r].session \in S \cup {None}
  /\ UNCHANGED <<aside, rows, queue, edits, pages, hurt>>
  /\ stale' = stale /\ S \cap stale = {}
  /\ \A t \in Tracks \ requests[r].batch : spot'[t] = spot[t]
  /\ \A t \in requests[r].batch : t \notin aside
  /\ \A z \in Sessions \ S : Spares(z)
  /\ PlacesSpared
  /\ \A z \in S : /\ sessions'[z].dir # "new"
                  /\ SoundAt(z)' /\ RestedAt(z)'
                  /\ sessions'[z].dir = "absent" => \A t \in Tracks : spot'[t] # z

\* What is left to show of a handler that creates a session.
LEMMA AfterCreate ==
  ASSUME Inv, TypeOK', NEW r \in Requests, NEW S \in SUBSET Sessions, CreateStep(r, S),
         Shaped(requests'[r]), Paged',
         Creates(r, "moved")' => Unpublished(r)',
         Creates(r, "moved") => \A t \in requests[r].batch : spot[t] # "incoming"
  PROVE  Inv'
<1>1. TypeOK /\ (\A q \in Requests : Shaped(requests[q])) /\ SessionTurns /\ LibraryTurns /\ DiskPart
  BY DEF Inv
<1>2. /\ \A q \in Requests \ {r} : requests'[q] = requests[q] /\ requests[q].session \notin S
      /\ \A z \in Sessions \ S : Spares(z)
      /\ UNCHANGED <<aside, rows, queue, edits, pages, hurt, stale>>
      /\ RowsGrow /\ PlacesSpared
  BY DEF CreateStep, RowsGrow
<1>3. SessionTurns' /\ LibraryTurns'
  <2>1. SameTurn(r)
    BY DEF CreateStep, SameTurn, Working
  <2>2. \A q \in Requests : SameTurn(q)
    BY <1>2, <2>1, SameQuiet
  <2>. QED BY <1>1, <1>2, <2>2, TurnsUntouched
<1>4. \A q \in Requests : Shaped(requests'[q])
  BY <1>1, <1>2
<1>5. DiskSound'
  <2>1. \A p \in Places : rows'[p] # None => spot'[rows'[p]] = p
    <3> SUFFICES ASSUME NEW p \in Places, rows[p] # None PROVE spot'[rows[p]] = p
      BY <1>2
    <3>1. rows[p] \in Tracks /\ spot[rows[p]] = p
      BY <1>1 DEF TypeOK, DiskPart, DiskSound
    <3>. QED BY <1>2, <3>1 DEF PlacesSpared
  <2>2. \A t \in aside' : spot'[t] \in Sessions
    BY <1>1, <1>2 DEF TypeOK, DiskPart, DiskSound, CreateStep
  <2>3. ASSUME NEW z \in Sessions, sessions'[z].dir \in {"new", "absent"}, NEW t \in Tracks
        PROVE  spot'[t] # z
    BY <1>1, <1>2, <2>3 DEF DiskPart, DiskSound, Spares, CreateStep
  <2>4. \A z \in stale' : sessions'[z].dir # "new"
    BY <1>1, <1>2 DEF TypeOK, DiskPart, DiskSound, Spares, CreateStep
  <2>. QED BY <2>1, <2>2, <2>3, <2>4 DEF DiskSound
<1>6. Known'
  <2>1. ASSUME NEW z \in Sessions, sessions[z].dir # "new" PROVE sessions'[z].dir # "new"
    BY <1>2, <2>1 DEF Spares, CreateStep
  <2>2. ASSUME NEW q \in Requests, NEW z \in Sessions, requests'[q].session = z
        PROVE  requests[q].session = z \/ z \in S
    BY <1>2, <2>2, SpotsApart DEF CreateStep
  <2>. QED BY <1>1, <1>2, <2>1, <2>2 DEF Known, DiskPart, CreateStep
<1>7. Received'
  <2>1. \A q \in Requests : Creates(q, "received")' =>
          /\ q # r /\ Creates(q, "received") /\ requests'[q].batch = requests[q].batch
          /\ \A t \in requests[q].batch : spot[t] = "incoming"
    BY <1>1, <1>2 DEF Creates, Received, DiskPart, CreateStep
  <2>2. \A q \in Requests : requests[q].batch \subseteq Tracks
    BY <1>1 DEF TypeOK, Request
  <2>3. ASSUME NEW q \in Requests, Creates(q, "received")'
        PROVE  requests[q].batch \cap requests[r].batch = {}
    <3>1. CASE Creates(r, "received")
      BY <1>1, <2>1, <2>3, <3>1 DEF Received, DiskPart
    <3>2. CASE Creates(r, "moved")
      BY <2>1, <2>3, <3>2
    <3>. QED BY <3>1, <3>2 DEF CreateStep, Creates
  <2>4. ASSUME NEW q \in Requests, Creates(q, "received")'
        PROVE  \A t \in requests'[q].batch : spot'[t] = "incoming"
    BY <2>1, <2>2, <2>3, <2>4 DEF CreateStep
  <2>5. \A q, o \in Requests : Creates(q, "received")' /\ Creates(o, "received")' /\ q # o =>
          requests'[q].batch \cap requests'[o].batch = {}
    BY <1>1, <2>1 DEF Received, DiskPart
  <2>. QED BY <2>4, <2>5 DEF Received
<1>8. Moved'
  <2> SUFFICES ASSUME NEW q \in Requests, Creates(q, "moved")' PROVE Unpublished(q)'
    BY DEF Moved
  <2>1. CASE q = r
    BY <2>1
  <2>2. CASE q # r
    <3>1. requests'[q] = requests[q] /\ Creates(q, "moved") /\ Unpublished(q)
      BY <1>1, <1>2, <2>2 DEF Creates, DiskPart, Moved
    <3>2. PICK z \in Sessions : requests[q].session = z
      BY <1>1, <3>1 DEF Shaped, Creates
    <3>3. z \notin S /\ Spares(z) /\ Held(z)' = Held(z)
      BY <1>2, <2>2, <3>2 DEF Spares, Held
    <3>4. \A o \in Requests \ {q} : requests'[o].session # z
      BY <1>2, <3>1, <3>2, <3>3, SpotsApart DEF Unpublished, CreateStep
    <3>. QED BY <1>2, <3>1, <3>2, <3>3, <3>4 DEF Unpublished, Spares
  <2>. QED BY <2>1, <2>2
<1>9. ManifestSound'
  <2>1. ASSUME NEW z \in Sessions PROVE SoundAt(z)'
    <3>1. CASE z \in S
      BY <3>1 DEF CreateStep
    <3>2. CASE z \notin S
      <4>1. Spares(z) /\ RowsGrow /\ SoundAt(z)
        BY <1>1, <1>2, <3>2, SoundEverywhere DEF DiskPart
      <4>. QED BY <1>1, <4>1, SoundSpared DEF SoundAt, Spares
    <3>. QED BY <3>1, <3>2
  <2>. QED BY <2>1, SoundEverywhere
<1>10. Works'
  <2> SUFFICES ASSUME NEW q \in Requests, requests'[q].phase \in Working PROVE AtWork(q)'
    BY DEF Works
  <2>1. q # r /\ requests'[q] = requests[q] /\ SameWork(q) /\ requests[q].phase \in Working
    BY <1>2 DEF CreateStep, SameWork
  <2>2. requests[q].session \in Sessions
    BY <1>1, <2>1, About
  <2>3. AtWork(q) /\ Spares(requests[q].session)
    BY <1>1, <1>2, <2>1, <2>2 DEF DiskPart, Works
  <2>. QED BY <1>1, <1>2, <2>1, <2>3, AtWorkSpared
<1>11. Rested'
  <2>1. ASSUME NEW z \in Sessions PROVE RestedAt(z)'
    <3>1. CASE z \in S
      BY <3>1 DEF CreateStep
    <3>2. CASE z \notin S
      <4>1. Spares(z) /\ RestedAt(z) /\ Present(z)' = Present(z)
        BY <1>1, <1>2, <3>2, RestedEverywhere, PresentSpared DEF DiskPart
      <4>2. \A q \in Requests : requests[q].phase \in Working => requests'[q] = requests[q]
        BY <1>2 DEF CreateStep, Working
      <4>. QED BY <4>1, <4>2 DEF RestedAt, Spares
    <3>. QED BY <3>1, <3>2
  <2>. QED BY <2>1, RestedEverywhere
<1>. QED BY <1>3, <1>4, <1>5, <1>6, <1>7, <1>8, <1>9, <1>10, <1>11 DEF Inv, DiskPart

\* The files are moved into a session nobody knows yet.
LEMMA MoveIntoSessionInv ==
  ASSUME Inv, NEW r \in Requests, NEW s \in Sessions, MoveIntoSession(r, s)
  PROVE  Inv'
<1>1. TypeOK /\ Paged /\ Shaped(requests[r]) /\ DiskPart
  BY DEF Inv
<1>2. /\ TypeOK'
      /\ \A q \in Requests \ {r} : requests'[q] = requests[q]
      /\ requests'[r] = [requests[r] EXCEPT !.phase = "moved", !.session = s]
  BY <1>1, MoveIntoSessionTypes
<1>3. /\ Creates(r, "received") /\ requests[r].op = "create" /\ requests[r].phase = "received"
      /\ sessions[s].dir = "new"
      /\ UNCHANGED <<aside, tags, rows, stale, queue, edits, pages, faults, hurt>>
      /\ \A t \in Tracks : spot'[t] = IF t \in requests[r].batch THEN s ELSE spot[t]
  BY DEF MoveIntoSession, Creates
<1>4. /\ requests'[r].phase = "moved" /\ requests'[r].session = s
      /\ requests'[r].op = requests[r].op /\ requests'[r].page = requests[r].page
      /\ requests'[r].batch = requests[r].batch
  BY <1>1, <1>2 DEF TypeOK, Request
<1>5. /\ \A t \in requests[r].batch : spot[t] = "incoming" /\ t \notin aside
      /\ requests[r].batch \subseteq Tracks
  BY <1>1, <1>3, SpotsApart DEF TypeOK, Request, DiskPart, DiskSound, Received
<1>6. /\ sessions'[s].dir = "unlisted"
      /\ \A z \in Sessions \ {s} : sessions'[z] = sessions[z]
  BY <1>1 DEF MoveIntoSession, TypeOK, Directory
<1>7. /\ \A q \in Requests : requests[q].session # s
      /\ \A c \in Pages : pages[c].session # s
      /\ s \notin stale
      /\ \A t \in Tracks : spot[t] # s
  BY <1>1, <1>3 DEF DiskPart, DiskSound, Known
<1>8. \A z \in Sessions \ {s} : Spares(z)
  BY <1>3, <1>5, <1>6, SpotsApart DEF Spares
<1>9. PlacesSpared
  BY <1>3, <1>5, SpotsApart DEF PlacesSpared
<1>10. SoundAt(s)' /\ RestedAt(s)'
  BY <1>6 DEF SoundAt, RestedAt
<1>11. CreateStep(r, {s})
  BY <1>2, <1>3, <1>4, <1>5, <1>6, <1>7, <1>8, <1>9, <1>10 DEF CreateStep, Working
<1>12. Unpublished(r)'
  <2>1. Held(s)' = requests[r].batch
    BY <1>3, <1>5, <1>7 DEF Held
  <2>2. \A q \in Requests \ {r} : requests'[q].session # s
    BY <1>2, <1>7
  <2>. QED BY <1>3, <1>4, <1>5, <1>6, <1>7, <2>1, <2>2 DEF Unpublished
<1>13. Shaped(requests'[r])
  BY <1>3, <1>4 DEF Shaped, PhasesOf
<1>14. Paged'
  <2>1. ASSUME NEW q \in Requests
        PROVE  /\ requests'[q].page # None => pages[requests'[q].page].request = q
               /\ requests'[q].page # None /\ requests'[q].op = "tags" =>
                    requests'[q].track \in pages[requests'[q].page].pending
               /\ requests'[q].op = "tags" /\ requests'[q].phase \in Answers =>
                    requests'[q].ready \subseteq {requests'[q].track}
               /\ requests'[q].op = "create" /\ requests'[q].phase \in Answers =>
                    requests'[q].ready \subseteq requests'[q].batch
    <3>1. CASE q = r
      BY <1>1, <1>3, <1>4, <3>1 DEF Paged, Answers
    <3>2. CASE q # r
      BY <1>1, <1>2, <3>2 DEF Paged
    <3>. QED BY <3>1, <3>2
  <2>. QED BY <1>3, <2>1 DEF Paged
<1>15. {s} \in SUBSET Sessions /\ ~Creates(r, "moved")
  BY <1>3 DEF Creates
<1>. QED BY <1>2, <1>11, <1>12, <1>13, <1>14, <1>15, AfterCreate

\* The answer to an upload.
LEMMA CreateEnds ==
  ASSUME Inv, NEW r \in Requests, requests[r].op = "create", UNCHANGED pages,
         NEW answer \in Answers, NEW ready \in SUBSET Tracks, ready \subseteq requests[r].batch,
         Reply(r, answer, ready)
  PROVE  /\ \A q \in Requests \ {r} : requests'[q] = requests[q]
         /\ Shaped(requests'[r]) /\ Paged'
         /\ requests'[r].phase \notin Working \cup {"queued", "received", "moved"}
         /\ requests'[r].session \in {requests[r].session, None}
<1>1. TypeOK /\ Paged /\ \A q \in Requests : Shaped(requests[q])
  BY DEF Inv
<1>2. EndsWith(r, answer, ready)
  BY <1>1, Replied DEF EndsWith
<1>3. /\ \A q \in Requests : Shaped(requests'[q])
      /\ requests'[r].phase \notin Working \cup {"queued", "received", "moved"}
      /\ requests'[r].session \in {requests[r].session, None}
  BY <1>1, <1>2, EndShaped
<1>4. Paged'
  BY <1>1, <1>2, EndPaged
<1>. QED BY <1>2, <1>3, <1>4 DEF EndsWith

\* The first manifest lists what is there.
LEMMA PublishSessionInv ==
  ASSUME Inv, NEW r \in Requests, PublishSession(r)
  PROVE  Inv'
<1>1. TypeOK /\ Shaped(requests[r]) /\ DiskPart
  BY DEF Inv
<1>2. /\ Creates(r, "moved") /\ requests[r].op = "create" /\ requests[r].phase = "moved"
      /\ UNCHANGED <<spot, aside, tags, rows, stale, queue, edits, pages, faults, hurt>>
  BY DEF PublishSession, Creates
<1>3. PICK s \in Sessions : requests[r].session = s
  BY <1>1, <1>2 DEF Shaped
<1>4. PICK T \in SUBSET Tracks : requests[r].batch = T
  BY <1>1 DEF TypeOK, Request
<1>5. TypeOK'
  BY <1>1, PublishTypes
<1>. DEFINE ready == {t \in T : tags[t] # None}
<1>6. Reply(r, "ok", ready) /\ ready \in SUBSET Tracks /\ ready \subseteq T /\ "ok" \in Answers
  BY <1>4 DEF PublishSession, Answers
<1>. HIDE DEF ready
<1>7. /\ \A q \in Requests \ {r} : requests'[q] = requests[q]
      /\ Shaped(requests'[r]) /\ Paged'
      /\ requests'[r].phase \notin Working \cup {"queued", "received", "moved"}
      /\ requests'[r].session \in {s, None}
  BY <1>2, <1>3, <1>4, <1>6, CreateEnds
<1>8. /\ Held(s) = T /\ T \cap aside = {} /\ s \notin stale
      /\ \A q \in Requests \ {r} : requests[q].session # s
  BY <1>1, <1>2, <1>3, <1>4 DEF DiskPart, Moved, Unpublished
<1>9. /\ sessions'[s].dir = "listed" /\ sessions'[s].manifest.pending = T
      /\ sessions'[s].manifest.imported = {}
      /\ \A z \in Sessions \ {s} : sessions'[z] = sessions[z]
  <2>1. sessions' = [sessions EXCEPT ![s] =
                      [dir |-> "listed", manifest |-> [pending |-> T, imported |-> {}]]]
    BY <1>3, <1>4 DEF PublishSession
  <2>. QED BY <1>1, <2>1 DEF TypeOK
<1>10. (\A z \in Sessions \ {s} : Spares(z)) /\ PlacesSpared
  BY <1>2, <1>9 DEF Spares, PlacesSpared
<1>11. SoundAt(s)' /\ RestedAt(s)'
  BY <1>2, <1>8, <1>9 DEF SoundAt, RestedAt, Sound, Present, Held
<1>12. CreateStep(r, {s})
  BY <1>2, <1>4, <1>7, <1>8, <1>9, <1>10, <1>11 DEF CreateStep
<1>13. /\ ~Creates(r, "moved")' /\ {s} \in SUBSET Sessions
       /\ \A t \in requests[r].batch : spot[t] # "incoming"
  BY <1>4, <1>7, <1>8, SpotsApart DEF Creates, Held
<1>. QED BY <1>5, <1>7, <1>12, <1>13, AfterCreate

\* A failed upload takes its files and its directory with it.
LEMMA CreateFailsInv ==
  ASSUME Inv, NEW r \in Requests, CreateFails(r)
  PROVE  Inv'
<1>1. TypeOK /\ Shaped(requests[r]) /\ DiskPart
  BY DEF Inv
<1>2. /\ requests[r].op = "create" /\ requests[r].phase \in {"received", "moved"}
      /\ UNCHANGED <<aside, tags, rows, stale, queue, edits, pages, faults, hurt>>
      /\ \A t \in Tracks : spot'[t] = IF t \in requests[r].batch THEN "gone" ELSE spot[t]
  BY DEF CreateFails
<1>3. TypeOK' /\ requests[r].batch \in SUBSET Tracks
  BY <1>1, CreateFailsTypes DEF TypeOK, Request
<1>4. Reply(r, "refused", {}) /\ {} \in SUBSET Tracks /\ {} \subseteq requests[r].batch
      /\ "refused" \in Answers
  BY DEF CreateFails, Answers
<1>5. /\ \A q \in Requests \ {r} : requests'[q] = requests[q]
      /\ Shaped(requests'[r]) /\ Paged'
      /\ requests'[r].phase \notin Working \cup {"queued", "received", "moved"}
      /\ requests'[r].session \in {requests[r].session, None}
  BY <1>2, <1>4, CreateEnds
<1>6. ~Creates(r, "moved")'
  BY <1>5 DEF Creates
<1>7. CASE requests[r].phase = "received"
  <2>1. requests[r].session = None /\ sessions' = sessions
    BY <1>1, <1>2, <1>7 DEF Shaped, CreateFails
  <2>2. \A t \in requests[r].batch : spot[t] = "incoming" /\ t \notin aside
    BY <1>1, <1>2, <1>3, <1>7, SpotsApart DEF Creates, DiskPart, DiskSound, Received
  <2>3. (\A z \in Sessions : Spares(z)) /\ PlacesSpared
    BY <1>2, <2>1, <2>2, SpotsApart DEF Spares, PlacesSpared
  <2>4. CreateStep(r, {})
    BY <1>2, <1>5, <2>1, <2>2, <2>3 DEF CreateStep
  <2>5. {} \in SUBSET Sessions /\ ~Creates(r, "moved")
    BY <1>7 DEF Creates
  <2>. QED BY <1>3, <1>5, <1>6, <2>4, <2>5, AfterCreate
<1>8. CASE requests[r].phase = "moved"
  <2>1. PICK s \in Sessions : requests[r].session = s
    BY <1>1, <1>8 DEF Shaped
  <2>2. /\ Held(s) = requests[r].batch /\ requests[r].batch \cap aside = {} /\ s \notin stale
        /\ \A q \in Requests \ {r} : requests[q].session # s
    BY <1>1, <1>2, <1>8, <2>1 DEF DiskPart, Moved, Unpublished, Creates
  <2>3. /\ sessions'[s].dir = "absent"
        /\ \A z \in Sessions \ {s} : sessions'[z] = sessions[z]
    <3>1. sessions' = [sessions EXCEPT ![s].dir = "absent"]
      BY <2>1, SpotsApart DEF CreateFails
    <3>. QED BY <1>1, <3>1 DEF TypeOK, Directory
  <2>4. (\A z \in Sessions \ {s} : Spares(z)) /\ PlacesSpared
    BY <1>2, <2>2, <2>3, SpotsApart DEF Spares, PlacesSpared, Held
  <2>5. SoundAt(s)' /\ RestedAt(s)' /\ \A t \in Tracks : spot'[t] # s
    BY <1>2, <2>2, <2>3, SpotsApart DEF SoundAt, RestedAt, Held
  <2>6. CreateStep(r, {s})
    BY <1>2, <1>5, <2>1, <2>2, <2>3, <2>4, <2>5 DEF CreateStep
  <2>7. {s} \in SUBSET Sessions /\ \A t \in requests[r].batch : spot[t] # "incoming"
    BY <2>2, SpotsApart DEF Held
  <2>. QED BY <1>3, <1>5, <1>6, <2>6, <2>7, AfterCreate
<1>. QED BY <1>2, <1>7, <1>8

-----------------------------------------------------------------------------
(* The process. *)

\* After a stop nobody is at work; what was interrupted counts as hurt.
LEMMA RestartInv ==
  ASSUME Inv, NEW old \in SUBSET {s \in Sessions : sessions[s].dir \in {"listed", "unlisted"}},
         Restart(old)
  PROVE  Inv'
<1>1. TypeOK /\ DiskPart
  BY DEF Inv
<1>2. TypeOK'
  BY <1>1, RestartTypes
<1>3. /\ hurt' = hurt \cup {s \in Sessions : Occupied(s)}
      /\ stale' = old
      /\ \A t \in Tracks : spot'[t] = IF spot[t] = "incoming" THEN "gone" ELSE spot[t]
      /\ \A r \in Requests : requests'[r] = Idle
      /\ \A s \in Sessions : queue'[s] = <<>>
      /\ edits' = <<>>
      /\ UNCHANGED <<aside, tags, rows, sessions>>
  BY DEF Restart
<1>4. Idle.phase = "idle" /\ Idle.session = None /\ Idle.page = None /\ Idle.op = "none"
  BY DEF Idle
<1>5. \A r \in Requests : Shaped(requests'[r])
  BY <1>3, IdleShaped
<1>6. SessionTurns' /\ LibraryTurns'
  BY <1>3, <1>4 DEF SessionTurns, LibraryTurns, Once, Working, LibraryWork
<1>7. \A t \in Tracks, z \in Sessions \cup Places : spot'[t] = z <=> spot[t] = z
  BY <1>3, SpotsApart
<1>8. DiskSound'
  <2>1. \A p \in Places : rows'[p] # None => spot'[rows'[p]] = p
    <3> SUFFICES ASSUME NEW p \in Places, rows[p] # None PROVE spot'[rows[p]] = p
      BY <1>3
    <3>1. rows[p] \in Tracks /\ spot[rows[p]] = p
      BY <1>1 DEF TypeOK, DiskPart, DiskSound
    <3>. QED BY <1>7, <3>1
  <2>2. \A t \in aside' : spot'[t] \in Sessions
    BY <1>1, <1>3, <1>7 DEF TypeOK, DiskPart, DiskSound
  <2>3. \A s \in Sessions : sessions'[s].dir \in {"new", "absent"} =>
          \A t \in Tracks : spot'[t] # s
    BY <1>1, <1>3, <1>7 DEF DiskPart, DiskSound
  <2>. QED BY <1>3, <2>1, <2>2, <2>3 DEF DiskSound
<1>9. Known'
  <2>1. \A c \in Pages : pages'[c].session = pages[c].session
    BY <1>1 DEF Restart, TypeOK, Page
  <2>. QED BY <1>1, <1>3, <1>4, <2>1, SpotsApart DEF Known, DiskPart
<1>10. Received' /\ Moved' /\ Works'
  BY <1>3, <1>4 DEF Received, Moved, Works, Creates, Working
<1>11. ManifestSound'
  <2>1. \A s \in Sessions : Held(s)' = Held(s)
    BY <1>7 DEF Held
  <2>2. \A s \in Sessions : SoundAt(s)'
    BY <1>1, <1>3, <2>1, SoundEverywhere DEF DiskPart, SoundAt, Sound
  <2>. QED BY <2>2, SoundEverywhere
<1>12. Rested'
  <2>1. ASSUME NEW s \in Sessions PROVE RestedAt(s)'
    <3>1. s \notin hurt' =>
            s \notin hurt /\ \A r \in Requests : requests[r].session = s => requests[r].phase \notin Working
      BY <1>3, <1>4 DEF Occupied, Working
    <3>2. RestedAt(s)
      BY <1>1, RestedEverywhere DEF DiskPart
    <3>3. Present(s)' = Present(s)
      BY <1>3, <1>7 DEF Present
    <3>. QED BY <1>3, <3>1, <3>2, <3>3 DEF RestedAt
  <2>. QED BY <2>1, RestedEverywhere
<1>13. Paged'
  BY <1>3, <1>4 DEF Paged
<1>. QED BY <1>2, <1>5, <1>6, <1>8, <1>9, <1>10, <1>11, <1>12, <1>13 DEF Inv, DiskPart

\* A sweep may take a session from under a handler that has not touched it.
LEMMA SweepInv ==
  ASSUME Inv, NEW s \in Sessions, Sweep(s)
  PROVE  Inv'
<1>1. TypeOK /\ Paged /\ SessionTurns /\ LibraryTurns /\ (\A q \in Requests : Shaped(requests[q]))
      /\ DiskPart
  BY DEF Inv
<1>2. TypeOK'
  BY <1>1, SweepTypes
<1>3. /\ s \in stale /\ RemoveDirectory(s)
      /\ UNCHANGED <<tags, rows, requests, queue, edits, pages, faults, hurt>>
  BY DEF Sweep
<1>4. /\ sessions'[s] = [dir |-> "absent", manifest |-> Blank]
      /\ \A t \in Tracks : spot'[t] = IF spot[t] = s THEN "gone" ELSE spot[t]
      /\ \A t \in Tracks : spot'[t] # s
      /\ \A z \in Sessions \ {s} : sessions'[z] = sessions[z]
      /\ \A t \in Tracks : spot[t] # s => (t \in aside' <=> t \in aside)
      /\ stale' = stale \ {s}
      /\ PlacesSpared
      /\ \A p \in Places : rows'[p] # None => spot'[rows'[p]] = p
      /\ \A t \in aside' : spot'[t] \in Sessions
      /\ \A t \in Tracks : spot[t] = "incoming" => spot'[t] = "incoming"
  BY <1>1, <1>3, Removed DEF DiskPart
<1>5. \A z \in Sessions \ {s} : Spares(z)
  BY <1>3, <1>4, SpotsApart DEF Spares
<1>6. \A q \in Requests : Quiet(q) /\ SameTurn(q) /\ SameWork(q)
  BY <1>3, SameQuiet
<1>7. SessionTurns' /\ LibraryTurns'
  BY <1>1, <1>3, <1>6, TurnsUntouched
<1>8. sessions'[s].dir = "absent" /\ RowsGrow
  BY <1>3, <1>4 DEF RowsGrow
<1>9. DiskSound'
  <2>1. ASSUME NEW z \in Sessions, sessions'[z].dir \in {"new", "absent"}, NEW t \in Tracks
        PROVE  spot'[t] # z
    <3>1. CASE z = s
      BY <1>4, <3>1
    <3>2. CASE z # s
      BY <1>1, <1>5, <2>1, <3>2 DEF DiskPart, DiskSound, Spares
    <3>. QED BY <3>1, <3>2
  <2>2. ASSUME NEW z \in stale' PROVE sessions'[z].dir # "new"
    <3>1. z \in stale /\ z \in Sessions \ {s}
      BY <1>1, <1>4, <2>2 DEF TypeOK
    <3>. QED BY <1>1, <1>4, <3>1 DEF DiskPart, DiskSound
  <2>. QED BY <1>4, <2>1, <2>2 DEF DiskSound
<1>10. Known'
  BY <1>1, <1>3, <1>4, <1>8 DEF Known, DiskPart
<1>11. Received'
  <2>1. \A q \in Requests : requests[q].batch \subseteq Tracks
    BY <1>1 DEF TypeOK, Request
  <2>. QED BY <1>1, <1>3, <1>4, <2>1 DEF DiskPart, Received, Creates
<1>12. Moved'
  <2> SUFFICES ASSUME NEW q \in Requests, Creates(q, "moved")' PROVE Unpublished(q)'
    BY DEF Moved
  <2>1. Creates(q, "moved") /\ Unpublished(q)
    BY <1>1, <1>3 DEF Creates, DiskPart, Moved
  <2>2. PICK z \in Sessions : requests[q].session = z
    BY <1>1, <2>1 DEF Shaped, Creates
  <2>3. z # s
    BY <1>3, <2>1, <2>2 DEF Unpublished
  <2>4. Spares(z) /\ Held(z)' = Held(z)
    BY <1>5, <2>3 DEF Spares, Held
  <2>5. requests[q].batch \cap aside' = {}
    BY <2>1, <2>2, <2>4 DEF Unpublished, Spares, Held
  <2>. QED BY <1>3, <2>1, <2>2, <2>4, <2>5 DEF Unpublished, Spares
<1>13. ManifestSound'
  <2>1. ASSUME NEW z \in Sessions PROVE SoundAt(z)'
    <3>1. CASE z = s
      BY <1>8, <3>1 DEF SoundAt
    <3>2. CASE z # s
      <4>1. Spares(z) /\ SoundAt(z)
        BY <1>1, <1>5, <3>2, SoundEverywhere DEF DiskPart
      <4>. QED BY <1>1, <1>8, <4>1, SoundSpared DEF SoundAt, Spares
    <3>. QED BY <3>1, <3>2
  <2>. QED BY <2>1, SoundEverywhere
<1>14. Works'
  <2> SUFFICES ASSUME NEW q \in Requests, requests'[q].phase \in Working PROVE AtWork(q)'
    BY DEF Works
  <2>1. requests[q].phase \in Working /\ AtWork(q) /\ SameWork(q)
    BY <1>1, <1>3, <1>6 DEF DiskPart, Works
  <2>2. PICK z \in Sessions : requests[q].session = z
    BY <1>1, <2>1, About
  <2>3. CASE z = s
    <3>1. ~Touched(q) /\ ~Touched(q)'
      BY <1>3, <2>1, <2>2, <2>3 DEF AtWork, Touched
    <3>2. Swept(q)'
      BY <1>3, <1>8, <2>2, <2>3 DEF Swept
    <3>3. Where(q)'
      <4>1. requests[q].phase \notin {"install", "index", "undo", "list"}
            /\ (requests[q].phase = "record" => requests[q].op = "cancel")
        BY <3>1 DEF Touched
      <4>2. CASE requests[q].phase = "move"
        <5>1. requests[q].tag \in Places /\ ~PlaceTaken(requests[q].tag)
          BY <1>1, <2>1, <4>2, About DEF AtWork, Where
        <5>2. ~PlaceTaken(requests[q].tag)'
          BY <1>3, <1>4, <5>1 DEF PlaceTaken, PlacesSpared
        <5>. QED BY <1>3, <4>2, <5>2 DEF Where
      <4>3. CASE requests[q].phase # "move"
        BY <1>3, <4>1, <4>3 DEF Where
      <4>. QED BY <4>2, <4>3
    <3>. QED BY <3>1, <3>2, <3>3 DEF AtWork
  <2>4. CASE z # s
    <3>1. Spares(requests[q].session)
      BY <1>5, <2>2, <2>4
    <3>. QED BY <1>1, <1>4, <1>8, <2>1, <3>1, AtWorkSpared
  <2>. QED BY <2>3, <2>4
<1>15. Rested'
  <2>1. ASSUME NEW z \in Sessions PROVE RestedAt(z)'
    <3>1. CASE z = s
      BY <1>8, <3>1 DEF RestedAt
    <3>2. CASE z # s
      <4>1. Spares(z) /\ RestedAt(z) /\ Present(z)' = Present(z)
        BY <1>1, <1>5, <3>2, RestedEverywhere, PresentSpared DEF DiskPart
      <4>. QED BY <1>3, <4>1 DEF RestedAt, Spares
    <3>. QED BY <3>1, <3>2
  <2>. QED BY <2>1, RestedEverywhere
<1>16. Paged' /\ \A q \in Requests : Shaped(requests'[q])
  BY <1>1, <1>3 DEF Paged
<1>. QED BY <1>2, <1>7, <1>9, <1>10, <1>11, <1>12, <1>13, <1>14, <1>15, <1>16 DEF Inv, DiskPart

-----------------------------------------------------------------------------
(* The invariant and what follows from it. *)

\* The invariant holds at the start,
LEMMA InitInv == ASSUME Init PROVE Inv
<1>1. TypeOK
  BY InitTypes
<1>2. /\ \A r \in Requests : requests[r] = Idle
      /\ \A s \in Sessions : queue[s] = <<>>
      /\ edits = <<>> /\ aside = {} /\ stale = {}
      /\ \A t \in Tracks : spot[t] = "outside"
      /\ \A p \in Places : rows[p] = None
      /\ \A s \in Sessions : sessions[s] = [dir |-> "new", manifest |-> Blank]
      /\ \A c \in Pages : pages[c] = FreshPage
  BY DEF Init
<1>3. /\ Idle.phase = "idle" /\ Idle.session = None /\ Idle.page = None /\ Idle.op = "none"
      /\ FreshPage.session = None
  BY DEF Idle, FreshPage
<1>4. \A r \in Requests : Shaped(requests[r])
  BY <1>2, IdleShaped
<1>5. SessionTurns /\ LibraryTurns
  BY <1>2, <1>3 DEF SessionTurns, LibraryTurns, Once, Working, LibraryWork
<1>6. DiskSound
  BY <1>2, SpotsApart DEF DiskSound
<1>7. Known /\ Received /\ Moved /\ Works
  BY <1>2, <1>3, SpotsApart DEF Known, Received, Moved, Works, Creates, Working
<1>8. ManifestSound /\ Rested
  BY <1>2 DEF ManifestSound, Rested
<1>9. Paged
  BY <1>2, <1>3 DEF Paged
<1>. QED BY <1>1, <1>4, <1>5, <1>6, <1>7, <1>8, <1>9 DEF Inv, DiskPart

\* when nothing happens,
LEMMA StutterInv == ASSUME Inv, UNCHANGED vars PROVE Inv'
<1>1. TypeOK /\ Paged /\ SessionTurns /\ LibraryTurns /\ (\A q \in Requests : Shaped(requests[q]))
  BY DEF Inv
<1>2. UNCHANGED <<spot, aside, tags, rows, sessions, stale, requests, queue, edits, pages, faults, hurt>>
  BY DEF vars, disk
<1>3. \A q \in Requests : Quiet(q) /\ SameTurn(q) /\ SameWork(q)
  BY <1>2, SameQuiet
<1>4. TypeOK'
  BY <1>1, <1>2 DEF TypeOK
<1>5. SessionTurns' /\ LibraryTurns'
  BY <1>1, <1>2, <1>3, TurnsUntouched
<1>6. Received'
  BY <1>2, <1>3, ReceivedSame
<1>7. DiskPart'
  BY <1>2, <1>3, <1>6, DiskSpared, DiskUntouched DEF disk
<1>8. Paged' /\ \A q \in Requests : Shaped(requests'[q])
  BY <1>1, <1>2 DEF Paged
<1>. QED BY <1>4, <1>5, <1>7, <1>8 DEF Inv

\* after every step of a handler,
LEMMA ServeInv ==
  ASSUME Inv, NEW r \in Requests, Serve(r)
  PROVE  Inv'
<1>1. CASE \/ \E s \in Sessions : MoveIntoSession(r, s)
           \/ PublishSession(r) \/ CreateFails(r)
  BY <1>1, MoveIntoSessionInv, PublishSessionInv, CreateFailsInv
<1>2. CASE ReadManifest(r) \/ SetAside(r) \/ InstallTagged(r) \/ CheckImport(r)
  BY <1>2, ReadManifestInv, SetAsideInv, InstallTaggedInv, CheckImportInv
<1>3. CASE MoveIntoLibrary(r) \/ IndexTrack(r) \/ IndexFails(r) \/ SwapManifest(r)
  BY <1>3, MoveIntoLibraryInv, IndexTrackInv, IndexFailsInv, SwapManifestInv
<1>4. CASE RefuseRequest(r) \/ RefuseTags(r) \/ RefuseImport(r) \/ MoveFails(r) \/ UndoFails(r)
  BY <1>4, Refusals
<1>5. CASE \/ InstallTaggedFails(r) \/ UndoMove(r) \/ CloseSession(r) \/ InstallManifest(r)
           \/ RecordFails(r)
  BY <1>5, InstallTaggedFailsInv, UndoMoveInv, CloseSessionInv, InstallManifestInv, RecordFailsInv
<1>6. CASE Deliver(r)
  BY <1>6, DeliverInv
<1>. QED BY <1>1, <1>2, <1>3, <1>4, <1>5, <1>6 DEF Serve

\* after every step of a page,
LEMMA UsePageInv ==
  ASSUME Inv, NEW c \in Pages, UsePage(c)
  PROVE  Inv'
<1>1. CASE \E r \in Requests, T \in SUBSET Tracks : PageUpload(c, r, T)
  BY <1>1, PageUploadInv
<1>2. CASE \E r \in Requests, t \in Tracks :
             \/ \E p \in Places \cup {None} : PageSaveTags(c, r, t, p)
             \/ PageCommit(c, r, t)
  BY <1>2, AsksInv
<1>3. CASE \E T \in SUBSET Tracks : PageImport(c, T)
  BY <1>3, PageImportInv
<1>4. CASE \E r \in Requests : PageCancel(c, r)
  BY <1>4, AsksInv
<1>5. CASE LoseAnswer(c) \/ PageReload(c)
  BY <1>5, LoseAnswerInv, PageReloadInv
<1>. QED BY <1>1, <1>2, <1>3, <1>4, <1>5 DEF UsePage

\* and so after every step.
LEMMA NextInv ==
  ASSUME Inv, [Next]_vars
  PROVE  Inv'
<1>1. CASE \E r \in Requests : Serve(r)
  BY <1>1, ServeInv
<1>2. CASE \E c \in Pages : UsePage(c)
  BY <1>2, UsePageInv
<1>3. CASE \E old \in SUBSET {s \in Sessions : sessions[s].dir \in {"listed", "unlisted"}} :
             Restart(old)
  BY <1>3, RestartInv
<1>4. CASE \E s \in Sessions : Sweep(s)
  BY <1>4, SweepInv
<1>5. CASE UNCHANGED vars
  BY <1>5, StutterInv
<1>. QED BY <1>1, <1>2, <1>3, <1>4, <1>5 DEF Next

\* The inductive invariant holds at every moment of every run.
THEOREM InvHolds == Spec => []Inv
<1>1. Init => Inv
  BY InitInv
<1>2. Inv /\ [Next]_vars => Inv'
  BY NextInv
<1>. QED BY <1>1, <1>2, PTL DEF Spec

\* Every variable keeps its type: no handler, page or queue is ever in a shape the
\* code does not give it.
THEOREM TypeCorrect == Spec => []TypeOK
<1>1. Inv => TypeOK
  BY DEF Inv
<1>. QED BY <1>1, InvHolds, PTL

\* Whatever handlers, faults, stops and sweeps interleave, audio in a session's
\* directory is pending in a manifest that can be read, and what is listed as
\* imported has its row (music-upload-session-service.js).
THEOREM ManifestsSound == Spec => []ManifestSound
<1>1. Inv => ManifestSound
  BY DEF Inv, DiskPart
<1>. QED BY <1>1, InvHolds, PTL

\* A session that met no fault has an exact manifest whenever nobody holds its lock.
THEOREM ManifestsExact == Spec => []ManifestExact
<1>1. Inv => ManifestExact
  <2> SUFFICES ASSUME Inv, NEW s \in Sessions \ hurt, sessions[s].dir = "listed", queue[s] = <<>>
               PROVE  sessions[s].manifest.pending = {t \in Tracks : spot[t] = s /\ t \notin aside}
    BY DEF ManifestExact
  <2>1. \A r \in Requests : requests[r].session = s => requests[r].phase \notin Working
    BY DEF Inv, SessionTurns, MyTurn
  <2>2. RestedAt(s)
    BY RestedEverywhere DEF Inv, DiskPart
  <2>. QED BY <2>1, <2>2 DEF RestedAt, Present
<1>. QED BY <1>1, InvHolds, PTL

-----------------------------------------------------------------------------
(* The locks are passed on. *)

In(seq, r) == \E i \in DOMAIN seq : seq[i] = r

\* Whoever waits for a lock is in its queue.
Awaits(r) ==
  /\ requests[r].phase = "queued" => In(queue[requests[r].session], r)
  /\ requests[r].phase = "edit" => In(edits, r)
NoneForgotten == \A r \in Requests : Awaits(r)

\* A step of r is possible: for each phase, what the guards of its actions come to.
MayServe(r) ==
  \/ requests[r].phase = "queued" /\ MyTurn(r)
  \/ requests[r].phase = "edit" /\ LibraryTurn(r)
  \/ requests[r].phase \in Working \ {"edit"}

\* LocksPassOn, with the guards in the place of ENABLED.
LocksMove ==
  /\ edits # <<>> => MayServe(Head(edits))
  /\ \A s \in Sessions : queue[s] # <<>> =>
       MayServe(Head(queue[s])) \/ In(edits, Head(queue[s]))

\* Who is in a queue stays there but for its head,
LEMMA InTail ==
  ASSUME NEW seq \in Seq(Requests), seq # <<>>, NEW q, In(seq, q), q # Head(seq)
  PROVE  In(Tail(seq), q)
<1>1. PICK i \in DOMAIN seq : seq[i] = q
  BY DEF In
<1>2. i - 1 \in DOMAIN Tail(seq) /\ Tail(seq)[i - 1] = q
  BY <1>1
<1>. QED BY <1>2 DEF In

\* and those that join it are in it.
LEMMA InAppend ==
  ASSUME NEW seq \in Seq(Requests), NEW r \in Requests
  PROVE  /\ In(Append(seq, r), r)
         /\ \A q : In(seq, q) => In(Append(seq, r), q)
<1>1. Len(seq) + 1 \in DOMAIN Append(seq, r) /\ Append(seq, r)[Len(seq) + 1] = r
  OBVIOUS
<1>2. ASSUME NEW q, In(seq, q) PROVE In(Append(seq, r), q)
  <2>1. PICK i \in DOMAIN seq : seq[i] = q
    BY <1>2 DEF In
  <2>2. i \in DOMAIN Append(seq, r) /\ Append(seq, r)[i] = q
    BY <2>1
  <2>. QED BY <2>2 DEF In
<1>. QED BY <1>1, <1>2 DEF In

\* A step of r that waits for nothing after it, and leaves no queue but at its head.
Passes(r) ==
  /\ \A q \in Requests \ {r} : requests'[q] = requests[q]
  /\ requests'[r].phase \notin {"queued", "edit"}
  /\ \/ UNCHANGED queue
     \/ requests[r].session \in Sessions /\ MyTurn(r) /\ LeaveSession(r)
  /\ UNCHANGED edits \/ (LibraryTurn(r) /\ edits' = Tail(edits))

LEMMA PassesAwaits ==
  ASSUME Inv, NoneForgotten, NEW r \in Requests, Passes(r)
  PROVE  NoneForgotten'
<1>1. /\ queue \in [Sessions -> Seq(Requests)] /\ edits \in Seq(Requests)
      /\ \A q \in Requests : requests[q].phase = "queued" => requests[q].session \in Sessions
  BY About DEF Inv, TypeOK
<1>2. Awaits(r)'
  BY DEF Passes, Awaits
<1>3. ASSUME NEW q \in Requests \ {r}
      PROVE  Awaits(q)'
  <2>1. Awaits(q) /\ requests'[q] = requests[q]
    BY DEF NoneForgotten, Passes
  <2>2. requests[q].phase = "edit" => In(edits, q)'
    <3>1. CASE UNCHANGED edits
      BY <2>1, <3>1 DEF Awaits, In
    <3>2. CASE LibraryTurn(r) /\ edits' = Tail(edits)
      BY <1>1, <2>1, <3>2, InTail DEF LibraryTurn, Awaits, In
    <3>. QED BY <3>1, <3>2 DEF Passes
  <2>3. ASSUME requests[q].phase = "queued"
        PROVE  In(queue'[requests[q].session], q)
    <3>1. requests[q].session \in Sessions /\ In(queue[requests[q].session], q)
      BY <1>1, <2>1, <2>3 DEF Awaits
    <3>2. CASE UNCHANGED queue
      BY <3>1, <3>2
    <3>3. CASE requests[r].session \in Sessions /\ MyTurn(r) /\ LeaveSession(r)
      <4>1. queue'[requests[q].session] =
              IF requests[q].session = requests[r].session
                THEN Tail(queue[requests[r].session]) ELSE queue[requests[q].session]
        BY <1>1, <3>1, <3>3 DEF LeaveSession
      <4>2. CASE requests[q].session = requests[r].session
        BY <1>1, <3>1, <3>3, <4>1, <4>2, InTail DEF MyTurn
      <4>3. CASE requests[q].session # requests[r].session
        BY <3>1, <4>1, <4>3
      <4>. QED BY <4>2, <4>3
    <3>. QED BY <3>2, <3>3 DEF Passes
  <2>. QED BY <2>1, <2>2, <2>3 DEF Awaits, In
<1>. QED BY <1>2, <1>3 DEF NoneForgotten

\* Every handler that answers passes on what it holds, ...
LEMMA EndPasses ==
  ASSUME Inv, NEW r \in Requests, NEW answer \in Answers, NEW ready \in SUBSET Tracks,
         Reply(r, answer, ready),
         \/ UNCHANGED queue
         \/ requests[r].phase \in Working \cup {"queued"} /\ MyTurn(r) /\ LeaveSession(r),
         UNCHANGED edits \/ (LibraryTurn(r) /\ edits' = Tail(edits))
  PROVE  Passes(r)
<1>1. /\ \A q \in Requests \ {r} : requests'[q] = requests[q]
      /\ requests'[r] = Idle \/ requests'[r].phase = answer
  BY Replied DEF Inv
<1>2. requests[r].phase \in Working \cup {"queued"} => requests[r].session \in Sessions
  BY About DEF Inv
<1>. QED BY <1>1, <1>2 DEF Passes, Idle, Answers

\* ... as do those that go on.
LEMMA GoPasses ==
  ASSUME Inv, NEW r \in Requests, NEW phase \in Phases \ {"queued", "edit"}, GoTo(r, phase),
         UNCHANGED queue, UNCHANGED edits \/ (LibraryTurn(r) /\ edits' = Tail(edits))
  PROVE  Passes(r)
<1>1. TypeOK
  BY DEF Inv
<1>. QED BY <1>1, Went DEF Passes

LEMMA ServeAwaits ==
  ASSUME Inv, NoneForgotten, NEW r \in Requests, Serve(r)
  PROVE  NoneForgotten'
<1>0. /\ TypeOK
      /\ requests[r].phase \in Working => MyTurn(r)
      /\ requests[r].phase \in LibraryWork \ {"edit"} => LibraryTurn(r)
  BY DEF Inv, SessionTurns, LibraryTurns
<1>1. CASE ReadManifest(r)
  <2>1. /\ requests[r].phase = "queued" /\ requests[r].session \in Sessions
        /\ requests[r].op \in {"tags", "commit", "cancel"}
    BY <1>1, About DEF Inv, ReadManifest
  <2>2. /\ \A q \in Requests \ {r} : requests'[q] = requests[q]
        /\ requests'[r].phase = FirstPhase[requests[r].op]
        /\ UNCHANGED queue
        /\ edits' = IF requests[r].op = "commit" THEN Append(edits, r) ELSE edits
    BY <1>0, <1>1 DEF ReadManifest, TypeOK, Request
  <2>3. edits \in Seq(Requests)
    BY <1>0 DEF TypeOK
  <2>4. \A q \in Requests : In(edits, q) => In(edits', q)
    BY <2>2, <2>3, InAppend DEF In
  <2>5. Awaits(r)'
    BY <2>1, <2>2, <2>3, InAppend DEF Awaits, FirstPhase
  <2>6. \A q \in Requests \ {r} : Awaits(q)'
    BY <2>2, <2>4 DEF NoneForgotten, Awaits, In
  <2>. QED BY <2>5, <2>6 DEF NoneForgotten
<1>2. CASE ~ReadManifest(r)
  <2>1. CASE \E s \in Sessions : MoveIntoSession(r, s)
    <3>1. PICK s \in Sessions : MoveIntoSession(r, s)
      BY <2>1
    <3>2. /\ \A q \in Requests \ {r} : requests'[q] = requests[q]
          /\ requests'[r].phase = "moved" /\ UNCHANGED <<queue, edits>>
      BY <1>0, <3>1 DEF MoveIntoSession, TypeOK, Request
    <3>. QED BY <3>2, PassesAwaits DEF Passes
  <2>2. CASE PublishSession(r) \/ CreateFails(r)
    <3>1. \E answer \in Answers, ready \in SUBSET Tracks : Reply(r, answer, ready)
      <4>1. CASE PublishSession(r)
        <5>1. requests[r].batch \subseteq Tracks
          BY <1>0 DEF TypeOK, Request
        <5>2. {t \in requests[r].batch : tags[t] # None} \in SUBSET Tracks
          BY <5>1
        <5>3. Reply(r, "ok", {t \in requests[r].batch : tags[t] # None}) /\ "ok" \in Answers
          BY <4>1 DEF PublishSession, Answers
        <5>. QED BY <5>2, <5>3
      <4>2. CASE CreateFails(r)
        <5>1. Reply(r, "refused", {}) /\ "refused" \in Answers
          BY <4>2 DEF CreateFails, Answers
        <5>. QED BY <5>1
      <4>. QED BY <2>2, <4>1, <4>2
    <3>2. UNCHANGED <<queue, edits>>
      BY <2>2 DEF PublishSession, CreateFails
    <3>. QED BY <3>1, <3>2, EndPasses, PassesAwaits
  <2>3. CASE SetAside(r) \/ InstallTagged(r) \/ IndexTrack(r) \/ IndexFails(r)
             \/ MoveIntoLibrary(r) \/ SwapManifest(r)
    <3>1. /\ \E phase \in Phases \ {"queued", "edit"} : GoTo(r, phase)
          /\ UNCHANGED queue
      BY <2>3 DEF SetAside, InstallTagged, IndexTrack, IndexFails, MoveIntoLibrary, SwapManifest,
                  Phases, disk
    <3>2. UNCHANGED edits \/ (LibraryTurn(r) /\ edits' = Tail(edits))
      BY <1>0, <2>3 DEF SetAside, InstallTagged, IndexTrack, IndexFails, MoveIntoLibrary,
                        SwapManifest, LibraryWork
    <3>. QED BY <3>1, <3>2, GoPasses, PassesAwaits
  <2>4. CASE CheckImport(r)
    <3>1. /\ \A q \in Requests \ {r} : requests'[q] = requests[q]
          /\ requests'[r].phase = "move" /\ UNCHANGED <<queue, edits>>
      BY <1>0, <2>4 DEF CheckImport, TypeOK, Request
    <3>. QED BY <3>1, PassesAwaits DEF Passes
  <2>5. CASE \/ RefuseRequest(r) \/ RefuseTags(r) \/ RefuseImport(r) \/ MoveFails(r)
             \/ UndoFails(r) \/ InstallTaggedFails(r) \/ UndoMove(r) \/ CloseSession(r)
             \/ RecordFails(r)
    <3>1. /\ \E answer \in Answers : Answer(r, answer)
          /\ requests[r].phase \in Working \cup {"queued"}
      BY <2>5 DEF RefuseRequest, RefuseTags, RefuseImport, MoveFails, UndoFails,
                  InstallTaggedFails, UndoMove, CloseSession, RecordFails, Working, Answers
    <3>2. MyTurn(r)
      BY <1>0, <2>5, <3>1 DEF RefuseRequest, RefuseTags, RefuseImport, MoveFails, UndoFails,
                  InstallTaggedFails, UndoMove, CloseSession, RecordFails, Working
    <3>3. UNCHANGED edits \/ (LibraryTurn(r) /\ edits' = Tail(edits))
      BY <1>0, <2>5 DEF RefuseRequest, RefuseTags, RefuseImport, MoveFails, UndoFails,
                  InstallTaggedFails, UndoMove, CloseSession, RecordFails, LibraryWork
    <3>4. {} \in SUBSET Tracks
      OBVIOUS
    <3>. QED BY <3>1, <3>2, <3>3, <3>4, EndPasses, PassesAwaits DEF Answer
  <2>6. CASE InstallManifest(r)
    <3>1. requests[r].phase = "list" /\ requests[r].phase \in Working
      BY <2>6 DEF InstallManifest, Working
    <3>2. {t \in {requests[r].track} : tags[t] # None /\ spot[t] = requests[r].session}
            \in SUBSET Tracks
      BY <3>1, About DEF Inv, Shaped, PhasesOf, Answers
    <3>3. /\ Reply(r, "ok", {t \in {requests[r].track} :
                               tags[t] # None /\ spot[t] = requests[r].session})
          /\ "ok" \in Answers /\ LeaveSession(r) /\ UNCHANGED edits
      BY <2>6 DEF InstallManifest, Answers
    <3>. QED BY <1>0, <3>1, <3>2, <3>3, EndPasses, PassesAwaits
  <2>7. CASE Deliver(r)
    <3>1. /\ \A q \in Requests \ {r} : requests'[q] = requests[q]
          /\ requests'[r] = Idle /\ UNCHANGED <<queue, edits>>
      BY <1>0, <2>7 DEF Deliver, TypeOK
    <3>. QED BY <3>1, PassesAwaits DEF Passes, Idle
  <2>. QED BY <1>2, <2>1, <2>2, <2>3, <2>4, <2>5, <2>6, <2>7 DEF Serve
<1>. QED BY <1>1, <1>2

\* A request is put in the queue of its session when it is made.
LEMMA AskAwaits ==
  ASSUME Inv, NoneForgotten, NEW c \in Pages, NEW r \in Requests,
         NEW op \in {"tags", "commit", "cancel"}, NEW t \in Tracks \cup {None},
         NEW p \in Places \cup {None}, Ask(c, r, op, t, p)
  PROVE  NoneForgotten'
<1>. DEFINE s == pages[c].session
<1>1. TypeOK
  BY DEF Inv
<1>2. /\ s \in Sessions /\ Question(c, op, t, p) \in Request
      /\ Send(c, r, Question(c, op, t, p))
      /\ queue' = [queue EXCEPT ![s] = Append(@, r)] /\ edits' = edits
  BY <1>1, Asked
<1>3. /\ \A q \in Requests \ {r} : requests'[q] = requests[q]
      /\ requests'[r] = [Question(c, op, t, p) EXCEPT !.page = c]
  BY <1>1, <1>2, Sent
<1>4. requests'[r].phase = "queued" /\ requests'[r].session = s
  BY <1>2, <1>3 DEF Question, Idle
<1>5. queue \in [Sessions -> Seq(Requests)]
  BY <1>1 DEF TypeOK
<1>6. In(queue'[s], r) /\ \A z \in Sessions, q \in Requests : In(queue[z], q) => In(queue'[z], q)
  BY <1>2, <1>5, InAppend
<1>7. Awaits(r)'
  BY <1>4, <1>6 DEF Awaits
<1>8. ASSUME NEW q \in Requests \ {r}
      PROVE  Awaits(q)'
  <2>1. Awaits(q) /\ requests'[q] = requests[q]
    BY <1>3 DEF NoneForgotten
  <2>2. requests[q].phase = "queued" => requests[q].session \in Sessions
    BY About, <1>1 DEF Inv
  <2>. QED BY <1>2, <1>6, <2>1, <2>2 DEF Awaits, In
<1>. QED BY <1>7, <1>8 DEF NoneForgotten

LEMMA NextAwaits ==
  ASSUME Inv, NoneForgotten, [Next]_vars
  PROVE  NoneForgotten'
<1>1. CASE \E r \in Requests : Serve(r)
  BY <1>1, ServeAwaits
<1>2. ASSUME NEW c \in Pages, UsePage(c)
      PROVE  NoneForgotten'
  <2>1. CASE \/ \E r \in Requests, t \in Tracks :
                  \/ \E p \in Places \cup {None} : PageSaveTags(c, r, t, p)
                  \/ PageCommit(c, r, t)
             \/ \E r \in Requests : PageCancel(c, r)
    BY <2>1, AskAwaits DEF PageSaveTags, PageCommit, PageCancel
  <2>2. CASE \E r \in Requests, T \in SUBSET Tracks : PageUpload(c, r, T)
    <3>1. PICK r \in Requests, T \in SUBSET Tracks : PageUpload(c, r, T)
      BY <2>2
    <3>2. /\ requests \in [Requests -> Request] /\ UNCHANGED <<queue, edits>>
          /\ requests' = [requests EXCEPT ![r] = [[Idle EXCEPT !.op = "create",
                             !.phase = "received", !.batch = T] EXCEPT !.page = c]]
      BY <3>1 DEF PageUpload, Send, Inv, TypeOK
    <3>3. /\ \A q \in Requests \ {r} : requests'[q] = requests[q]
          /\ requests'[r].phase = "received"
      BY <3>2 DEF Idle
    <3>. QED BY <3>2, <3>3, PassesAwaits DEF Passes
  <2>3. CASE \E T \in SUBSET Tracks : PageImport(c, T)
    BY <2>3 DEF PageImport, NoneForgotten, Awaits, In
  <2>4. CASE LoseAnswer(c) \/ PageReload(c)
    <3>1. /\ TypeOK /\ UNCHANGED <<queue, edits>>
          /\ \A q \in Requests : requests'[q] \in {requests[q], Unheard(requests[q])}
      BY <2>4, Lost, Reloaded DEF Inv, LoseAnswer, PageReload
    <3>2. \A q \in Requests : requests'[q].phase \in {"queued", "edit"} =>
            requests'[q].phase = requests[q].phase /\ requests'[q].session = requests[q].session
      <4>1. ASSUME NEW q \in Requests
            PROVE  /\ requests[q] \in Request
                   /\ Unheard(requests[q]) \in {Idle, [requests[q] EXCEPT !.page = None]}
        BY <3>1, UnheardTyped DEF TypeOK
      <4>2. Idle.phase = "idle"
        BY DEF Idle
      <4>3. ASSUME NEW q \in Requests
            PROVE  /\ [requests[q] EXCEPT !.page = None].phase = requests[q].phase
                   /\ [requests[q] EXCEPT !.page = None].session = requests[q].session
        BY <4>1 DEF Request
      <4>. QED BY <3>1, <4>1, <4>2, <4>3
    <3>. QED BY <3>1, <3>2 DEF NoneForgotten, Awaits, In
  <2>. QED BY <1>2, <2>1, <2>2, <2>3, <2>4 DEF UsePage
<1>3. CASE \E old \in SUBSET {s \in Sessions : sessions[s].dir \in {"listed", "unlisted"}} :
             Restart(old)
  <2>1. \A r \in Requests : requests'[r] = Idle
    BY <1>3 DEF Restart
  <2>. QED BY <2>1 DEF NoneForgotten, Awaits, Idle
<1>4. CASE \E s \in Sessions : Sweep(s)
  BY <1>4 DEF Sweep, NoneForgotten, Awaits, In
<1>5. CASE UNCHANGED vars
  BY <1>5 DEF vars, NoneForgotten, Awaits, In
<1>. QED BY <1>1, <1>2, <1>3, <1>4, <1>5 DEF Next

\* Whoever waits for a session or for the library is in the queue of the lock, so
\* that its turn comes when those before it are done: no failure, lost answer or
\* sweep leaves a handler waiting outside (withSessionLock, withMusicMetadataEditLock).
THEOREM NobodyForgotten == Spec => []NoneForgotten
<1>1. Init => NoneForgotten
  BY DEF Init, NoneForgotten, Awaits, Idle
<1>2. Inv /\ NoneForgotten /\ [Next]_vars => NoneForgotten'
  BY NextAwaits
<1>. QED BY <1>1, <1>2, InvHolds, PTL DEF Spec

\* A lock is always passed on, and the two never wait for each other: the guards of
\* a step hold for whoever is at the head of the library's queue, and for the head of
\* a session's unless it waits for the library.
THEOREM LocksPassed == Spec => []LocksMove
<1>1. ASSUME Inv, NoneForgotten PROVE LocksMove
  <2>1. queue \in [Sessions -> Seq(Requests)] /\ edits \in Seq(Requests)
    BY <1>1 DEF Inv, TypeOK
  <2>2. ASSUME edits # <<>> PROVE MayServe(Head(edits))
    <3>1. 1 \in DOMAIN edits /\ Head(edits) = edits[1]
      BY <2>1, <2>2
    <3>2. requests[Head(edits)].phase \in LibraryWork
      BY <1>1, <3>1 DEF Inv, LibraryTurns
    <3>. QED BY <2>2, <3>2 DEF MayServe, LibraryTurn, LibraryWork, Working
  <2>3. ASSUME NEW s \in Sessions, queue[s] # <<>>
        PROVE  MayServe(Head(queue[s])) \/ In(edits, Head(queue[s]))
    <3>. DEFINE q == Head(queue[s])
    <3>1. /\ 1 \in DOMAIN queue[s] /\ q = queue[s][1] /\ q \in Requests
      BY <2>1, <2>3
    <3>2. requests[q].session = s /\ requests[q].phase \in Working \cup {"queued"}
      BY <1>1, <3>1 DEF Inv, SessionTurns
    <3>3. requests[q].phase = "edit" => In(edits, q)
      BY <1>1, <3>1 DEF NoneForgotten, Awaits
    <3>4. MyTurn(q)
      BY <2>3, <3>2 DEF MyTurn
    <3>. QED BY <3>2, <3>3, <3>4 DEF MayServe
  <2>. QED BY <2>2, <2>3 DEF LocksMove
<1>. QED BY <1>1, NobodyForgotten, InvHolds, PTL

-----------------------------------------------------------------------------
(* The module implements TrackFate. *)

Indexes(t) == \E p \in Places : rows[p] = t

\* What becomes of t, by where its audio is and whether it has a row.
FateAt(t) == IF Indexes(t) THEN spot[t]
             ELSE IF spot[t] \in Sessions \cup Places THEN "waiting"
             ELSE IF spot[t] = "gone" THEN "discarded" ELSE "away"

\* A row and the spot of its track agree, so that fate needs no third case.
LEMMA FateIs ==
  /\ DiskSound => fate = [t \in Tracks |-> FateAt(t)]
                  /\ \A t \in Tracks : Indexes(t) => spot[t] \in Places /\ rows[spot[t]] = t
  /\ DiskSound' => fate' = [t \in Tracks |-> FateAt(t)']
                   /\ \A t \in Tracks : Indexes(t)' => spot'[t] \in Places /\ rows'[spot'[t]] = t
<1>1. ASSUME DiskSound, NEW t \in Tracks
      PROVE  /\ Indexes(t) => spot[t] \in Places /\ rows[spot[t]] = t
             /\ FateAt(t) =
                  IF \E p \in Places : rows[p] = t /\ spot[t] = p THEN spot[t]
                  ELSE IF \E p \in Places : rows[p] = t THEN "discarded"
                  ELSE IF spot[t] \in Sessions \cup Places THEN "waiting"
                  ELSE IF spot[t] = "gone" THEN "discarded" ELSE "away"
  BY <1>1, SpotsApart DEF DiskSound, Indexes, FateAt
<1>2. ASSUME DiskSound', NEW t \in Tracks
      PROVE  /\ Indexes(t)' => spot'[t] \in Places /\ rows'[spot'[t]] = t
             /\ FateAt(t)' =
                  IF \E p \in Places : rows'[p] = t /\ spot'[t] = p THEN spot'[t]
                  ELSE IF \E p \in Places : rows'[p] = t THEN "discarded"
                  ELSE IF spot'[t] \in Sessions \cup Places THEN "waiting"
                  ELSE IF spot'[t] = "gone" THEN "discarded" ELSE "away"
  BY <1>2, SpotsApart DEF DiskSound, Indexes, FateAt
<1>. QED BY <1>1, <1>2 DEF fate

\* The same, from the invariant.
LEMMA FateTold ==
  ASSUME Inv
  PROVE  /\ \A t \in Tracks : fate[t] = FateAt(t)
         /\ \A t \in Tracks : Indexes(t) => spot[t] \in Places /\ rows[spot[t]] = t
         /\ Inv' => fate' = [t \in Tracks |-> FateAt(t)']
  BY FateIs DEF Inv, DiskPart

\* A step that moves no audio between the kinds of spots, and adds no row.
LEMMA FateStays ==
  ASSUME Inv, Inv', UNCHANGED rows,
         \A t \in Tracks : FateAt(t)' = FateAt(t)
  PROVE  UNCHANGED fate
  BY FateIs DEF Inv, DiskPart

\* Where nothing moves and no row is added, nothing becomes of any track.
LEMMA SameFate ==
  ASSUME UNCHANGED <<spot, rows>>
  PROVE  UNCHANGED fate
  BY DEF fate

\* Tracks that have no row are thrown away.
LEMMA FateDiscard ==
  ASSUME Inv, Inv', UNCHANGED rows, NEW T \in SUBSET Tracks,
         \A t \in T : ~Indexes(t) /\ spot[t] # "gone",
         \A t \in Tracks : spot'[t] = IF t \in T THEN "gone" ELSE spot[t]
  PROVE  Fate!Discard(T)
<1>1. \A t \in Tracks : Indexes(t)' <=> Indexes(t)
  BY DEF Indexes
<1>2. \A t \in Tracks : FateAt(t)' = IF t \in T THEN "discarded" ELSE FateAt(t)
  BY <1>1, SpotsApart DEF FateAt
<1>3. \A t \in T : FateAt(t) \in {"away", "waiting"}
  BY DEF FateAt
<1>. QED BY <1>2, <1>3, FateTold DEF Fate!Discard

\* Files that are received are still away.
LEMMA FateUpload ==
  ASSUME Inv, Inv', NEW c \in Pages, NEW r \in Requests, NEW T \in SUBSET Tracks,
         PageUpload(c, r, T)
  PROVE  UNCHANGED fate
<1>1. /\ \A t \in Tracks : spot'[t] = IF t \in T THEN "incoming" ELSE spot[t]
      /\ \A t \in T : spot[t] = "outside"
      /\ UNCHANGED rows
  BY DEF PageUpload
<1>2. \A t \in Tracks : Indexes(t)' <=> Indexes(t)
  BY <1>1 DEF Indexes
<1>3. \A t \in T : ~Indexes(t)
  BY <1>1, FateTold, SpotsApart
<1>4. \A t \in Tracks : FateAt(t)' = FateAt(t)
  BY <1>1, <1>2, <1>3, SpotsApart DEF FateAt
<1>. QED BY <1>1, <1>4, FateStays

\* The tracks a handler that creates a session has are not in the library.
LEMMA BatchApart ==
  ASSUME Inv, NEW r \in Requests, requests[r].op = "create",
         requests[r].phase \in {"received", "moved"}
  PROVE  /\ requests[r].batch \in SUBSET Tracks
         /\ \A t \in requests[r].batch :
              /\ ~Indexes(t)
              /\ spot[t] # "gone"
              /\ requests[r].phase = "received" => spot[t] = "incoming"
<1>1. TypeOK /\ DiskPart /\ Shaped(requests[r])
  BY DEF Inv
<1>2. requests[r].batch \in SUBSET Tracks
  BY <1>1 DEF TypeOK, Request
<1>3. CASE requests[r].phase = "received"
  <2>1. \A t \in requests[r].batch : spot[t] = "incoming"
    BY <1>1, <1>3 DEF DiskPart, Received, Creates
  <2>. QED BY <1>2, <2>1, FateTold, SpotsApart
<1>4. CASE requests[r].phase = "moved"
  <2>1. PICK s \in Sessions : requests[r].session = s
    BY <1>1, <1>4 DEF Shaped
  <2>2. \A t \in requests[r].batch : spot[t] = s
    BY <1>1, <1>4, <2>1 DEF DiskPart, Moved, Creates, Unpublished, Held
  <2>. QED BY <1>2, <1>4, <2>1, <2>2, FateTold, SpotsApart
<1>. QED BY <1>3, <1>4

\* Files in a session wait.
LEMMA FateArrive ==
  ASSUME Inv, Inv', NEW r \in Requests, NEW s \in Sessions, MoveIntoSession(r, s)
  PROVE  Fate!Arrive(requests[r].batch)
<1>. DEFINE T == requests[r].batch
<1>1. /\ requests[r].op = "create" /\ requests[r].phase = "received"
      /\ \A t \in Tracks : spot'[t] = IF t \in T THEN s ELSE spot[t]
      /\ UNCHANGED rows
  BY DEF MoveIntoSession
<1>2. T \in SUBSET Tracks /\ \A t \in T : ~Indexes(t) /\ spot[t] = "incoming"
  BY <1>1, BatchApart
<1>. HIDE DEF T
<1>3. \A t \in Tracks : Indexes(t)' <=> Indexes(t)
  BY <1>1 DEF Indexes
<1>4. \A t \in Tracks : FateAt(t)' = IF t \in T THEN "waiting" ELSE FateAt(t)
  BY <1>1, <1>2, <1>3 DEF FateAt
<1>5. \A t \in T : FateAt(t) = "away"
  BY <1>2, SpotsApart DEF FateAt
<1>6. \A t \in T : fate[t] = "away"
  BY <1>2, <1>5, FateTold
<1>7. fate' = [t \in Tracks |-> IF t \in T THEN "waiting" ELSE fate[t]]
  BY <1>4, FateTold
<1>. QED BY <1>6, <1>7 DEF Fate!Arrive, T

\* Files of a failed upload are discarded.
LEMMA FateOfFailure ==
  ASSUME Inv, Inv', NEW r \in Requests, CreateFails(r)
  PROVE  Fate!Discard(requests[r].batch)
<1>. DEFINE T == requests[r].batch
<1>1. /\ requests[r].op = "create" /\ requests[r].phase \in {"received", "moved"}
      /\ \A t \in Tracks : spot'[t] = IF t \in T THEN "gone" ELSE spot[t]
      /\ UNCHANGED rows
  BY DEF CreateFails
<1>2. T \in SUBSET Tracks /\ \A t \in T : ~Indexes(t) /\ spot[t] # "gone"
  BY <1>1, BatchApart
<1>. HIDE DEF T
<1>3. Fate!Discard(T)
  BY <1>1, <1>2, FateDiscard
<1>. QED BY <1>3 DEF T

\* A removed session discards what waits in it, and nothing of the library.
LEMMA FateOfRemoval ==
  ASSUME Inv, Inv', NEW s \in Sessions, RemoveDirectory(s), UNCHANGED rows
  PROVE  Fate!Discard(Held(s))
<1>1. /\ Held(s) \in SUBSET Tracks
      /\ \A t \in Held(s) : ~Indexes(t) /\ spot[t] # "gone"
      /\ \A t \in Tracks : spot'[t] = IF t \in Held(s) THEN "gone" ELSE spot[t]
  BY FateTold, SpotsApart DEF RemoveDirectory, Held
<1>. QED BY <1>1, FateDiscard

\* Received files without a session are out of reach after a stop.
LEMMA FateOfRestart ==
  ASSUME Inv, Inv', NEW old, Restart(old)
  PROVE  Fate!Discard({t \in Tracks : spot[t] = "incoming"})
<1>. DEFINE T == {t \in Tracks : spot[t] = "incoming"}
<1>1. /\ T \in SUBSET Tracks /\ UNCHANGED rows
      /\ \A t \in T : ~Indexes(t) /\ spot[t] # "gone"
      /\ \A t \in Tracks : spot'[t] = IF t \in T THEN "gone" ELSE spot[t]
  BY FateTold, SpotsApart DEF Restart
<1>. HIDE DEF T
<1>2. Fate!Discard(T)
  BY <1>1, FateDiscard
<1>. QED BY <1>2 DEF T

\* A file without a row waits, in the session and in the library.
LEMMA FateOfMoves ==
  ASSUME Inv, Inv', NEW r \in Requests, MoveIntoLibrary(r) \/ UndoMove(r)
  PROVE  UNCHANGED fate
<1>1. CASE MoveIntoLibrary(r)
  <2>1. PICK s \in Sessions, t \in Tracks, p \in Places :
          /\ spot[t] = s
          /\ \A u \in Tracks : spot'[u] = IF u = t THEN p ELSE spot[u]
    BY <1>1, MovedIn
  <2>2. UNCHANGED rows
    BY <1>1 DEF MoveIntoLibrary
  <2>3. ~Indexes(t)
    BY <2>1, FateTold, SpotsApart
  <2>4. \A u \in Tracks : Indexes(u)' <=> Indexes(u)
    BY <2>2 DEF Indexes
  <2>5. \A u \in Tracks : FateAt(u)' = FateAt(u)
    BY <2>1, <2>3, <2>4 DEF FateAt
  <2>. QED BY <2>2, <2>5, FateStays
<1>2. CASE UndoMove(r)
  <2>1. PICK s \in Sessions, t \in Tracks, p \in Places :
          /\ requests[r].session = s /\ requests[r].track = t
          /\ spot[t] = p /\ rows[p] = None
    BY <1>2, Indexed DEF UndoMove
  <2>2. UNCHANGED rows /\ \A u \in Tracks : spot'[u] = IF u = t THEN s ELSE spot[u]
    BY <1>2, <2>1 DEF UndoMove, Inv, TypeOK
  <2>3. ~Indexes(t)
    BY <2>1, FateTold, SpotsApart
  <2>4. \A u \in Tracks : Indexes(u)' <=> Indexes(u)
    BY <2>2 DEF Indexes
  <2>5. \A u \in Tracks : FateAt(u)' = FateAt(u)
    BY <2>1, <2>2, <2>3, <2>4 DEF FateAt
  <2>. QED BY <2>2, <2>5, FateStays
<1>. QED BY <1>1, <1>2

\* The row makes the track one of the library, at a place that was free.
LEMMA FateImport ==
  ASSUME Inv, Inv', NEW r \in Requests, IndexTrack(r)
  PROVE  \E t \in Tracks, p \in Places : Fate!Import(t, p)
<1>1. PICK s \in Sessions, t \in Tracks, p \in Places :
        /\ requests[r].session = s /\ requests[r].track = t /\ requests[r].tag = p
        /\ spot[t] = p /\ rows[p] = None
  BY Indexed DEF IndexTrack
<1>2. /\ \A q \in Places : rows'[q] = IF q = p THEN t ELSE rows[q]
      /\ UNCHANGED spot
  BY <1>1 DEF IndexTrack, Inv, TypeOK
<1>3. ~Indexes(t) /\ Indexes(t)'
  BY <1>1, <1>2, FateTold, SpotsApart DEF Indexes
<1>4. \A u \in Tracks \ {t} : Indexes(u)' <=> Indexes(u)
  BY <1>1, <1>2, SpotsApart DEF Indexes
<1>5. \A u \in Tracks : FateAt(u)' = IF u = t THEN p ELSE FateAt(u)
  BY <1>1, <1>2, <1>3, <1>4 DEF FateAt
<1>6. FateAt(t) = "waiting"
  BY <1>1, <1>3 DEF FateAt
<1>7. \A u \in Tracks : FateAt(u) # p
  <2> SUFFICES ASSUME NEW u \in Tracks, FateAt(u) = p PROVE FALSE
    OBVIOUS
  <2>1. Indexes(u) /\ spot[u] = p
    BY SpotsApart DEF FateAt
  <2>2. rows[p] = u
    BY <2>1, FateTold
  <2>. QED BY <1>1, <2>2, SpotsApart
<1>8. fate[t] = "waiting" /\ \A u \in Tracks : fate[u] # p
  BY <1>6, <1>7, FateTold
<1>9. fate' = [fate EXCEPT ![t] = p]
  <2>1. fate = [u \in Tracks |-> fate[u]]
    BY DEF fate
  <2>2. fate' = [u \in Tracks |-> IF u = t THEN p ELSE fate[u]]
    BY <1>5, FateTold
  <2>. QED BY <2>1, <2>2
<1>. QED BY <1>8, <1>9 DEF Fate!Import

\* Every step is one of TrackFate, or changes nothing of it.
LEMMA FateStep ==
  ASSUME Inv, Inv', [Next]_vars
  PROVE  [Fate!Next]_fate
<1>1. CASE \E r \in Requests : Serve(r)
  <2>1. PICK r \in Requests : Serve(r)
    BY <1>1
  <2>2. CASE \E s \in Sessions : MoveIntoSession(r, s)
    <3>1. requests[r].batch \in SUBSET Tracks
      BY DEF Inv, TypeOK, Request
    <3>. QED BY <2>2, <3>1, FateArrive DEF Fate!Next
  <2>3. CASE CreateFails(r)
    <3>1. requests[r].batch \in SUBSET Tracks
      BY DEF Inv, TypeOK, Request
    <3>. QED BY <2>3, <3>1, FateOfFailure DEF Fate!Next
  <2>4. CASE MoveIntoLibrary(r) \/ UndoMove(r)
    BY <2>4, FateOfMoves
  <2>5. CASE IndexTrack(r)
    BY <2>5, FateImport DEF Fate!Next
  <2>6. CASE CloseSession(r)
    <3>1. PICK s \in Sessions : requests[r].session = s
      BY <2>6, About DEF CloseSession, Inv, Working
    <3>2. RemoveDirectory(s) /\ UNCHANGED rows
      BY <2>6, <3>1 DEF CloseSession
    <3>3. Held(s) \in SUBSET Tracks
      BY DEF Held
    <3>. QED BY <3>2, <3>3, FateOfRemoval DEF Fate!Next
  <2>7. CASE \/ PublishSession(r) \/ ReadManifest(r) \/ RefuseRequest(r) \/ SetAside(r)
             \/ RefuseTags(r) \/ InstallTagged(r) \/ InstallTaggedFails(r) \/ CheckImport(r)
             \/ RefuseImport(r) \/ MoveFails(r) \/ IndexFails(r) \/ UndoFails(r)
             \/ SwapManifest(r) \/ InstallManifest(r) \/ RecordFails(r) \/ Deliver(r)
    <3>1. UNCHANGED <<spot, rows>>
      BY <2>7 DEF PublishSession, ReadManifest, RefuseRequest, SetAside, RefuseTags, InstallTagged,
             InstallTaggedFails, CheckImport, RefuseImport, MoveFails, IndexFails, UndoFails,
             SwapManifest, InstallManifest, RecordFails, Deliver, disk
    <3>. QED BY <3>1, SameFate
  <2>. QED BY <2>1, <2>2, <2>3, <2>4, <2>5, <2>6, <2>7 DEF Serve
<1>2. CASE \E c \in Pages : UsePage(c)
  <2>1. PICK c \in Pages : UsePage(c)
    BY <1>2
  <2>2. CASE \E r \in Requests, T \in SUBSET Tracks : PageUpload(c, r, T)
    BY <2>2, FateUpload
  <2>3. CASE ~\E r \in Requests, T \in SUBSET Tracks : PageUpload(c, r, T)
    <3>1. UNCHANGED disk
      BY <2>1, <2>3 DEF UsePage, PageSaveTags, PageCommit, PageImport, PageCancel, LoseAnswer,
                        PageReload, Ask
    <3>. QED BY <3>1, SameFate DEF disk
  <2>. QED BY <2>2, <2>3
<1>3. CASE \E old \in SUBSET {s \in Sessions : sessions[s].dir \in {"listed", "unlisted"}} :
             Restart(old)
  <2>1. {t \in Tracks : spot[t] = "incoming"} \in SUBSET Tracks
    OBVIOUS
  <2>. QED BY <1>3, <2>1, FateOfRestart DEF Fate!Next
<1>4. CASE \E s \in Sessions : Sweep(s)
  <2>1. PICK s \in Sessions : RemoveDirectory(s) /\ UNCHANGED rows
    BY <1>4 DEF Sweep
  <2>2. Held(s) \in SUBSET Tracks
    BY DEF Held
  <2>. QED BY <2>1, <2>2, FateOfRemoval DEF Fate!Next
<1>5. CASE UNCHANGED vars
  BY <1>5, SameFate DEF vars, disk
<1>. QED BY <1>1, <1>2, <1>3, <1>4, <1>5 DEF Next

\* Sessions, faults, stops and sweeps never overwrite, lose or move a track of the
\* library, and nothing enters it twice or at a place that is taken: every step of the
\* module is a step of TrackFate or changes nobody's fate (music-import-service.js).
THEOREM FateImplemented == Spec => FateKept
<1>1. Init => Fate!Init
  <2> SUFFICES ASSUME Init PROVE fate = [t \in Tracks |-> "away"]
    BY DEF Fate!Init
  <2>1. \A t \in Tracks : FateAt(t) = "away"
    BY SpotsApart DEF Init, FateAt, Indexes
  <2>. QED BY <2>1, InitInv, FateIs DEF Inv, DiskPart
<1>2. Inv /\ Inv' /\ [Next]_vars => [Fate!Next]_fate
  BY FateStep
<1>. QED BY <1>1, <1>2, InvHolds, PTL DEF Spec, FateKept, Fate!Spec
=============================================================================
