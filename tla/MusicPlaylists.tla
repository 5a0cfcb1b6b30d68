------------------------------ MODULE MusicPlaylists ------------------------------
(* The playlists of an account: what the server does with them                      *)
(* (music-playlist-service.js), and the music page (public/js/music.js), whose      *)
(* requests are answered in any order. The page also browses the catalogue and      *)
(* searches it; of what it then shows only the section is told, or the query.       *)
(*                                                                                  *)
(* A request of the server runs in one go. Another device of the account, the scan  *)
(* and the availability check change the same tables in between.                    *)
EXTENDS Naturals, FiniteSets, Functions, SequencesExt

CONSTANTS
  Tracks, Playlists, Names, Queries,
  Sections,         \* the sections of the catalogue the page opens, "home" excepted
  MaxAsked,         \* bound: requests of the listener
  MaxTroubles       \* bound: requests lost, changes made elsewhere

Menu == {"home", "albums", "artists", "genres", "genre"}
Shortcuts == {"genres", "recent", "favorites", "playlists"}

(* showGenres, showRecent: shown from what the page has.                            *)
Instant == {"genres", "recent"}

ASSUME PlaylistsAssumption ==
  /\ Sections \subseteq (Menu \cup Shortcuts) \ {"home"} /\ "playlists" \in Sections
  /\ IsFiniteSet(Playlists) /\ Playlists # {} /\ IsFiniteSet(Tracks) /\ Tracks # {}
  /\ Names # {} /\ {"unused", "deleted"} \cap Names = {} /\ "no track" \notin Tracks
  /\ {MaxAsked, MaxTroubles} \subseteq Nat

VARIABLES
  names,            \* the name of each playlist, or why it has none
  pos,              \* music_playlist_tracks: the position of each track in each playlist
  library,          \* music_tracks: whether a track is there, offline, or deleted
  requests,         \* what the page has asked and not heard of
  mode,             \* the section shown, "search", or "home"
  back,             \* searchReturnMode
  catalog,          \* the section state.catalog is of
  detail,           \* whether a playlist's view is open
  selected,         \* selectedPlaylist
  field, timer,     \* what the search field holds, and searchTimer
  query, results,   \* what the last search asks, and the query of searchPayload
  asked, troubles

tables == <<names, pos>>
browsing == <<mode, back, catalog, field, timer, query, results>>
page == <<browsing, detail, selected>>
vars == <<tables, library, requests, page, asked, troubles>>

Unused == "unused"
Deleted == "deleted"
NoList == "no playlist"
NoTrack == "no track"
NoQuery == ""
NoPayload == [list |-> NoList, tracks |-> <<>>]

Exists(p) == names[p] \notin {Unused, Deleted}

(* listPlaylistTrackRows: the k-th track is the one k - 1 others come before.       *)
Before(rows, t) == {u \in DOMAIN rows : rows[u] < rows[t]}
Order(rows) ==
  [k \in 1..Cardinality(DOMAIN rows) |->
     CHOOSE t \in DOMAIN rows : Cardinality(Before(rows, t)) = k - 1]

(* compactPlaylistPositions.                                                        *)
Compact(s) == [t \in ToSet(s) |-> (CHOOSE k \in 1..Len(s) : s[k] = t) - 1]

(* A library with one playlist, of all tracks but one.                              *)
AnOrder == CHOOSE s \in SeqOf(Tracks, Cardinality(Tracks)) :
             Len(s) = Cardinality(Tracks) /\ IsInjective(s)
Init ==
  /\ LET first == CHOOSE p \in Playlists : TRUE
     IN  /\ names = [p \in Playlists |-> IF p = first THEN CHOOSE n \in Names : TRUE ELSE Unused]
         /\ pos = [p \in Playlists |-> IF p = first THEN Compact(Front(AnOrder)) ELSE <<>>]
  /\ library = [t \in Tracks |-> "here"]
  /\ requests = {} /\ asked = 0 /\ troubles = 0
  /\ mode = "home" /\ back = "home" /\ catalog = "none"
  /\ detail = FALSE /\ selected = NoPayload
  /\ field = NoQuery /\ timer = FALSE /\ query = NoQuery /\ results = NoQuery

-----------------------------------------------------------------------------------
(* The server.                                                                      *)
\* Mutant: the next position is how many there are.
CountedPosition(rows) == Cardinality(DOMAIN rows)

NextPosition(rows) ==
  IF DOMAIN rows = {} THEN 0 ELSE Max({rows[t] : t \in DOMAIN rows}) + 1

(* INSERT OR IGNORE: a track once, a position once.                                 *)
Inserted(rows, t) ==
  IF t \in DOMAIN rows \/ NextPosition(rows) \in {rows[u] : u \in DOMAIN rows} THEN rows
  ELSE [u \in DOMAIN rows \cup {t} |-> IF u = t THEN NextPosition(rows) ELSE rows[u]]

(* addMusicPlaylistTracks, of one track; removeMusicPlaylistTrack;                  *)
(* reorderMusicPlaylistTracks; deleteMusicPlaylist, with its rows.                  *)
CanAdd(p, t) == Exists(p) /\ library[t] = "here"
Add(p, t) ==
  CanAdd(p, t) /\ pos' = [pos EXCEPT ![p] = Inserted(@, t)] /\ UNCHANGED names

\* Mutant: the rows that remain are read from the last.
LastFirst(s) == Compact(Reverse(s))

Closed(s) == Compact(s)
Left(rows, t) == Restrict(rows, DOMAIN rows \ {t})
CanTakeOut(p, t) == Exists(p) /\ t \in DOMAIN pos[p]
TakeOut(p, t) ==
  /\ CanTakeOut(p, t) /\ UNCHANGED names
  /\ pos' = [pos EXCEPT ![p] = Closed(Order(Left(@, t)))]

CanReorder(p, s) == Exists(p) /\ ToSet(s) = DOMAIN pos[p]
Reorder(p, s) ==
  CanReorder(p, s) /\ pos' = [pos EXCEPT ![p] = Compact(s)] /\ UNCHANGED names

Delete(p) ==
  /\ Exists(p) /\ names' = [names EXCEPT ![p] = Deleted] /\ pos' = [pos EXCEPT ![p] = <<>>]

(* createMusicPlaylist, updateMusicPlaylist: a name is one playlist's.              *)
Free(p, n) == \A q \in Playlists \ {p} : names[q] # n
New == CHOOSE p \in Playlists : names[p] = Unused
Create(n) == Free(New, n) /\ names' = [names EXCEPT ![New] = n] /\ UNCHANGED pos
Rename(p, n) == Exists(p) /\ Free(p, n) /\ names' = [names EXCEPT ![p] = n] /\ UNCHANGED pos

(* getMusicPlaylist: the tracks that are there.                                     *)
Payload(p) ==
  LET here == {t \in DOMAIN pos'[p] : library[t] = "here"}
  IN  [list |-> p, tracks |-> Order(Restrict(pos'[p], here))]

Change(r) ==
  \/ r.op = "add" /\ Add(r.list, r.track)
  \/ r.op = "remove" /\ TakeOut(r.list, r.track)
  \/ r.op = "order" /\ Reorder(r.list, r.order)
  \/ r.op = "delete" /\ Delete(r.list)
  \/ r.op = "create" /\ Create(r.name)
  \/ r.op = "rename" /\ Rename(r.list, r.name)
  \/ r.op = "get" /\ Exists(r.list) /\ UNCHANGED tables
  \/ r.op \in {"fetch", "search"} /\ UNCHANGED tables

Refused(r) ==
  CASE r.op = "add" -> ~CanAdd(r.list, r.track)
    [] r.op = "remove" -> ~CanTakeOut(r.list, r.track)
    [] r.op = "order" -> ~CanReorder(r.list, r.order)
    [] r.op = "create" -> ~Free(New, r.name)
    [] r.op = "rename" -> ~(Exists(r.list) /\ Free(r.list, r.name))
    [] r.op \in {"get", "delete"} -> ~Exists(r.list)
    [] OTHER -> FALSE

Shows(r) ==
  IF r.op \in {"fetch", "search", "delete"} THEN NoPayload
  ELSE Payload(IF r.op = "create" THEN New ELSE r.list)

Answer(r, status, shows) ==
  requests' = (requests \ {r}) \cup {[r EXCEPT !.status = status, !.shows = shows]}

Serve(r) ==
  /\ r.status = "sent"
  /\ \/ Change(r) /\ Answer(r, "ok", Shows(r))
     \/ Refused(r) /\ UNCHANGED tables /\ Answer(r, "refused", NoPayload)
  /\ UNCHANGED <<library, page, asked, troubles>>

-----------------------------------------------------------------------------------
(* What the listener does.                                                          *)
Request(op) ==
  [id |-> asked, op |-> op, list |-> NoList, track |-> NoTrack, order |-> <<>>,
   name |-> Unused, query |-> NoQuery, last |-> TRUE, status |-> "sent", shows |-> NoPayload]
Ask(r) == asked < MaxAsked /\ asked' = asked + 1 /\ requests' = requests \cup {r}
ServerKeeps == UNCHANGED <<tables, library, troubles>>

Known == {p \in Playlists : names[p] # Unused}

OpenPlaylist == \E p \in Known : Ask([Request("get") EXCEPT !.list = p])

(* movePlaylistTrack: moveTrackIds of the tracks shown.                             *)
Swapped(s, i) == [k \in 1..Len(s) |-> IF k = i THEN s[i + 1] ELSE IF k = i + 1 THEN s[i] ELSE s[k]]
Move ==
  \E i \in 1..(Len(selected.tracks) - 1) :
    Ask([Request("order") EXCEPT !.list = selected.list, !.order = Swapped(selected.tracks, i)])

RemoveTrack ==
  \E t \in ToSet(selected.tracks) :
    Ask([Request("remove") EXCEPT !.list = selected.list, !.track = t])

(* openAddToPlaylist, addPendingTrackToPlaylist.                                    *)
AddPending ==
  \E t \in Tracks, p \in Known : Ask([Request("add") EXCEPT !.list = p, !.track = t])

(* savePlaylistEditor, of a new playlist, for a track or for none, or of the        *)
(* playlist that is selected.                                                       *)
Creating == {r \in requests : r.op = "create" /\ r.status = "sent"}
CreatePlaylist ==
  /\ Cardinality(Creating) < Cardinality({p \in Playlists : names[p] = Unused})
  /\ \E n \in Names, t \in Tracks \cup {NoTrack} :
       Ask([Request("create") EXCEPT !.name = n, !.track = t])
EditPlaylist ==
  /\ selected # NoPayload
  /\ \E n \in Names : Ask([Request("rename") EXCEPT !.list = selected.list, !.name = n])

DeleteSelected ==
  selected # NoPayload /\ Ask([Request("delete") EXCEPT !.list = selected.list])

Clicks ==
  /\ \/ OpenPlaylist \/ Move \/ RemoveTrack \/ AddPending
     \/ CreatePlaylist \/ EditPlaylist \/ DeleteSelected
  /\ ServerKeeps /\ UNCHANGED page

(* returnFromDetail.                                                                *)
ReturnFromDetail ==
  detail /\ detail' = FALSE /\ ServerKeeps /\ UNCHANGED <<requests, browsing, selected, asked>>

(* clearSearch: the answers of the searches under way are not for anyone.           *)
Forgotten == {IF r.op = "search" THEN [r EXCEPT !.last = FALSE] ELSE r : r \in requests}

\* Mutant: the section from before the search comes back, whatever is shown.
RestoreAnyway == mode' = back /\ detail' = FALSE

(* restoreSearchReturnMode, when the search is what is shown.                       *)
Restore ==
  IF mode = "search" THEN mode' = back /\ detail' = FALSE ELSE UNCHANGED <<mode, detail>>

Emptied == field' = NoQuery /\ timer' = FALSE /\ query' = NoQuery /\ results' = NoQuery

ClearSearch ==
  /\ requests' = Forgotten /\ Emptied /\ Restore
  /\ ServerKeeps /\ UNCHANGED <<back, catalog, selected, asked>>

(* The field's input: the search is made when it has been left alone for 220 ms.    *)
(* NoQuery is any text too short for one.                                           *)
Type(q) ==
  /\ q # field /\ field' = q /\ timer' = TRUE
  /\ ServerKeeps
  /\ UNCHANGED <<requests, mode, back, catalog, query, results, detail, selected, asked>>

Fires == timer /\ timer' = FALSE /\ UNCHANGED field

(* searchMusic, of what the field holds by then; a text too short ends the search.  *)
SearchFor ==
  /\ Fires /\ field # NoQuery
  /\ asked < MaxAsked /\ asked' = asked + 1
  /\ requests' = Forgotten \cup {[Request("search") EXCEPT !.query = field]}
  /\ query' = field
  /\ IF mode = "search" THEN UNCHANGED <<mode, back, detail>>
     ELSE mode' = "search" /\ back' = mode /\ detail' = FALSE
  /\ ServerKeeps /\ UNCHANGED <<catalog, selected, results>>
EndSearch ==
  /\ Fires /\ field = NoQuery
  /\ requests' = Forgotten /\ query' = NoQuery /\ results' = NoQuery /\ Restore
  /\ ServerKeeps /\ UNCHANGED <<back, catalog, selected, asked>>

(* setBrowseMode and the loads behind it; the menu, and a genre among the results,  *)
(* end a search first (runNavigation). The home has shortcuts, the genres lead to   *)
(* the albums of one, from where the filter is cleared.                             *)
OpenSection(s, clears) ==
  /\ \/ clears /\ s \in Menu
     \/ ~clears /\ \/ mode = "home" /\ s \in Shortcuts
                   \/ <<mode, s>> \in {<<"genres", "genre">>, <<"genre", "albums">>}
  /\ LET ends == clears /\ (field # NoQuery \/ mode = "search")
         before == IF ends THEN Forgotten ELSE requests
     IN  /\ IF ends THEN Emptied ELSE UNCHANGED <<field, timer, query, results>>
         /\ IF s \in Instant \cup {"home"}
            THEN /\ mode' = s /\ detail' = FALSE /\ requests' = before
                 /\ catalog' = IF s = "home" THEN catalog ELSE s
                 /\ UNCHANGED asked
            ELSE /\ asked < MaxAsked /\ asked' = asked + 1
                 /\ requests' = before \cup {[Request("fetch") EXCEPT !.query = s]}
                 /\ UNCHANGED <<mode, detail, catalog>>
  /\ ServerKeeps /\ UNCHANGED <<back, selected>>

Browses ==
  \/ ReturnFromDetail \/ ClearSearch \/ SearchFor \/ EndSearch
  \/ \E q \in Queries \cup {NoQuery} : Type(q)
  \/ \E s \in Sections \cup {"home"}, clears \in BOOLEAN : OpenSection(s, clears)

-----------------------------------------------------------------------------------
(* What the page does with an answer; nothing, when the server refused.             *)
\* Mutant: an answer of a search is shown, whichever search is the last.
AnyAnswer(r) == TRUE

ForTheLast(r) == r.last

Then(r, op) == [r EXCEPT !.op = op, !.list = r.shows.list, !.status = "sent", !.shows = NoPayload]

Selects(r) ==
  \/ r.op \in {"get", "remove", "order"}
  \/ r.op = "add" /\ selected.list = r.list
  \/ r.op = "rename" /\ selected # NoPayload

Follows(r) ==
  CASE r.op = "create" -> {Then(r, IF r.track = NoTrack THEN "get" ELSE "add")}
    [] r.op = "delete" -> {[Then(r, "fetch") EXCEPT !.query = "playlists"]}
    [] r.op = "rename" -> IF selected = NoPayload THEN {Then(r, "get")} ELSE {}
    [] OTHER -> {}

(* loadAlbums, loadArtists, showPlaylists.                                          *)
SectionAfter(r) ==
  IF r.op = "fetch" THEN mode' = r.query /\ catalog' = r.query ELSE UNCHANGED <<mode, catalog>>

(* renderPlaylistDetail, openPlaylist.                                              *)
DetailAfter(r) ==
  /\ selected' = IF r.op = "delete" THEN NoPayload ELSE IF Selects(r) THEN r.shows ELSE selected
  /\ detail' = (r.op = "get" \/ (detail /\ r.op \notin {"delete", "fetch"}))

ResultsAfter(r) == results' = IF r.op = "search" /\ ForTheLast(r) THEN r.query ELSE results

Took(r) ==
  /\ requests' = (requests \ {r}) \cup Follows(r)
  /\ SectionAfter(r) /\ DetailAfter(r) /\ ResultsAfter(r)
  /\ UNCHANGED <<back, field, timer, query>>

Answered(r) ==
  /\ r.status # "sent"
  /\ IF r.status = "ok" THEN Took(r) ELSE requests' = requests \ {r} /\ UNCHANGED page
  /\ ServerKeeps /\ UNCHANGED asked

-----------------------------------------------------------------------------------
(* What goes wrong, and what changes elsewhere.                                     *)
Trouble == troubles < MaxTroubles /\ troubles' = troubles + 1

Lost(r) ==
  Trouble /\ requests' = requests \ {r} /\ UNCHANGED <<tables, library, page, asked>>

(* Another device of the account.                                                   *)
Elsewhere ==
  /\ Trouble /\ UNCHANGED <<library, requests, page, asked>>
  /\ \E p \in Playlists :
       \/ \E t \in Tracks : Add(p, t) \/ TakeOut(p, t)
       \/ \E s \in {Reverse(Order(pos[p]))} : Reorder(p, s)
       \/ Delete(p)

(* The availability check and the scan: a track goes, comes back, or is deleted,    *)
(* with its rows (ON DELETE CASCADE).                                               *)
Availability(t) ==
  /\ Trouble /\ library[t] # "deleted" /\ UNCHANGED <<tables, requests, page, asked>>
  /\ library' = [library EXCEPT ![t] = IF @ = "here" THEN "offline" ELSE "here"]
TrackDeleted(t) ==
  /\ Trouble /\ library[t] # "deleted" /\ UNCHANGED <<names, requests, page, asked>>
  /\ library' = [library EXCEPT ![t] = "deleted"]
  /\ pos' = [p \in Playlists |-> Left(pos[p], t)]

Next ==
  \/ Clicks \/ Browses
  \/ \E r \in requests : Serve(r) \/ Answered(r) \/ Lost(r)
  \/ Elsewhere \/ \E t \in Tracks : Availability(t) \/ TrackDeleted(t)

Spec == Init /\ [][Next]_vars

-----------------------------------------------------------------------------------
(* A track whose addition is answered is in the playlist, though deleted tracks     *)
(* have left holes in the positions: INSERT OR IGNORE drops none                    *)
(* (music-playlist-service.js:340-358).                                             *)
AddedIsThere ==
  \A r \in requests : r.op = "add" /\ r.status = "ok" => r.track \in ToSet(r.shows.tracks)

(* Whatever the positions, the playlists are sequences of tracks: what is added     *)
(* goes last, what goes leaves the others in order (PlaylistOrder.tla).             *)
Lists == INSTANCE PlaylistOrder WITH
  existing <- {p \in Playlists : Exists(p)}, lists <- [p \in Playlists |-> Order(pos[p])]
KeepsLists == Lists!Spec

(* What the search comes to show is the answer to the last query it made, however   *)
(* late the answers of earlier ones come, or one after the field was emptied; that  *)
(* is what the field holds, unless it was changed less than 220 ms ago              *)
(* (music.js:1320-1371, 1414-1418).                                                 *)
SearchShowsLast ==
  [][results' \notin {results, NoQuery} => results' = query' /\ (timer' \/ query' = field')]_vars

(* The section shown is the one the catalogue in memory is of, and so is the one a  *)
(* search returns to, though a section asked before the search may come during it   *)
(* (music.js:184-203, 1314-1371).                                                   *)
CatalogMatchesMode ==
  LET section == IF mode = "search" THEN back ELSE mode
  IN  section # "home" => catalog = section
===================================================================================
