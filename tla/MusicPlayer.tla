------------------------------- MODULE MusicPlayer -------------------------------
(* The music player of the shell (src/public/js/app-shell.js) with the account the  *)
(* shell shows, and what the server records of a listening                          *)
(* (music-listening-service.js). Everything between two awaits of the page is one   *)
(* action. The events of the audio element come with what causes them; those a      *)
(* load() would drop never come.                                                    *)
(*                                                                                  *)
(* A listening is only told from one that has lasted long enough to count (half a   *)
(* minute, or half of a short track); the position in a track is left out, and that  *)
(* a track was heard to its end, which is counted in the same way.                  *)
EXTENDS PlayQueue, FiniteSets

CONSTANTS
  Accounts,
  MaxSessions,      \* bound: listening sessions the page opens
  MaxChain,         \* bound: reports waiting for each other
  MaxTroubles       \* bound: reports and media URLs lost, logouts, questions who is
                    \* signed in and revocations; what one leads to may be lost too

NoOne == "no one"

ASSUME PlayerAssumption ==
  /\ NoOne \notin Accounts
  /\ {MaxSessions, MaxChain, MaxTroubles} \subseteq Nat

VARIABLES
  player,           \* the state of createPlayerState
  audio,            \* the track of the audio element's src, and whether it plays
  load,             \* the media URL being authorized for the newest musicLoadToken
  listening,        \* the state of createListeningState
  qualified,        \* musicListeningQualifiedSessionId
  pending,          \* musicListeningQualificationPendingSessionId
  chain,            \* musicListeningRequestChain
  blocked,          \* the page shown is one without music
  account,          \* the account the shell shows
  form,             \* a login or logout the server has done, its answer on the way
  me,               \* an answer of /api/auth/me on the way
  bound,            \* the account the server has the device bound to
  sessions,         \* music_playback_sessions
  history,          \* music_listening_history
  opened,           \* how many sessions the page has opened
  troubles

page == <<player, audio, load, listening, qualified, pending>>
login == <<account, form, me>>
server == <<bound, sessions, history>>
vars == <<page, chain, blocked, login, server, opened, troubles>>

NoLoad == [track |-> NoTrack, autoplay |-> FALSE]
NoListening == [session |-> 0, track |-> NoTrack, enough |-> FALSE, playing |-> FALSE]
NoForm == [kind |-> "none", to |-> NoOne]
NoAnswer == "no answer"
Silent == [src |-> NoTrack, playing |-> FALSE]

Init ==
  /\ player = EmptyPlayer /\ audio = Silent /\ load = NoLoad
  /\ listening = NoListening /\ qualified = 0 /\ pending = 0
  /\ chain = <<>> /\ blocked = FALSE
  /\ account \in Accounts /\ bound = account /\ form = NoForm /\ me = NoAnswer
  /\ sessions = <<>>
  /\ history = [a \in Accounts |-> [t \in Tracks |-> 0]]
  /\ opened = 0 /\ troubles = 0

Trouble == troubles < MaxTroubles /\ troubles' = troubles + 1

-----------------------------------------------------------------------------------
(* Listening. A report is sent when the one before it is over; then is what an      *)
(* await of it goes on with.                                                        *)
Report(l, then) ==
  [session |-> l.session, track |-> l.track, enough |-> l.enough, then |-> then,
   answer |-> "none"]

(* reportMusicListening, finishMusicListening.                                      *)
Reports(l, then) ==
  chain' = IF l = NoListening THEN chain ELSE Append(chain, Report(l, then))
Room == Len(chain) < MaxChain

Waiting(then) == {k \in 1..Len(chain) : chain[k].then = then}

(* startMusicListening, while the bound lasts; an awaited next track has a session  *)
(* kept for it.                                                                     *)
Spare == opened + Cardinality(Waiting("play")) < MaxSessions
StartListening(t, playing) ==
  /\ opened' = opened + 1
  /\ listening' = [session |-> opened + 1, track |-> t, enough |-> FALSE, playing |-> playing]
  /\ qualified' = 0 /\ pending' = 0
Kept(l, q, w) == listening' = l /\ qualified' = q /\ pending' = w /\ UNCHANGED opened
SameListening(l) == Kept(l, qualified, pending)

(* The 'play' event: ensureMusicListening of the current track.                     *)
PlayEvent(t) ==
  IF listening.track = t
  THEN SameListening([listening EXCEPT !.playing = TRUE])
  ELSE Spare /\ StartListening(t, TRUE)

(* playCurrentMusicTrack for the player p.                                          *)
Fresh(p, replay) == replay \/ listening.track # CurrentTrack(p)
PlayCurrent(p, autoplay, replay) ==
  LET again == replay /\ audio.src # NoTrack
      plays == audio.playing \/ (autoplay /\ ~blocked)
  IN  /\ IF again
         THEN audio' = [audio EXCEPT !.playing = plays] /\ UNCHANGED load
         ELSE audio' = Silent /\ load' = [track |-> CurrentTrack(p), autoplay |-> autoplay]
      /\ Fresh(p, replay) => StartListening(CurrentTrack(p), again /\ plays)

(* The same for a click: the listening that ends is reported.                       *)
PlayNow(p, autoplay, replay) ==
  /\ Spare /\ Room
  /\ player' = p
  /\ PlayCurrent(p, autoplay, replay)
  /\ IF Fresh(p, replay) THEN Reports(listening, "none")
     ELSE UNCHANGED chain /\ SameListening(listening)

StopAudio == audio' = Silent /\ load' = NoLoad

-----------------------------------------------------------------------------------
(* What the listener does.                                                          *)
HasMusic == account # NoOne
UserKeeps == UNCHANGED <<blocked, login, server, troubles>>

(* musicPlayQueue.                                                                  *)
Lists == UNION {{s \in [1..n -> Tracks] : \A i, j \in 1..n : s[i] = s[j] => i = j} :
                  n \in 1..Cardinality(Tracks)}
PlayQueue ==
  /\ HasMusic /\ UserKeeps
  /\ \E tracks \in Lists :
       \E i \in DOMAIN tracks, o \in Orders(Len(tracks)) :
         /\ IF player.mode = "shuffle" THEN o[1] = i ELSE o = Natural(Len(tracks))
         /\ PlayNow(SetQueue(player, tracks, tracks[i], o), TRUE, FALSE)

Select ==
  /\ HasMusic /\ UserKeeps
  /\ \E t \in Queued(player) :
       PlayNow(SelectTrack(player, t), TRUE, PositionOf(player, t) = player.position)

(* appendMusicQueue.                                                                *)
AddToQueue ==
  /\ HasMusic /\ UserKeeps
  /\ \E t \in Tracks \ Queued(player) : player' = AppendTrack(player, t)
  /\ UNCHANGED <<audio, load, listening, qualified, pending, chain, opened>>

(* moveMusicQueueTrack.                                                             *)
Move ==
  /\ HasMusic /\ UserKeeps
  /\ \E t \in Queued(player), to \in 1..Size(player) : player' = MoveTrack(player, t, to)
  /\ UNCHANGED <<audio, load, listening, qualified, pending, chain, opened>>

(* musicCycleMode.                                                                  *)
CycleMode ==
  /\ HasMusic /\ UserKeeps /\ CurrentTrack(player) # NoTrack
  /\ \E o \in Shuffled(player, CurrentIndex(player)) :
       player' = SetMode(player, NextMode(player.mode), o)
  /\ UNCHANGED <<audio, load, listening, qualified, pending, chain, opened>>

(* What removeMusicQueueTrack and clearMusicQueue go on with, once the listening    *)
(* they end has been reported; it leaves q qualified and w pending.                 *)
Goes(then, p, q, w) ==
  LET plays == then = "play" /\ CurrentTrack(p) # NoTrack
      starts == plays /\ Fresh(p, FALSE)
  IN  /\ player' = IF then = "clear" THEN ClearQueue(p) ELSE p
      /\ IF plays THEN PlayCurrent(p, TRUE, FALSE)
         ELSE IF then \in {"stop", "clear"} THEN StopAudio
         ELSE UNCHANGED <<audio, load>>
      /\ ~starts => Kept(listening, q, w)

Remove(t) ==
  /\ HasMusic /\ UserKeeps /\ t \in Queued(player)
  /\ LET p == RemoveTrack(player, t)
     IN  IF t # CurrentTrack(player)
         THEN /\ player' = p
              /\ UNCHANGED <<audio, load, listening, qualified, pending, chain, opened>>
         ELSE LET then == IF p.queue = <<>> THEN "stop" ELSE "play"
              IN  /\ then = "play" => Spare
                  /\ IF listening = NoListening
                     THEN Goes(then, p, qualified, pending) /\ UNCHANGED chain
                     ELSE /\ Room /\ player' = p /\ Reports(listening, then)
                          /\ SameListening(NoListening) /\ UNCHANGED <<audio, load>>

Clear ==
  /\ HasMusic /\ UserKeeps /\ player.queue # <<>>
  /\ IF listening = NoListening
     THEN Goes("clear", player, qualified, pending) /\ UNCHANGED chain
     ELSE /\ Room /\ Reports(listening, "clear")
          /\ SameListening(NoListening) /\ UNCHANGED <<player, audio, load>>

(* The 'pause' event.                                                               *)
PauseEvent ==
  /\ Room /\ Reports([listening EXCEPT !.playing = FALSE], "none")
  /\ SameListening([listening EXCEPT !.playing = FALSE])

(* musicTogglePlayback.                                                             *)
TogglePlayback ==
  /\ HasMusic /\ UserKeeps /\ CurrentTrack(player) # NoTrack /\ ~blocked
  /\ \/ ~audio.playing /\ audio.src = NoTrack /\ PlayNow(player, TRUE, FALSE)
     \/ /\ ~audio.playing /\ audio.src # NoTrack
        /\ audio' = [audio EXCEPT !.playing = TRUE] /\ PlayEvent(CurrentTrack(player))
        /\ UNCHANGED <<player, load, chain>>
     \/ /\ audio.playing
        /\ audio' = [audio EXCEPT !.playing = FALSE] /\ PauseEvent
        /\ UNCHANGED <<player, load>>

(* restartCurrentMusicTrack.                                                        *)
Restart ==
  /\ Spare /\ Room /\ Reports(listening, "none")
  /\ StartListening(CurrentTrack(player), audio.playing)
  /\ UNCHANGED <<player, audio, load>>

(* musicPrevious, after the first three seconds of a track or before.               *)
Previous ==
  /\ HasMusic /\ UserKeeps /\ CurrentTrack(player) # NoTrack
  /\ \/ Restart
     \/ /\ PreviousPosition(player) # player.position
        /\ PlayNow([player EXCEPT !.position = PreviousPosition(player)], audio.playing, FALSE)

(* musicNext by a click.                                                            *)
NextTrack ==
  /\ HasMusic /\ UserKeeps /\ CurrentTrack(player) # NoTrack
  /\ IF NextPosition(player, FALSE) # 0
     THEN PlayNow([player EXCEPT !.position = NextPosition(player, FALSE)], audio.playing, FALSE)
     ELSE /\ audio.playing /\ audio' = [audio EXCEPT !.playing = FALSE] /\ PauseEvent
          /\ UNCHANGED <<player, load>>

(* setPage: onto a page of films or series, which are without music, or off it.     *)
TurnPage == blocked' = ~blocked

(* applyMusicPagePolicy.                                                            *)
PagePolicy ==
  /\ TurnPage
  /\ IF ~blocked /\ audio.playing
     THEN /\ audio' = [audio EXCEPT !.playing = FALSE] /\ PauseEvent
          /\ UNCHANGED <<player, load>>
     ELSE UNCHANGED <<page, chain, opened>>

OpenPage == HasMusic /\ PagePolicy /\ UNCHANGED <<login, server, troubles>>

-----------------------------------------------------------------------------------
(* What the page does by itself.                                                    *)
PageKeeps == UNCHANGED <<blocked, login, server>>

\* Mutant: the track the address was asked for need not be the current one any more.
LoadedAnyway == load # NoLoad

LoadWanted == load # NoLoad /\ load.track = CurrentTrack(player)

(* playCurrentMusicTrack after authorizeMediaUrl.                                   *)
Loaded ==
  /\ load # NoLoad /\ PageKeeps
  /\ IF ~LoadWanted THEN UNCHANGED <<audio, listening, qualified, pending, opened>>
     ELSE LET plays == load.autoplay /\ ~blocked
          IN  /\ audio' = [src |-> load.track, playing |-> plays]
              /\ IF plays THEN PlayEvent(load.track) ELSE SameListening(listening)
  /\ load' = NoLoad
  /\ UNCHANGED <<player, chain, troubles>>

LoadFails ==
  /\ load # NoLoad /\ Trouble /\ PageKeeps
  /\ load' = NoLoad
  /\ UNCHANGED <<player, audio, listening, qualified, pending, chain, opened>>

(* 'timeupdate', once the listening has lasted: sample and                          *)
(* maybeReportMusicQualification.                                                   *)
TimeUpdate ==
  /\ audio.playing /\ listening.playing /\ PageKeeps
  /\ listening' = [listening EXCEPT !.enough = TRUE]
  /\ IF listening.session \in {qualified, pending}
     THEN ~listening.enough /\ UNCHANGED <<pending, chain>>
     ELSE Room /\ pending' = listening.session /\ Reports(listening', "none")
  /\ UNCHANGED <<player, audio, load, qualified, opened, troubles>>

(* The report of every fifteen seconds, and of 'seeked'.                            *)
Checkpoint ==
  /\ listening # NoListening /\ Room /\ PageKeeps
  /\ Reports(listening, "none")
  /\ UNCHANGED <<page, opened, troubles>>

(* 'ended', and musicNext.                                                          *)
Ended ==
  /\ audio.playing /\ Room /\ PageKeeps
  /\ Reports(listening, "none")
  /\ LET to == NextPosition(player, TRUE)
         p == [player EXCEPT !.position = to]
     IN  IF player.position = 0 \/ to = 0
         THEN /\ audio' = [audio EXCEPT !.playing = FALSE]
              /\ SameListening(NoListening) /\ UNCHANGED <<player, load>>
         ELSE /\ Spare /\ player' = p
              /\ LET again == player.mode = "repeat-one"
                 IN  /\ IF again
                        THEN audio' = [audio EXCEPT !.playing = ~blocked] /\ UNCHANGED load
                        ELSE audio' = Silent /\ load' = [track |-> CurrentTrack(p), autoplay |-> TRUE]
                     /\ StartListening(CurrentTrack(p), again /\ ~blocked)
  /\ UNCHANGED troubles

-----------------------------------------------------------------------------------
(* The server: recordMusicListening in its transaction, for the account the device  *)
(* is bound to.                                                                     *)
\* Mutant: a session that had counted counts again.
CountsAgain(was, is) == is

Counts(was, is) == ~was /\ is

Known(s) == s \in DOMAIN sessions
Conflict(r) == Known(r.session) /\ sessions[r.session].account # bound

Record(r) ==
  LET was == IF Known(r.session) THEN sessions[r.session]
             ELSE [account |-> bound, track |-> r.track, qualified |-> FALSE]
      now == [was EXCEPT !.qualified = @ \/ r.enough]
  IN  /\ sessions' = [s \in DOMAIN sessions \cup {r.session} |->
                        IF s = r.session THEN now ELSE sessions[s]]
      /\ history' = [history EXCEPT ![bound][r.track] =
                       IF Counts(was.qualified, now.qualified) THEN @ + 1 ELSE @]
      /\ chain' = [chain EXCEPT ![1].answer = IF now.qualified THEN "qualified" ELSE "recorded"]

Serve ==
  /\ chain # <<>> /\ Head(chain).answer = "none"
  /\ \/ bound # NoOne /\ ~Conflict(Head(chain)) /\ Record(Head(chain))
     \/ /\ bound = NoOne \/ Conflict(Head(chain))
        /\ chain' = [chain EXCEPT ![1].answer = IF bound = NoOne THEN "401" ELSE "409"]
        /\ UNCHANGED <<sessions, history>>
  /\ UNCHANGED <<page, blocked, login, bound, opened, troubles>>

\* Mutant: only an answer says that the report is not pending any more.
PendingUntilAnswered(r, answer) ==
  IF pending = r.session /\ answer # "lost" THEN 0 ELSE pending

(* The end of reportMusicListening, whatever became of the request.                 *)
PendingAfter(r, answer) == IF pending = r.session THEN 0 ELSE pending

(* The state of the page after enterSignedOutState: resetMusicForAccountChange and  *)
(* the pages gone. The address being authorized is not forgotten.                   *)
ResetMusic ==
  /\ player' = ClearQueue(player) /\ audio' = Silent
  /\ listening' = NoListening /\ qualified' = 0 /\ pending' = 0
  /\ UNCHANGED <<load, opened>>
SignedOut == account' = NoOne /\ ResetMusic

Over(answer) ==
  LET r == Head(chain)
  IN  /\ chain' = Tail(chain)
      /\ IF answer = "401" THEN SignedOut
         ELSE /\ UNCHANGED account
              /\ Goes(r.then, player, IF answer = "qualified" THEN r.session ELSE qualified,
                      PendingAfter(r, answer))
      /\ UNCHANGED <<blocked, form, me, server>>

Answered ==
  /\ chain # <<>> /\ Head(chain).answer # "none"
  /\ Over(Head(chain).answer) /\ UNCHANGED troubles

(* The request never arrives, or its answer.                                        *)
RequestLost == chain # <<>> /\ Trouble /\ Over("lost")

-----------------------------------------------------------------------------------
(* Who is signed in.                                                                *)
ServedSwitch == UNCHANGED <<page, chain, blocked, account, sessions, history, opened>>

(* loginAccount and logoutAccount, as far as the server.                            *)
LogIn ==
  /\ account = NoOne /\ form = NoForm /\ ServedSwitch /\ UNCHANGED <<me, troubles>>
  /\ \E a \in Accounts : bound' = a /\ form' = [kind |-> "login", to |-> a]
LogOut ==
  /\ account # NoOne /\ form = NoForm /\ Trouble /\ ServedSwitch /\ UNCHANGED me
  /\ bound' = NoOne /\ form' = [kind |-> "logout", to |-> NoOne]

(* refreshAccountState: one request at a time.                                      *)
AskWho == me = NoAnswer /\ Trouble /\ ServedSwitch /\ me' = bound /\ UNCHANGED <<form, bound>>

(* An admin revokes the device's session.                                           *)
Revoked ==
  /\ bound # NoOne /\ Trouble /\ ServedSwitch
  /\ bound' = NoOne /\ UNCHANGED <<form, me>>

(* enterAuthenticatedState, and the page it opens; enterSignedOutState.             *)
Enters(a) ==
  /\ account' = a
  /\ IF account \notin {NoOne, a} THEN ResetMusic ELSE UNCHANGED <<page, opened>>
  /\ IF account = NoOne THEN blocked' \in BOOLEAN ELSE UNCHANGED blocked
Shows(a) == IF a = NoOne THEN SignedOut /\ UNCHANGED blocked ELSE Enters(a)

FormAnswered ==
  /\ form # NoForm /\ form' = NoForm /\ Shows(form.to)
  /\ UNCHANGED <<chain, me, server, troubles>>
FormLost ==
  /\ form # NoForm /\ form' = NoForm
  /\ UNCHANGED <<page, chain, blocked, account, me, server, opened, troubles>>
WhoAnswered ==
  /\ me # NoAnswer /\ me' = NoAnswer /\ Shows(me)
  /\ UNCHANGED <<chain, form, server, troubles>>
(* Without an answer the shell shows the gate (enterDeviceSetupState).              *)
WhoLost ==
  /\ me # NoAnswer /\ me' = NoAnswer /\ Shows(NoOne)
  /\ UNCHANGED <<chain, form, server, troubles>>

Next ==
  \/ PlayQueue \/ Select \/ AddToQueue \/ Move \/ CycleMode
  \/ (\E t \in Tracks : Remove(t)) \/ Clear
  \/ TogglePlayback \/ Previous \/ NextTrack \/ OpenPage
  \/ Loaded \/ LoadFails \/ TimeUpdate \/ Checkpoint \/ Ended
  \/ Serve \/ Answered \/ RequestLost
  \/ LogIn \/ LogOut \/ AskWho \/ Revoked
  \/ FormAnswered \/ FormLost \/ WhoAnswered \/ WhoLost

Spec == Init /\ [][Next]_vars

-----------------------------------------------------------------------------------
TypeOK ==
  /\ PlayerOK(player)
  /\ audio.src \in Tracks \cup {NoTrack} /\ (audio.playing => audio.src # NoTrack)
  /\ listening.session \in 0..opened /\ opened \in 0..MaxSessions
  /\ {qualified, pending} \subseteq {0, listening.session} \cup 1..opened
  /\ account \in Accounts \cup {NoOne} /\ bound \in Accounts \cup {NoOne}

(* However often, late or out of turn a listening is reported, and whoever signs in *)
(* in between, a track's counts are those of its sessions that lasted, each once    *)
(* (music-listening-service.js:127-206).                                            *)
PlaysCounted ==
  \A a \in Accounts, t \in Tracks :
    history[a][t] = Cardinality({s \in DOMAIN sessions :
                       sessions[s] = [account |-> a, track |-> t, qualified |-> TRUE]})

(* What is loaded is the current track, unless a removal waits for its report;      *)
(* nothing plays on a page without music, or without an account: an address that    *)
(* comes late starts nothing (app-shell.js:908-913, 602-613, 1210-1222).            *)
AudioFollowsShell ==
  /\ audio.src # NoTrack /\ Waiting("play") \cup Waiting("stop") = {} =>
       audio.src = CurrentTrack(player)
  /\ blocked \/ account = NoOne => ~audio.playing

(* A listening held to be reported is on its way, and one held to be counted is     *)
(* counted: a report that is lost is made again at the next 'timeupdate'            *)
(* (app-shell.js:251-300).                                                          *)
QualifiedIsCounted ==
  /\ pending # 0 => \E k \in 1..Len(chain) : chain[k].session = pending /\ chain[k].enough
  /\ qualified # 0 => qualified \in DOMAIN sessions /\ sessions[qualified].qualified
===================================================================================
