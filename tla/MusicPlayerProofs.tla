---------------------------- MODULE MusicPlayerProofs ----------------------------
(* Theorems about MusicPlayer, for any tracks, accounts, number of sessions, length  *)
(* of the chain of reports and number of troubles:                                   *)
(*   - the queue, its order and its position stay a player's, and no step leaves a   *)
(*     malformed page (TypeCorrect);                                                 *)
(*   - what is loaded is the current track, and nothing plays without an account or  *)
(*     on a page without music (AudioFollows);                                       *)
(*   - a track's plays are those of its sessions that lasted (PlaysAreCounted), and  *)
(*     a listening held to be counted is (QualifiedAreCounted).                      *)
(*                                                                                   *)
(* Four parts: the operators of PlayQueue each turn a player into a player and keep  *)
(* the track that plays where the code means to; Shell, the invariant of what is     *)
(* shown and heard, action by action; Talks and Ends, to which every action comes    *)
(* down as far as listenings are concerned; and Counting, the invariant of what is   *)
(* reported and recorded, over those two and Serve.                                  *)
EXTENDS MusicPlayer, FiniteSetTheorems, TLAPS

-----------------------------------------------------------------------------------
\* A player with nothing but its four fields, and a sound one.
Whole(p) == p = [queue |-> p.queue, order |-> p.order, position |-> p.position, mode |-> p.mode]
Player(p) == Whole(p) /\ PlayerOK(p)
\* An order of the indexes names every one of them.
LEMMA OrdersOnto ==
  ASSUME NEW n \in Nat, NEW o \in Orders(n), NEW i \in 1..n
  PROVE  \E k \in 1..n : o[k] = i
<1>1. o \in Injection(1..n, 1..n)
  BY DEF Orders, Injection, IsInjective
<1>2. IsFiniteSet(1..n)
  BY FS_Interval
<1>3. o \in Surjection(1..n, 1..n)
  BY <1>1, <1>2, FS_Injection
<1> QED
  BY <1>3 DEF Surjection

\* What it is to be an order.
LEMMA OrderTyped ==
  ASSUME NEW n \in Nat, NEW o \in Orders(n)
  PROVE  /\ o \in [1..n -> 1..n] /\ DOMAIN o = 1..n
         /\ \A k \in 1..n : o[k] \in 1..n
         /\ \A i, j \in 1..n : o[i] = o[j] => i = j
BY DEF Orders

\* The order the tracks were queued in is one.
LEMMA NaturalOrders ==
  ASSUME NEW n \in Nat
  PROVE  /\ Natural(n) \in Orders(n)
         /\ \A k \in 1..n : Natural(n)[k] = k
BY DEF Natural, Orders

\* What can be relied on of a player.
LEMMA PlayerShape ==
  ASSUME NEW p, Player(p)
  PROVE  /\ Size(p) \in Nat /\ Size(p) = Len(p.queue)
         /\ p.queue \in Seq(Tracks) /\ p.queue \in [1..Size(p) -> Tracks]
         /\ p.order \in Orders(Size(p))
         /\ \A k \in 1..Size(p) : p.order[k] \in 1..Size(p)
         /\ \A i, j \in 1..Size(p) : p.order[i] = p.order[j] => i = j
         /\ \A i, j \in 1..Size(p) : p.queue[i] = p.queue[j] => i = j
         /\ \A i \in 1..Size(p) : \E k \in 1..Size(p) : p.order[k] = i
         /\ p.position \in 0..Size(p)
         /\ p.position = 0 <=> p.queue = <<>>
         /\ p.position = 0 <=> Size(p) = 0
<1>1. p.queue \in Seq(Tracks) /\ Size(p) = Len(p.queue) /\ Size(p) \in Nat
  BY DEF Player, PlayerOK, Size
<1>2. p.queue \in [1..Size(p) -> Tracks]
  BY <1>1
<1>3. p.order \in Orders(Size(p))
  BY DEF Player, PlayerOK
<1>4. \A i \in 1..Size(p) : \E k \in 1..Size(p) : p.order[k] = i
  BY <1>1, <1>3, OrdersOnto
<1>5. Size(p) = 0 <=> p.queue = <<>>
  BY <1>1
<1>6. /\ \A k \in 1..Size(p) : p.order[k] \in 1..Size(p)
      /\ \A i, j \in 1..Size(p) : p.order[i] = p.order[j] => i = j
  BY <1>1, <1>3, OrderTyped
<1>7. /\ \A i, j \in 1..Size(p) : p.queue[i] = p.queue[j] => i = j
      /\ p.position \in 0..Size(p)
      /\ p.position = 0 <=> p.queue = <<>>
  BY DEF Player, PlayerOK
<1> QED
  BY <1>1, <1>2, <1>3, <1>4, <1>5, <1>6, <1>7

\* A player that stands somewhere has a current track, one of its queue.
LEMMA CurrentFound ==
  ASSUME NEW p, Player(p)
  PROVE  /\ CurrentTrack(p) = NoTrack <=> p.position = 0
         /\ CurrentTrack(p) = NoTrack <=> p.queue = <<>>
         /\ p.position # 0 =>
              /\ CurrentIndex(p) \in 1..Size(p) /\ CurrentIndex(p) = p.order[p.position]
              /\ CurrentTrack(p) = p.queue[CurrentIndex(p)]
              /\ CurrentTrack(p) \in Tracks /\ CurrentTrack(p) \in Queued(p)
<1>1. p.position # 0 => p.position \in 1..Size(p)
  BY PlayerShape
<1>2. p.position # 0 => /\ CurrentIndex(p) \in 1..Size(p) /\ CurrentIndex(p) = p.order[p.position]
                        /\ CurrentTrack(p) = p.queue[CurrentIndex(p)]
  BY <1>1, PlayerShape DEF CurrentIndex, CurrentTrack
<1>3. p.position # 0 => CurrentTrack(p) \in Tracks /\ CurrentTrack(p) \in Queued(p)
  BY <1>2, PlayerShape DEF Queued
<1>4. p.position = 0 => CurrentTrack(p) = NoTrack
  BY DEF CurrentTrack
<1> QED
  BY <1>2, <1>3, <1>4, PlayerShape, TracksAssumption

\* A queued track has one index and one position.
LEMMA PositionFound ==
  ASSUME NEW p, Player(p), NEW t \in Queued(p)
  PROVE  /\ IndexOf(p, t) \in 1..Size(p) /\ p.queue[IndexOf(p, t)] = t
         /\ PositionOf(p, t) \in 1..Size(p)
         /\ p.order[PositionOf(p, t)] = IndexOf(p, t)
         /\ t \in Tracks
<1>1. \E i \in 1..Size(p) : p.queue[i] = t
  BY DEF Queued
<1>2. IndexOf(p, t) \in 1..Size(p) /\ p.queue[IndexOf(p, t)] = t
  BY <1>1 DEF IndexOf
<1>3. \A k \in 1..Size(p) : View(p)[k] = p.queue[p.order[k]]
  BY DEF View
<1>4. \E k \in 1..Size(p) : View(p)[k] = t
  BY <1>2, <1>3, PlayerShape
<1>5. PositionOf(p, t) \in 1..Size(p) /\ View(p)[PositionOf(p, t)] = t
  BY <1>4 DEF PositionOf
<1>6. p.order[PositionOf(p, t)] = IndexOf(p, t)
  <2>1. p.queue[p.order[PositionOf(p, t)]] = p.queue[IndexOf(p, t)]
    BY <1>2, <1>3, <1>5
  <2>2. p.order[PositionOf(p, t)] \in 1..Size(p)
    BY <1>5, PlayerShape
  <2>3. \A i, j \in 1..Size(p) : p.queue[i] = p.queue[j] => i = j
    BY PlayerShape
  <2> QED
    BY <1>2, <2>1, <2>2, <2>3
<1> QED
  BY <1>2, <1>5, <1>6, PlayerShape

\* The current track is the one at the position.
LEMMA CurrentPosition ==
  ASSUME NEW p, Player(p), NEW t \in Queued(p)
  PROVE  CurrentTrack(p) = t <=> p.position = PositionOf(p, t)
<1>1. p.position \in 1..Size(p)
  BY PositionFound, PlayerShape, SMTT(30)
<1>2. CurrentTrack(p) = p.queue[p.order[p.position]]
  BY <1>1, CurrentFound
<1>3. /\ PositionOf(p, t) \in 1..Size(p)
      /\ p.queue[p.order[PositionOf(p, t)]] = t
  BY PositionFound
<1>4. p.order[p.position] \in 1..Size(p) /\ p.order[PositionOf(p, t)] \in 1..Size(p)
  BY <1>1, <1>3, PlayerShape
<1>5. CurrentTrack(p) = t => p.order[p.position] = p.order[PositionOf(p, t)]
  <2>1. \A i, j \in 1..Size(p) : p.queue[i] = p.queue[j] => i = j
    BY PlayerShape
  <2>2. ASSUME CurrentTrack(p) = t
        PROVE  p.queue[p.order[p.position]] = p.queue[p.order[PositionOf(p, t)]]
    BY <1>2, <1>3, <2>2
  <2> QED
    BY <1>4, <2>1, <2>2
<1>6. CurrentTrack(p) = t => p.position = PositionOf(p, t)
  BY <1>1, <1>3, <1>5, PlayerShape
<1> QED
  BY <1>2, <1>3, <1>6

\* The four modes.
LEMMA ModesListed ==
  {Modes[m] : m \in 1..4} = {"normal", "shuffle", "repeat", "repeat-one"}
<1>1. /\ Modes[1] = "normal" /\ Modes[2] = "shuffle"
      /\ Modes[3] = "repeat" /\ Modes[4] = "repeat-one"
  BY DEF Modes
<1>2. 1..4 = {1, 2, 3, 4}
  OBVIOUS
<1> QED
  BY <1>1, <1>2

\* What makes a player.
LEMMA PlayerBuilt ==
  ASSUME NEW q \in Seq(Tracks), NEW o \in Orders(Len(q)), NEW k \in 0..Len(q), NEW m,
         \A i, j \in 1..Len(q) : q[i] = q[j] => i = j,
         k = 0 <=> q = <<>>, m \in {Modes[x] : x \in 1..4}
  PROVE  Player([queue |-> q, order |-> o, position |-> k, mode |-> m])
<1> DEFINE p == [queue |-> q, order |-> o, position |-> k, mode |-> m]
<1>1. p.queue = q /\ p.order = o /\ p.position = k /\ p.mode = m
  OBVIOUS
<1>2. Whole(p)
  BY <1>1 DEF Whole
<1>3. Size(p) = Len(q)
  BY <1>1 DEF Size
<1> HIDE DEF p
<1>4. PlayerOK(p)
  BY <1>1, <1>3 DEF PlayerOK
<1> QED
  BY <1>2, <1>4 DEF Player, p

\* A queue without tracks is one, in every mode.
LEMMA NoTracksOK ==
  ASSUME NEW m \in {Modes[x] : x \in 1..4}
  PROVE  Player([queue |-> <<>>, order |-> <<>>, position |-> 0, mode |-> m])
<1>1. <<>> \in Seq(Tracks)
  OBVIOUS
<1>2. Len(<<>>) = 0 /\ 0 \in 0..Len(<<>>) /\ 1..Len(<<>>) = {}
  OBVIOUS
<1>3. <<>> \in Orders(Len(<<>>))
  BY <1>2 DEF Orders
<1>4. \A i, j \in 1..Len(<<>>) : <<>>[i] = <<>>[j] => i = j
  BY <1>2
<1> QED
  BY <1>1, <1>2, <1>3, <1>4, PlayerBuilt

\* createPlayerState starts with a player ...
LEMMA EmptyPlayerOK == Player(EmptyPlayer) /\ EmptyPlayer.queue = <<>>
<1>1. "normal" \in {Modes[m] : m \in 1..4}
  BY ModesListed
<1> QED
  BY <1>1, NoTracksOK DEF EmptyPlayer

\* ... and clearing leaves one (music-player-state.js clear).
LEMMA ClearQueueOK ==
  ASSUME NEW p, Player(p)
  PROVE  Player(ClearQueue(p)) /\ ClearQueue(p).queue = <<>>
<1>1. ClearQueue(p) = [queue |-> <<>>, order |-> <<>>, position |-> 0, mode |-> p.mode]
  BY DEF ClearQueue, EmptyPlayer
<1>2. p.mode \in {Modes[m] : m \in 1..4}
  BY DEF Player, PlayerOK
<1> QED
  BY <1>1, <1>2, NoTracksOK

\* Going to a position leaves a player with a current track.
LEMMA PositionedOK ==
  ASSUME NEW p, Player(p), NEW k \in 1..Size(p)
  PROVE  /\ Player([p EXCEPT !.position = k])
         /\ [p EXCEPT !.position = k].queue = p.queue
         /\ [p EXCEPT !.position = k].position = k
         /\ [p EXCEPT !.position = k].mode = p.mode
         /\ CurrentTrack([p EXCEPT !.position = k]) \in Tracks
         /\ k = p.position => [p EXCEPT !.position = k] = p
<1> DEFINE n == [p EXCEPT !.position = k]
<1>1. n = [queue |-> p.queue, order |-> p.order, position |-> k, mode |-> p.mode]
  BY DEF Player, Whole
<1>2. n.queue = p.queue /\ n.position = k /\ n.mode = p.mode
  BY <1>1
<1>3. k = p.position => n = p
  BY <1>1 DEF Player, Whole
<1>4. k \in 0..Len(p.queue) /\ k # 0 /\ p.queue # <<>>
  BY PlayerShape
<1>5. /\ p.queue \in Seq(Tracks) /\ p.order \in Orders(Len(p.queue))
      /\ \A i, j \in 1..Len(p.queue) : p.queue[i] = p.queue[j] => i = j
      /\ p.mode \in {Modes[x] : x \in 1..4}
  BY DEF Player, PlayerOK, Size
<1>6. Player([queue |-> p.queue, order |-> p.order, position |-> k, mode |-> p.mode])
  BY <1>4, <1>5, PlayerBuilt
<1>7. Player(n)
  BY <1>1, <1>6
<1> HIDE DEF n
<1>8. CurrentTrack(n) \in Tracks
  BY <1>2, <1>4, <1>7, CurrentFound
<1> QED
  BY <1>2, <1>3, <1>7, <1>8 DEF n

\* A player given another queue, order and position.
LEMMA Requeued ==
  ASSUME NEW p, Whole(p), NEW q, NEW o, NEW k
  PROVE  [p EXCEPT !.queue = q, !.order = o, !.position = k]
           = [queue |-> q, order |-> o, position |-> k, mode |-> p.mode]
<1>1. PICK a, b, c, m : p = [queue |-> a, order |-> b, position |-> c, mode |-> m]
  BY DEF Whole
<1>2. p.mode = m
  BY <1>1
<1>3. ASSUME NEW r, r = [p EXCEPT !.queue = q, !.order = o, !.position = k]
      PROVE  r = [queue |-> q, order |-> o, position |-> k, mode |-> m]
  BY <1>1, <1>3
<1> QED
  BY <1>2, <1>3

\* setMode leaves a player, with the same current track.
LEMMA SetModeOK ==
  ASSUME NEW p, Player(p), p.position # 0, NEW mode \in {Modes[x] : x \in 1..4},
         NEW o \in Shuffled(p, CurrentIndex(p))
  PROVE  /\ Player(SetMode(p, mode, o))
         /\ SetMode(p, mode, o).queue = p.queue
         /\ CurrentTrack(SetMode(p, mode, o)) = CurrentTrack(p)
<1> DEFINE n == SetMode(p, mode, o)
           i == CurrentIndex(p)
<1>1. /\ i \in 1..Size(p) /\ CurrentTrack(p) = p.queue[i]
      /\ Size(p) \in Nat /\ Size(p) = Len(p.queue) /\ p.queue # <<>>
  BY CurrentFound, PlayerShape
<1>2. /\ p.queue \in Seq(Tracks)
      /\ \A x, y \in 1..Len(p.queue) : p.queue[x] = p.queue[y] => x = y
  BY DEF Player, PlayerOK, Size
<1>0. PICK q, a, k, m : p = [queue |-> q, order |-> a, position |-> k, mode |-> m]
  BY DEF Player, Whole
<1>3. CASE mode = "shuffle"
  <2>0. Rebuilt(p, mode, o) = [queue |-> q, order |-> o, position |-> 1, mode |-> m]
    BY <1>0, <1>3 DEF Rebuilt
  <2>1. n = [queue |-> p.queue, order |-> o, position |-> 1, mode |-> mode]
    BY <1>0, <2>0 DEF SetMode
  <2>2. o \in Orders(Size(p)) /\ o[1] = i
    BY DEF Shuffled
  <2>3. 1 \in 0..Len(p.queue) /\ 1 # 0
    BY <1>1
  <2>4. Player([queue |-> p.queue, order |-> o, position |-> 1, mode |-> mode])
    BY <1>1, <1>2, <2>2, <2>3, PlayerBuilt
  <2>5. CurrentTrack(n) = p.queue[i]
    BY <2>1, <2>2 DEF CurrentTrack, CurrentIndex
  <2> QED
    BY <1>1, <2>1, <2>4, <2>5
<1>4. CASE mode # "shuffle"
  <2> DEFINE nat == Natural(Size(p))
  <2>0. Rebuilt(p, mode, o) = [queue |-> q, order |-> nat, position |-> i, mode |-> m]
    BY <1>0, <1>4 DEF Rebuilt
  <2>1. n = [queue |-> p.queue, order |-> nat, position |-> i, mode |-> mode]
    BY <1>0, <2>0 DEF SetMode
  <2>2. nat \in Orders(Size(p)) /\ nat[i] = i
    BY <1>1, NaturalOrders
  <2>3. i \in 0..Len(p.queue) /\ i # 0
    BY <1>1
  <2> HIDE DEF nat, i
  <2>4. Player([queue |-> p.queue, order |-> nat, position |-> i, mode |-> mode])
    BY <1>1, <1>2, <2>2, <2>3, PlayerBuilt
  <2>5. CurrentTrack(n) = p.queue[i]
    BY <2>1, <2>2, <2>3 DEF CurrentTrack, CurrentIndex
  <2> QED
    BY <1>1, <2>1, <2>4, <2>5 DEF i
<1> QED
  BY <1>3, <1>4

\* setQueue leaves a player with a current track.
LEMMA SetQueueOK ==
  ASSUME NEW p, Player(p), NEW n \in Nat, NEW tracks \in [1..n -> Tracks],
         \A x, y \in 1..n : tracks[x] = tracks[y] => x = y,
         NEW i \in 1..n, NEW o \in Orders(n), p.mode = "shuffle" => o[1] = i
  PROVE  /\ Player(SetQueue(p, tracks, tracks[i], o))
         /\ CurrentTrack(SetQueue(p, tracks, tracks[i], o)) \in Tracks
         /\ SetQueue(p, tracks, tracks[i], o).queue # <<>>
<1> DEFINE first == CHOOSE x \in 1..Len(tracks) : tracks[x] = tracks[i]
           nat == Natural(Len(tracks))
           new == [queue |-> tracks, order |-> nat, position |-> first, mode |-> p.mode]
           r == SetQueue(p, tracks, tracks[i], o)
<1>1. tracks \in Seq(Tracks) /\ Len(tracks) = n /\ tracks # <<>>
  OBVIOUS
<1>2. first = i
  BY <1>1
<1>3. nat \in Orders(n)
  BY <1>1, NaturalOrders
<1>4. p.mode \in {Modes[x] : x \in 1..4}
  BY DEF Player, PlayerOK
<1>5. r = IF p.mode = "shuffle" THEN Rebuilt(new, "shuffle", o) ELSE new
  <2> HIDE DEF first, nat
  <2>1. [p EXCEPT !.queue = tracks, !.order = nat, !.position = first] = new
    BY Requeued DEF Player
  <2> USE DEF first, nat
  <2> QED
    BY <2>1 DEF SetQueue
<1>6. \A x, y \in 1..Len(tracks) : tracks[x] = tracks[y] => x = y
  BY <1>1
<1> HIDE DEF first, nat
<1>7. CASE p.mode = "shuffle"
  <2>1. r = [queue |-> tracks, order |-> o, position |-> 1, mode |-> p.mode]
    BY <1>5, <1>7 DEF Rebuilt
  <2>2. 1 \in 0..Len(tracks) /\ 1 # 0
    BY <1>1
  <2>3. Player([queue |-> tracks, order |-> o, position |-> 1, mode |-> p.mode])
    BY <1>1, <1>4, <1>6, <2>2, PlayerBuilt
  <2>4. Player(r) /\ r.position # 0 /\ r.queue # <<>>
    BY <1>1, <2>1, <2>3
  <2> QED
    BY <2>4, CurrentFound
<1>8. CASE p.mode # "shuffle"
  <2>1. r = new
    BY <1>5, <1>8
  <2>2. i \in 0..Len(tracks) /\ i # 0
    BY <1>1
  <2>3. Player([queue |-> tracks, order |-> nat, position |-> i, mode |-> p.mode])
    BY <1>1, <1>3, <1>4, <1>6, <2>2, PlayerBuilt
  <2>4. Player(r) /\ r.position # 0 /\ r.queue # <<>>
    BY <1>1, <1>2, <2>1, <2>2, <2>3
  <2> QED
    BY <2>4, CurrentFound
<1> QED
  BY <1>7, <1>8

\* appendTracks leaves a player, with the same current track if it had one.
LEMMA AppendTrackOK ==
  ASSUME NEW p, Player(p), NEW t \in Tracks \ Queued(p)
  PROVE  /\ Player(AppendTrack(p, t))
         /\ AppendTrack(p, t).queue # <<>>
         /\ p.queue # <<>> => CurrentTrack(AppendTrack(p, t)) = CurrentTrack(p)
<1> DEFINE n == Size(p)
           q == Append(p.queue, t)
           o == Append(p.order, n + 1)
           k == IF p.position = 0 THEN n + 1 ELSE p.position
           r == AppendTrack(p, t)
<1>1. r = [queue |-> q, order |-> o, position |-> k, mode |-> p.mode]
  <2>1. r = [p EXCEPT !.queue = q, !.order = o, !.position = k]
    <3>1. PICK a, b, c, m : p = [queue |-> a, order |-> b, position |-> c, mode |-> m]
      BY DEF Player, Whole
    <3>2. p.queue = a /\ p.order = b /\ p.position = c
      BY <3>1
    <3> QED
      BY <3>1, <3>2 DEF AppendTrack
  <2> HIDE DEF q, o, k, r
  <2> QED
    BY <2>1, Requeued DEF Player
<1>2. /\ n \in Nat /\ n = Len(p.queue) /\ p.queue \in Seq(Tracks)
      /\ p.position \in 0..n /\ (p.position = 0 <=> p.queue = <<>>)
  BY PlayerShape
<1>3. /\ q \in Seq(Tracks) /\ Len(q) = n + 1 /\ q # <<>>
      /\ \A x \in 1..n : q[x] = p.queue[x]
      /\ q[n + 1] = t
  BY <1>2
<1>4. /\ \A x \in 1..n : p.queue[x] # t
      /\ \A x, y \in 1..n : p.queue[x] = p.queue[y] => x = y
  BY PlayerShape DEF Queued
<1>5. \A x, y \in 1..Len(q) : q[x] = q[y] => x = y
  BY <1>2, <1>3, <1>4
<1>6. p.order \in [1..n -> 1..n] /\ \A x, y \in 1..n : p.order[x] = p.order[y] => x = y
  BY PlayerShape, OrderTyped
<1>7. /\ o \in [1..(n + 1) -> 1..(n + 1)]
      /\ \A x \in 1..n : o[x] = p.order[x]
      /\ o[n + 1] = n + 1
  <2>1. p.order \in Seq(1..n) /\ Len(p.order) = n
    BY <1>2, <1>6
  <2> DEFINE a == p.order
  <2>2. 1..n \subseteq 1..(n + 1) /\ n + 1 \in 1..(n + 1)
    BY <1>2
  <2>3. a \in Seq(1..(n + 1)) /\ Len(a) = n
    BY <2>1, <2>2
  <2> HIDE DEF a, n
  <2>4. o \in Seq(1..(n + 1)) /\ Len(o) = n + 1
    BY <1>2, <2>2, <2>3 DEF a
  <2>5. /\ \A x \in 1..n : o[x] = a[x]
        /\ o[n + 1] = n + 1
    BY <1>2, <2>3 DEF a
  <2> HIDE DEF o
  <2>6. o \in [1..(n + 1) -> 1..(n + 1)]
    BY <1>2, <2>4, SMTT(30)
  <2> QED
    BY <2>5, <2>6 DEF a
<1> HIDE DEF q, o, n
<1>8. o \in Orders(n + 1)
  <2>1. \A x \in 1..n : p.order[x] \in 1..n
    BY <1>6
  <2>2. \A x \in 1..(n + 1) : x \in 1..n \/ x = n + 1
    BY <1>2
  <2>3. n \in Nat /\ \A x \in 1..n : o[x] # n + 1
    BY <1>2, <1>7, <2>1
  <2>4. \A x, y \in 1..n : o[x] = o[y] => x = y
    BY <1>6, <1>7
  <2>5. \A x, y \in 1..(n + 1) : o[x] = o[y] => x = y
    BY <1>7, <2>2, <2>3, <2>4
  <2> QED
    BY <1>7, <2>5 DEF Orders
<1>9. k \in 0..Len(q) /\ k # 0
  BY <1>2, <1>3
<1>10. p.mode \in {Modes[x] : x \in 1..4}
  BY DEF Player, PlayerOK
<1> HIDE DEF k
<1>11. Player([queue |-> q, order |-> o, position |-> k, mode |-> p.mode])
  BY <1>3, <1>5, <1>8, <1>9, <1>10, PlayerBuilt
<1>12. r.queue = q /\ r.order = o /\ r.position = k
  BY <1>1
<1>13. p.queue # <<>> => CurrentTrack(r) = CurrentTrack(p)
  <2> SUFFICES ASSUME p.queue # <<>> PROVE CurrentTrack(r) = CurrentTrack(p)
    OBVIOUS
  <2>1. p.position # 0 /\ k = p.position /\ k \in 1..n
    BY <1>2 DEF k
  <2>2. p.order[k] \in 1..n
    BY <1>6, <2>1
  <2>3. o[k] = p.order[k] /\ q[p.order[k]] = p.queue[p.order[k]]
    BY <1>3, <1>7, <2>1, <2>2
  <2> QED
    BY <1>12, <2>1, <2>3 DEF CurrentTrack, CurrentIndex
<1> QED
  BY <1>1, <1>3, <1>11, <1>12, <1>13

\* What a move shifts, the move back shifts back.
LEMMA ShiftedBack ==
  ASSUME NEW n \in Nat, NEW from \in 1..n, NEW to \in 1..n, NEW k \in 1..n
  PROVE  /\ Shifted(k, from, to) \in 1..n
         /\ Shifted(Shifted(k, from, to), to, from) = k
BY DEF Shifted

\* moveTrack leaves a player, with the same current track.
LEMMA MoveTrackOK ==
  ASSUME NEW p, Player(p), NEW t \in Queued(p), NEW to \in 1..Size(p)
  PROVE  /\ Player(MoveTrack(p, t, to))
         /\ MoveTrack(p, t, to).queue # <<>>
         /\ CurrentTrack(MoveTrack(p, t, to)) = CurrentTrack(p)
<1> DEFINE from == PositionOf(p, t)
           n == Size(p)
           q == [k \in 1..n |-> View(p)[Shifted(k, to, from)]]
           c == Shifted(p.position, from, to)
           r == MoveTrack(p, t, to)
<1>1. from \in 1..n /\ to \in 1..n /\ n \in Nat
  BY PositionFound, PlayerShape
<1>2. p.position \in 1..n /\ p.position # 0 /\ p.queue # <<>>
  <2>1. p.position \in 0..n /\ (p.position = 0 <=> p.queue = <<>>) /\ (p.position = 0 <=> n = 0)
    BY PlayerShape
  <2> QED
    BY <1>1, <2>1
<1>3. CASE from = to
  BY <1>2, <1>3 DEF MoveTrack
<1>4. CASE from # to
  <2>1. \A k \in 1..n : /\ p.order[k] \in 1..n
                        /\ View(p)[k] = p.queue[p.order[k]]
                        /\ View(p)[k] \in Tracks
    <3>1. \A k \in 1..n : p.order[k] \in 1..n /\ p.queue[k] \in Tracks
      BY PlayerShape, SMTT(30)
    <3>2. \A k \in 1..n : View(p)[k] = p.queue[p.order[k]]
      BY DEF View
    <3> QED
      BY <3>1, <3>2
  <2>2. \A j, k \in 1..n : View(p)[j] = View(p)[k] => j = k
    <3>1. \A j, k \in 1..n : p.queue[j] = p.queue[k] => j = k
      BY PlayerShape
    <3>2. \A j, k \in 1..n : p.order[j] = p.order[k] => j = k
      BY PlayerShape
    <3> QED
      BY <2>1, <3>1, <3>2
  <2>3. r = [queue |-> q, order |-> Natural(n), position |-> c, mode |-> "normal"]
    BY <1>2, <1>4 DEF MoveTrack
  <2> HIDE DEF from, n
  <2>4. \A k \in 1..n : Shifted(k, to, from) \in 1..n
    BY <1>1, ShiftedBack
  <2>5. \A j, k \in 1..n : Shifted(j, to, from) = Shifted(k, to, from) => j = k
    <3>1. ASSUME NEW k \in 1..n PROVE Shifted(Shifted(k, to, from), from, to) = k
      BY <1>1, ShiftedBack, ZenonT(60)
    <3> QED
      BY <3>1
  <2>6. q \in [1..n -> Tracks]
    BY <2>1, <2>4
  <2>7. q \in Seq(Tracks) /\ Len(q) = n
    BY <1>1, <2>6
  <2>8. \A j, k \in 1..Len(q) : q[j] = q[k] => j = k
    <3>1. \A k \in 1..n : q[k] = View(p)[Shifted(k, to, from)]
      OBVIOUS
    <3> HIDE DEF q
    <3> SUFFICES ASSUME NEW j \in 1..n, NEW k \in 1..n, q[j] = q[k] PROVE j = k
      BY <2>7
    <3>2. Shifted(j, to, from) = Shifted(k, to, from)
      BY <2>2, <2>4, <3>1
    <3> QED
      BY <2>5, <3>2
  <2>9. c \in 1..n /\ Shifted(c, to, from) = p.position
    BY <1>1, <1>2, ShiftedBack
  <2>10. c \in 0..Len(q) /\ c # 0 /\ q # <<>>
    BY <1>1, <2>7, <2>9
  <2>11. q[c] = p.queue[p.order[p.position]]
    <3>1. q[c] = View(p)[Shifted(c, to, from)]
      BY <2>9
    <3> QED
      BY <1>2, <2>1, <2>9, <3>1
  <2>12. Natural(n) \in Orders(n) /\ Natural(n)[c] = c
    BY <1>1, <2>9, NaturalOrders
  <2>13. "normal" \in {Modes[x] : x \in 1..4}
    BY ModesListed
  <2> HIDE DEF q, c
  <2>14. Player([queue |-> q, order |-> Natural(n), position |-> c, mode |-> "normal"])
    BY <2>7, <2>8, <2>10, <2>12, <2>13, PlayerBuilt
  <2>15. r.queue = q /\ r.order = Natural(n) /\ r.position = c
    BY <2>3
  <2>16. CurrentTrack(r) = CurrentTrack(p)
    BY <1>2, <2>10, <2>11, <2>12, <2>15 DEF CurrentTrack, CurrentIndex
  <2> QED
    BY <2>3, <2>10, <2>14, <2>15, <2>16
<1> QED
  BY <1>3, <1>4

\* Where the position is once a track is out.
LEMMA PositionWithoutOK ==
  ASSUME NEW p, Size(p) \in Nat, p.position \in 1..Size(p), NEW gone \in 1..Size(p)
  PROVE  /\ PositionWithout(p, gone) \in 0..(Size(p) - 1)
         /\ PositionWithout(p, gone) = 0 <=> Size(p) = 1
         /\ p.position < gone => PositionWithout(p, gone) = p.position
         /\ gone < p.position => PositionWithout(p, gone) = p.position - 1
BY DEF PositionWithout

\* removeTrack leaves a player, with the same current track unless that is removed.
LEMMA RemoveTrackOK ==
  ASSUME NEW p, Player(p), NEW t \in Queued(p)
  PROVE  /\ Player(RemoveTrack(p, t))
         /\ t # CurrentTrack(p) => /\ CurrentTrack(RemoveTrack(p, t)) = CurrentTrack(p)
                                   /\ RemoveTrack(p, t).queue # <<>>
<1> DEFINE n == Size(p)
           i == IndexOf(p, t)
           gone == PositionOf(p, t)
           Closed(j) == IF j > i THEN j - 1 ELSE j
           q == [j \in 1..(n - 1) |-> IF j < i THEN p.queue[j] ELSE p.queue[j + 1]]
           o == [k \in 1..(n - 1) |-> Closed(IF k < gone THEN p.order[k] ELSE p.order[k + 1])]
           c == PositionWithout(p, gone)
           r == RemoveTrack(p, t)
<1>1. /\ i \in 1..n /\ gone \in 1..n /\ p.order[gone] = i /\ p.queue[i] = t
  BY PositionFound
<1>2. n \in Nat /\ n # 0 /\ p.position \in 1..n /\ p.position # 0
  <2>1. n \in Nat /\ p.position \in 0..n /\ (p.position = 0 <=> n = 0)
    BY PlayerShape
  <2> QED
    BY <1>1, <2>1
<1>3. /\ \A k \in 1..n : p.order[k] \in 1..n
      /\ \A j, k \in 1..n : p.order[j] = p.order[k] => j = k
  BY PlayerShape
<1>4. /\ \A k \in 1..n : p.queue[k] \in Tracks
      /\ \A j, k \in 1..n : p.queue[j] = p.queue[k] => j = k
  BY PlayerShape
<1>5. r = [queue |-> q, order |-> o, position |-> c, mode |-> p.mode]
  <2>1. r = [p EXCEPT !.queue = q, !.order = o, !.position = c]
    BY DEF RemoveTrack
  <2> HIDE DEF q, o, c, r
  <2> QED
    BY <2>1, Requeued DEF Player
<1>6. /\ c \in 0..(n - 1) /\ (c = 0 <=> n = 1)
      /\ p.position < gone => c = p.position
      /\ gone < p.position => c = p.position - 1
  BY <1>1, <1>2, PositionWithoutOK
<1>7. p.mode \in {Modes[x] : x \in 1..4}
  BY DEF Player, PlayerOK
<1> HIDE DEF n, i, gone, c, r
<1>8. q \in [1..(n - 1) -> Tracks]
  BY <1>1, <1>2, <1>4
<1>9. q \in Seq(Tracks) /\ Len(q) = n - 1 /\ (q = <<>> <=> n = 1)
  <2>1. n - 1 \in Nat
    BY <1>2
  <2> HIDE DEF q
  <2> QED
    BY <1>2, <1>8, <2>1
<1>10. /\ \A j \in 1..(n - 1) : j < i => q[j] = p.queue[j]
       /\ \A j \in 1..(n - 1) : ~(j < i) => q[j] = p.queue[j + 1]
  BY <1>1, <1>2
<1>11. /\ \A k \in 1..(n - 1) : k < gone => o[k] = Closed(p.order[k])
       /\ \A k \in 1..(n - 1) : ~(k < gone) => o[k] = Closed(p.order[k + 1])
  BY <1>1, <1>2
<1>12. DOMAIN o = 1..(n - 1) /\ o = [k \in 1..(n - 1) |-> o[k]]
  OBVIOUS
<1> HIDE DEF q, o
<1>13. \A j, k \in 1..Len(q) : q[j] = q[k] => j = k
  <2> SUFFICES ASSUME NEW j \in 1..(n - 1), NEW k \in 1..(n - 1), q[j] = q[k] PROVE j = k
    BY <1>9
  <2>1. /\ j \in 1..n /\ j + 1 \in 1..n /\ k \in 1..n /\ k + 1 \in 1..n
    BY <1>2
  <2> QED
    BY <1>1, <1>2, <1>4, <1>10, <2>1
<1>14. \A k \in 1..n : k # gone => p.order[k] # i
  BY <1>1, <1>3
<1>15. \A x \in 1..n : x # i => Closed(x) \in 1..(n - 1)
  BY <1>1, <1>2
<1>16. \A x, y \in 1..n : x # i /\ y # i /\ Closed(x) = Closed(y) => x = y
  BY <1>1, <1>2
<1>17. o \in Orders(n - 1)
  <2>1. \A k \in 1..(n - 1) : \E x \in 1..n : /\ x # gone /\ o[k] = Closed(p.order[x])
                                             /\ (IF k < gone THEN x = k ELSE x = k + 1)
    <3> SUFFICES ASSUME NEW k \in 1..(n - 1)
                 PROVE  \E x \in 1..n : /\ x # gone /\ o[k] = Closed(p.order[x])
                                        /\ (IF k < gone THEN x = k ELSE x = k + 1)
      OBVIOUS
    <3>1. k \in 1..n /\ k + 1 \in 1..n
      BY <1>2
    <3>2. CASE k < gone
      BY <1>1, <1>11, <3>1, <3>2
    <3>3. CASE ~(k < gone)
      BY <1>1, <1>11, <3>1, <3>3
    <3> QED
      BY <3>2, <3>3
  <2>2. \A k \in 1..(n - 1) : o[k] \in 1..(n - 1)
    BY <1>3, <1>14, <1>15, <2>1
  <2>3. \A j, k \in 1..(n - 1) : o[j] = o[k] => j = k
    <3> SUFFICES ASSUME NEW j \in 1..(n - 1), NEW k \in 1..(n - 1), o[j] = o[k] PROVE j = k
      OBVIOUS
    <3>1. PICK x \in 1..n : /\ x # gone /\ o[j] = Closed(p.order[x])
                            /\ (IF j < gone THEN x = j ELSE x = j + 1)
      BY <2>1
    <3>2. PICK y \in 1..n : /\ y # gone /\ o[k] = Closed(p.order[y])
                            /\ (IF k < gone THEN y = k ELSE y = k + 1)
      BY <2>1
    <3>3. p.order[x] = p.order[y]
      BY <1>3, <1>14, <1>16, <3>1, <3>2
    <3>4. x = y
      BY <1>3, <3>3
    <3> QED
      BY <1>1, <1>2, <3>1, <3>2, <3>4
  <2>4. o \in [1..(n - 1) -> 1..(n - 1)]
    BY <1>12, <2>2
  <2> QED
    BY <2>3, <2>4 DEF Orders
<1>18. c \in 0..Len(q) /\ (c = 0 <=> q = <<>>)
  BY <1>6, <1>9
<1>19. Player([queue |-> q, order |-> o, position |-> c, mode |-> p.mode])
  BY <1>7, <1>9, <1>13, <1>17, <1>18, PlayerBuilt
<1>20. r.queue = q /\ r.order = o /\ r.position = c
  BY <1>5
<1>21. ASSUME t # CurrentTrack(p)
       PROVE  CurrentTrack(r) = CurrentTrack(p) /\ r.queue # <<>>
  <2>1. p.position # gone
    BY <1>21, CurrentPosition DEF gone
  <2>2. n # 1 /\ c # 0 /\ c \in 1..(n - 1)
    BY <1>1, <1>2, <1>6, <2>1
  <2> DEFINE x == p.order[p.position]
  <2>3. x \in 1..n /\ x # i
    BY <1>2, <1>3, <1>14, <2>1
  <2>4. o[c] = Closed(x)
    BY <1>1, <1>2, <1>6, <1>11, <2>1, <2>2
  <2> HIDE DEF x
  <2>5. q[Closed(x)] = p.queue[x]
    BY <1>1, <1>2, <1>10, <2>3
  <2>6. CurrentTrack(r) = q[o[c]] /\ CurrentTrack(p) = p.queue[x]
    BY <1>2, <1>20, <2>2 DEF CurrentTrack, CurrentIndex, x
  <2> QED
    BY <1>9, <1>20, <2>2, <2>4, <2>5, <2>6
<1> QED
  BY <1>5, <1>19, <1>21 DEF r

\* The next track, if there is one, is at a position.
LEMMA NextPositionOK ==
  ASSUME NEW p, Player(p), p.position # 0, NEW automatic \in BOOLEAN
  PROVE  /\ NextPosition(p, automatic) \in 0..Size(p)
         /\ automatic /\ p.mode = "repeat-one" => NextPosition(p, automatic) = p.position
<1>1. Size(p) \in Nat /\ p.position \in 1..Size(p)
  BY PlayerShape
<1> QED
  BY <1>1 DEF NextPosition

\* The previous track is at a position.
LEMMA PreviousPositionOK ==
  ASSUME NEW p, Player(p), p.position # 0
  PROVE  PreviousPosition(p) \in 1..Size(p)
<1>1. Size(p) \in Nat /\ p.position \in 1..Size(p)
  BY PlayerShape
<1> QED
  BY <1>1 DEF PreviousPosition

-----------------------------------------------------------------------------------
\* The values the parts of the page and of the server take; n sessions were opened.
Thens == {"none", "play", "stop", "clear"}
Answers == {"none", "recorded", "qualified", "401", "409"}
Listenings(n) ==
  [session : 1..n, track : Tracks, enough : BOOLEAN, playing : BOOLEAN]
ReportsTo(n) ==
  [session : 1..n, track : Tracks, enough : BOOLEAN, then : Thens, answer : Answers]
Rows == [account : Accounts, track : Tracks, qualified : BOOLEAN]
People == Accounts \cup {NoOne}

\* What the page plays and shows is well formed.
PageTyped ==
  /\ Player(player)
  /\ audio \in [src : Tracks \cup {NoTrack}, playing : BOOLEAN]
  /\ audio.playing => audio.src # NoTrack
  /\ load \in {NoLoad} \cup [track : Tracks, autoplay : BOOLEAN]
  /\ blocked \in BOOLEAN

\* So is what it reports. Every removal that waits to start the next track has a
\* session kept for it.
ListeningTyped ==
  /\ opened \in Nat
  /\ listening \in {NoListening} \cup Listenings(opened)
  /\ qualified \in 0..opened /\ pending \in 0..opened
  /\ chain \in Seq(ReportsTo(opened))
  /\ opened + Cardinality(Waiting("play")) <= MaxSessions

\* Without an account there is no queue; without a queue, an audio element that
\* still has a track waits to be stopped.
Emptied ==
  /\ account = NoOne => player.queue = <<>>
  /\ player.queue = <<>> /\ audio.src # NoTrack => Waiting("stop") # {}

\* The invariant of what is shown and heard.
Shell == PageTyped /\ AudioFollowsShell /\ Emptied

-----------------------------------------------------------------------------------
\* A report leaves those that wait where they are, and waits itself.
LEMMA ReportsWait ==
  ASSUME NEW S, chain \in Seq(S), NEW l, NEW then, Reports(l, then)
  PROVE  /\ \A th : Waiting(th) \subseteq Waiting(th)'
         /\ l # NoListening => Waiting(then)' # {}
<1>1. CASE l = NoListening
  <2>1. chain' = chain
    BY <1>1 DEF Reports
  <2> QED
    BY <1>1, <2>1 DEF Waiting
<1>2. CASE l # NoListening
  <2> DEFINE x == Report(l, then)
  <2>1. chain' = Append(chain, x)
    BY <1>2 DEF Reports
  <2>2. x.then = then
    BY DEF Report
  <2> HIDE DEF x
  <2>3. /\ Len(chain) \in Nat /\ Len(chain') = Len(chain) + 1
        /\ \A k \in 1..Len(chain) : chain'[k] = chain[k]
        /\ chain'[Len(chain) + 1] = x
    BY <2>1
  <2> QED
    BY <2>2, <2>3 DEF Waiting
<1> QED
  BY <1>1, <1>2

\* The end of a report leaves those that wait for another thing.
LEMMA TailWaits ==
  ASSUME NEW S, chain \in Seq(S), chain # <<>>, chain' = Tail(chain),
         NEW th, Head(chain).then # th, Waiting(th) # {}
  PROVE  Waiting(th)' # {}
<1>1. PICK k \in 1..Len(chain) : chain[k].then = th
  BY DEF Waiting
<1>2. Len(chain) \in Nat /\ Head(chain) = chain[1]
  BY DEF Head
<1>3. k - 1 \in 1..Len(chain') /\ chain'[k - 1] = chain[k]
  BY <1>1, <1>2
<1> QED
  BY <1>1, <1>3 DEF Waiting

\* A silent audio element is one.
LEMMA SilentTyped ==
  /\ Silent \in [src : Tracks \cup {NoTrack}, playing : BOOLEAN]
  /\ Silent.src = NoTrack /\ Silent.playing = FALSE
BY DEF Silent

\* Silence breaks nothing.
LEMMA SilentShell ==
  ASSUME PageTyped', audio' = Silent, account' = NoOne => player'.queue = <<>>
  PROVE  Shell'
BY SilentTyped DEF Shell, AudioFollowsShell, Emptied

\* playCurrentMusicTrack goes silent until the address is there, or plays what is loaded.
LEMMA PlayCurrentPage ==
  ASSUME PageTyped, NEW p, Player(p), CurrentTrack(p) \in Tracks, NEW autoplay \in BOOLEAN,
         NEW replay \in BOOLEAN, PlayCurrent(p, autoplay, replay), player' = p, blocked' = blocked
  PROVE  /\ PageTyped'
         /\ \/ audio' = Silent
            \/ /\ replay /\ audio'.src = audio.src
               /\ blocked /\ ~audio.playing => ~audio'.playing
<1> DEFINE plays == audio.playing \/ (autoplay /\ ~blocked)
<1>0. plays \in BOOLEAN
  BY DEF PageTyped
<1>1. CASE replay /\ audio.src # NoTrack
  <2>1. audio' = [audio EXCEPT !.playing = plays] /\ load' = load
    BY <1>1 DEF PlayCurrent
  <2> HIDE DEF plays
  <2>2. /\ audio' \in [src : Tracks \cup {NoTrack}, playing : BOOLEAN]
        /\ audio'.src = audio.src /\ audio'.playing = plays
    BY <1>0, <2>1 DEF PageTyped
  <2>3. PageTyped'
    BY <1>1, <2>1, <2>2 DEF PageTyped
  <2>4. blocked /\ ~audio.playing => ~audio'.playing
    BY <2>2 DEF plays
  <2> QED
    BY <1>1, <2>2, <2>3, <2>4
<1>2. CASE ~(replay /\ audio.src # NoTrack)
  <2>1. audio' = Silent /\ load' = [track |-> CurrentTrack(p), autoplay |-> autoplay]
    BY <1>2 DEF PlayCurrent
  <2> QED
    BY <2>1, SilentTyped DEF PageTyped
<1> QED
  BY <1>1, <1>2

\* A click that plays a track keeps Shell.
LEMMA PlayNowShell ==
  ASSUME Shell, ListeningTyped, account # NoOne, account' = account, blocked' = blocked,
         NEW p, Player(p), CurrentTrack(p) \in Tracks, NEW autoplay \in BOOLEAN,
         NEW replay \in BOOLEAN, replay => CurrentTrack(p) = CurrentTrack(player),
         PlayNow(p, autoplay, replay)
  PROVE  Shell'
<1>1. PlayCurrent(p, autoplay, replay) /\ player' = p
  BY DEF PlayNow
<1>2. /\ PageTyped'
      /\ \/ audio' = Silent
         \/ /\ replay /\ audio'.src = audio.src
            /\ blocked /\ ~audio.playing => ~audio'.playing
  BY <1>1, PlayCurrentPage DEF Shell
<1>3. \A th : Waiting(th) \subseteq Waiting(th)'
  <2>1. CASE Fresh(p, replay)
    <3>1. Reports(listening, "none")
      BY <2>1 DEF PlayNow
    <3> QED
      BY <3>1, ReportsWait DEF ListeningTyped
  <2>2. CASE ~Fresh(p, replay)
    BY <2>2 DEF PlayNow, Waiting
  <2> QED
    BY <2>1, <2>2
<1>4. p.queue # <<>> /\ player'.queue # <<>>
  BY <1>1, CurrentFound, TracksAssumption
<1>5. CASE audio' = Silent
  BY <1>2, <1>5, SilentShell
<1>6. CASE audio' # Silent
  <2>1. replay /\ audio'.src = audio.src /\ CurrentTrack(player') = CurrentTrack(player)
    BY <1>1, <1>2, <1>6
  <2>2. blocked' \/ account' = NoOne => ~audio'.playing
    BY <1>2, <1>6 DEF Shell, AudioFollowsShell
  <2>3. audio'.src # NoTrack /\ (Waiting("play") \cup Waiting("stop"))' = {} =>
          audio'.src = CurrentTrack(player')
    BY <1>3, <2>1 DEF Shell, AudioFollowsShell
  <2> QED
    BY <1>2, <1>4, <2>2, <2>3 DEF Shell, AudioFollowsShell, Emptied
<1> QED
  BY <1>5, <1>6

\* What a removal goes on with silences the page, unless there is nothing to go on with.
LEMMA GoesPage ==
  ASSUME PageTyped, NEW then, NEW p, Player(p), NEW q, NEW w, blocked' = blocked,
         Goes(then, p, q, w)
  PROVE  /\ PageTyped'
         /\ player' = p \/ player'.queue = <<>>
         /\ \/ audio' = Silent
            \/ /\ audio' = audio /\ player' = p /\ then \notin {"stop", "clear"}
               /\ then = "play" => p.queue = <<>>
<1>1. player' = IF then = "clear" THEN ClearQueue(p) ELSE p
  BY DEF Goes
<1>2. Player(player') /\ (player' = p \/ player'.queue = <<>>)
  BY <1>1, ClearQueueOK
<1>3. CASE then = "play" /\ CurrentTrack(p) # NoTrack
  <2>1. PlayCurrent(p, TRUE, FALSE) /\ player' = p
    BY <1>1, <1>3 DEF Goes
  <2>2. CurrentTrack(p) \in Tracks
    BY <1>3, CurrentFound
  <2> QED
    BY <2>1, <2>2, PlayCurrentPage
<1>4. CASE then \in {"stop", "clear"}
  <2>1. StopAudio
    BY <1>4 DEF Goes
  <2> QED
    BY <1>2, <2>1, SilentTyped DEF PageTyped, StopAudio
<1>5. CASE ~(then = "play" /\ CurrentTrack(p) # NoTrack) /\ then \notin {"stop", "clear"}
  <2>1. audio' = audio /\ load' = load /\ player' = p
    BY <1>1, <1>5 DEF Goes
  <2>2. then = "play" => p.queue = <<>>
    BY <1>5, CurrentFound
  <2> QED
    BY <1>2, <1>5, <2>1, <2>2 DEF PageTyped
<1> QED
  BY <1>3, <1>4, <1>5

\* A step that keeps the current track and what is loaded keeps Shell.
LEMMA SameTrackShell ==
  ASSUME Shell, PageTyped', audio'.src = audio.src,
         CurrentTrack(player') = CurrentTrack(player),
         player'.queue = <<>> <=> player.queue = <<>>,
         account' = NoOne => account = NoOne,
         blocked' \/ account' = NoOne => ~audio'.playing,
         \A th : Waiting(th) \subseteq Waiting(th)'
  PROVE  Shell'
<1>1. audio'.src # NoTrack /\ (Waiting("play") \cup Waiting("stop"))' = {} =>
        audio'.src = CurrentTrack(player')
  BY DEF Shell, AudioFollowsShell
<1>2. Emptied'
  BY DEF Shell, Emptied
<1> QED
  BY <1>1, <1>2 DEF Shell, AudioFollowsShell

\* Each action keeps Shell. musicPlayQueue ...
LEMMA PlayQueueShell ==
  ASSUME Shell, ListeningTyped, PlayQueue
  PROVE  Shell'
<1>0. PICK tracks \in Lists :
        \E i \in DOMAIN tracks, o \in Orders(Len(tracks)) :
          /\ IF player.mode = "shuffle" THEN o[1] = i ELSE o = Natural(Len(tracks))
          /\ PlayNow(SetQueue(player, tracks, tracks[i], o), TRUE, FALSE)
  BY DEF PlayQueue
<1>1. PICK i \in DOMAIN tracks, o \in Orders(Len(tracks)) :
        /\ IF player.mode = "shuffle" THEN o[1] = i ELSE o = Natural(Len(tracks))
        /\ PlayNow(SetQueue(player, tracks, tracks[i], o), TRUE, FALSE)
  BY <1>0
<1>2. PICK n \in 1..Cardinality(Tracks) :
        tracks \in [1..n -> Tracks] /\ \A x, y \in 1..n : tracks[x] = tracks[y] => x = y
  BY DEF Lists
<1>3. n \in Nat /\ i \in 1..n /\ Len(tracks) = n
  BY <1>2
<1> DEFINE p == SetQueue(player, tracks, tracks[i], o)
<1>4. Player(p) /\ CurrentTrack(p) \in Tracks
  BY <1>1, <1>2, <1>3, SetQueueOK DEF Shell, PageTyped
<1>5. account # NoOne /\ account' = account /\ blocked' = blocked
  BY DEF PlayQueue, HasMusic, UserKeeps, login
<1> QED
  BY <1>1, <1>4, <1>5, PlayNowShell

\* ... a track selected in the queue ...
LEMMA SelectShell ==
  ASSUME Shell, ListeningTyped, Select
  PROVE  Shell'
<1>1. PICK t \in Queued(player) :
        PlayNow(SelectTrack(player, t), TRUE, PositionOf(player, t) = player.position)
  BY DEF Select
<1>2. Player(player)
  BY DEF Shell, PageTyped
<1> DEFINE k == PositionOf(player, t)
           p == SelectTrack(player, t)
<1>3. k \in 1..Size(player)
  BY <1>2, PositionFound
<1>4. Player(p) /\ CurrentTrack(p) \in Tracks /\ (k = player.position => p = player)
  BY <1>2, <1>3, PositionedOK DEF SelectTrack
<1>5. account # NoOne /\ account' = account /\ blocked' = blocked
  BY DEF Select, HasMusic, UserKeeps, login
<1>6. (k = player.position) \in BOOLEAN
  OBVIOUS
<1> DEFINE b == k = player.position
<1>7. b \in BOOLEAN /\ (b => CurrentTrack(p) = CurrentTrack(player)) /\ PlayNow(p, TRUE, b)
  BY <1>1, <1>4
<1> HIDE DEF b, p
<1> QED
  BY <1>4, <1>5, <1>7, PlayNowShell

\* ... tracks appended and moved, and the mode ...
LEMMA QueueEditShell ==
  ASSUME Shell, ListeningTyped, AddToQueue \/ Move \/ CycleMode
  PROVE  Shell'
<1>1. /\ account # NoOne /\ account' = account /\ blocked' = blocked
      /\ audio' = audio /\ load' = load /\ chain' = chain
  BY DEF AddToQueue, Move, CycleMode, HasMusic, UserKeeps, login
<1>2. Player(player)
  BY DEF Shell, PageTyped
<1>3. \A th : Waiting(th)' = Waiting(th)
  BY <1>1 DEF Waiting
<1>4. ASSUME Player(player'), player'.queue # <<>>,
             player.queue # <<>> => CurrentTrack(player') = CurrentTrack(player)
      PROVE  Shell'
  <2>1. PageTyped'
    BY <1>1, <1>4 DEF Shell, PageTyped
  <2>2. CASE player.queue # <<>>
    BY <1>1, <1>3, <1>4, <2>1, <2>2, SameTrackShell DEF Shell, AudioFollowsShell
  <2>3. CASE player.queue = <<>>
    BY <1>1, <1>3, <1>4, <2>1, <2>3 DEF Shell, AudioFollowsShell, Emptied
  <2> QED
    BY <2>2, <2>3
<1>5. CASE AddToQueue
  BY <1>2, <1>4, <1>5, AppendTrackOK DEF AddToQueue
<1>6. CASE Move
  BY <1>2, <1>4, <1>6, MoveTrackOK DEF Move
<1>7. CASE CycleMode
  <2>1. player.position # 0 /\ player.queue # <<>>
    BY <1>2, <1>7, CurrentFound DEF CycleMode
  <2>2. NextMode(player.mode) \in {Modes[x] : x \in 1..4}
    BY ModesListed DEF NextMode
  <2> QED
    BY <1>2, <1>4, <1>7, <2>1, <2>2, SetModeOK DEF CycleMode
<1> QED
  BY <1>5, <1>6, <1>7

\* ... a listening that is reported before the queue is emptied or goes on ...
LEMMA ReportedShell ==
  ASSUME Shell, ListeningTyped, account # NoOne, account' = account, blocked' = blocked,
         listening # NoListening, NEW then, Reports(listening, then),
         audio' = audio, load' = load, Player(player'),
         player' = player \/ (then \in {"play", "stop"} /\
                              (player'.queue = <<>> => then = "stop"))
  PROVE  Shell'
<1>1. /\ \A th : Waiting(th) \subseteq Waiting(th)'
      /\ Waiting(then)' # {}
  BY ReportsWait DEF ListeningTyped
<1>2. PageTyped'
  BY DEF Shell, PageTyped
<1>3. CASE player' = player
  BY <1>1, <1>2, <1>3, SameTrackShell DEF Shell, AudioFollowsShell
<1>4. CASE player' # player
  BY <1>1, <1>2, <1>4 DEF Shell, AudioFollowsShell, Emptied
<1> QED
  BY <1>3, <1>4

\* ... by removing the current track ...
LEMMA RemoveShell ==
  ASSUME Shell, ListeningTyped, NEW t \in Tracks, Remove(t)
  PROVE  Shell'
<1> DEFINE p == RemoveTrack(player, t)
           then == IF p.queue = <<>> THEN "stop" ELSE "play"
<1>1. /\ account # NoOne /\ account' = account /\ blocked' = blocked
      /\ Player(player) /\ t \in Queued(player)
  BY DEF Remove, HasMusic, UserKeeps, login, Shell, PageTyped
<1>2. /\ Player(p)
      /\ t # CurrentTrack(player) => CurrentTrack(p) = CurrentTrack(player) /\ p.queue # <<>>
  BY <1>1, RemoveTrackOK
<1>3. player.queue # <<>>
  BY <1>1, PlayerShape DEF Queued
<1>4. CASE t # CurrentTrack(player)
  <2>1. player' = p /\ audio' = audio /\ load' = load /\ chain' = chain
    BY <1>4 DEF Remove
  <2>2. PageTyped'
    BY <1>1, <1>2, <2>1 DEF Shell, PageTyped
  <2>3. \A th : Waiting(th) \subseteq Waiting(th)'
    BY <2>1 DEF Waiting
  <2> HIDE DEF p
  <2> QED
    BY <1>1, <1>2, <1>3, <1>4, <2>1, <2>2, <2>3, SameTrackShell DEF Shell, AudioFollowsShell
<1>5. CASE t = CurrentTrack(player) /\ listening = NoListening
  <2>1. Goes(then, p, qualified, pending)
    BY <1>5 DEF Remove
  <2> HIDE DEF p
  <2>2. PageTyped' /\ audio' = Silent
    BY <1>1, <1>2, <2>1, GoesPage DEF Shell
  <2> QED
    BY <1>1, <2>2, SilentShell
<1>6. CASE t = CurrentTrack(player) /\ listening # NoListening
  <2>1. player' = p /\ Reports(listening, then) /\ audio' = audio /\ load' = load
    BY <1>6 DEF Remove
  <2> HIDE DEF p
  <2> QED
    BY <1>1, <1>2, <1>6, <2>1, ReportedShell
<1> QED
  BY <1>4, <1>5, <1>6

\* ... or clearing the queue ...
LEMMA ClearShell ==
  ASSUME Shell, ListeningTyped, Clear
  PROVE  Shell'
<1>1. /\ account # NoOne /\ account' = account /\ blocked' = blocked /\ Player(player)
  BY DEF Clear, HasMusic, UserKeeps, login, Shell, PageTyped
<1>2. CASE listening = NoListening
  <2>1. Goes("clear", player, qualified, pending)
    BY <1>2 DEF Clear
  <2>2. PageTyped' /\ audio' = Silent
    BY <1>1, <2>1, GoesPage DEF Shell
  <2> QED
    BY <1>1, <2>2, SilentShell
<1>3. CASE listening # NoListening
  <2>1. player' = player /\ Reports(listening, "clear") /\ audio' = audio /\ load' = load
    BY <1>3 DEF Clear
  <2> QED
    BY <1>1, <1>3, <2>1, ReportedShell
<1> QED
  BY <1>2, <1>3

\* ... what pauses ...
LEMMA PausedShell ==
  ASSUME Shell, ListeningTyped, account' = account, player' = player, load' = load,
         audio' = [audio EXCEPT !.playing = FALSE], blocked' \in BOOLEAN,
         NEW l, Reports(l, "none")
  PROVE  Shell'
<1>1. /\ audio' \in [src : Tracks \cup {NoTrack}, playing : BOOLEAN]
      /\ audio'.src = audio.src /\ audio'.playing = FALSE
  BY DEF Shell, PageTyped
<1>2. PageTyped'
  BY <1>1 DEF Shell, PageTyped
<1>3. \A th : Waiting(th) \subseteq Waiting(th)'
  BY ReportsWait DEF ListeningTyped
<1> QED
  BY <1>1, <1>2, <1>3, SameTrackShell

\* ... the play button ...
LEMMA TogglePlaybackShell ==
  ASSUME Shell, ListeningTyped, TogglePlayback
  PROVE  Shell'
<1>1. /\ account # NoOne /\ account' = account /\ blocked' = blocked /\ ~blocked
      /\ Player(player) /\ CurrentTrack(player) \in Tracks
  BY CurrentFound DEF TogglePlayback, HasMusic, UserKeeps, login, Shell, PageTyped
<1>2. CASE audio.src = NoTrack /\ PlayNow(player, TRUE, FALSE)
  BY <1>1, <1>2, PlayNowShell
<1>3. CASE /\ audio.src # NoTrack /\ audio' = [audio EXCEPT !.playing = TRUE]
           /\ UNCHANGED <<player, load, chain>>
  <2>1. /\ audio' \in [src : Tracks \cup {NoTrack}, playing : BOOLEAN]
        /\ audio'.src = audio.src
    BY <1>3 DEF Shell, PageTyped
  <2>2. PageTyped'
    BY <1>1, <1>3, <2>1 DEF Shell, PageTyped
  <2>3. \A th : Waiting(th) \subseteq Waiting(th)'
    BY <1>3 DEF Waiting
  <2> QED
    BY <1>1, <1>3, <2>1, <2>2, <2>3, SameTrackShell
<1>4. CASE /\ audio' = [audio EXCEPT !.playing = FALSE] /\ PauseEvent
           /\ UNCHANGED <<player, load>>
  BY <1>1, <1>4, PausedShell DEF PauseEvent, Shell, PageTyped
<1> QED
  BY <1>2, <1>3, <1>4 DEF TogglePlayback

\* ... a track started over ...
LEMMA RestartShell ==
  ASSUME Shell, ListeningTyped, Restart, account' = account, blocked' = blocked
  PROVE  Shell'
<1>1. player' = player /\ audio' = audio /\ load' = load
  BY DEF Restart
<1>2. \A th : Waiting(th) \subseteq Waiting(th)'
  BY ReportsWait DEF Restart, ListeningTyped
<1>3. PageTyped'
  BY <1>1 DEF Shell, PageTyped
<1> QED
  BY <1>1, <1>2, <1>3, SameTrackShell DEF Shell, AudioFollowsShell

\* ... the tracks before and after ...
LEMMA PreviousNextShell ==
  ASSUME Shell, ListeningTyped, Previous \/ NextTrack
  PROVE  Shell'
<1>1. /\ account # NoOne /\ account' = account /\ blocked' = blocked
      /\ Player(player) /\ player.position # 0 /\ blocked \in BOOLEAN
      /\ audio.playing \in BOOLEAN
  BY CurrentFound DEF Previous, NextTrack, HasMusic, UserKeeps, login, Shell, PageTyped
<1>2. ASSUME NEW k \in 1..Size(player), PlayNow([player EXCEPT !.position = k], audio.playing, FALSE)
      PROVE  Shell'
  <2>1. Player([player EXCEPT !.position = k]) /\ CurrentTrack([player EXCEPT !.position = k]) \in Tracks
    BY <1>1, PositionedOK
  <2> QED
    BY <1>1, <1>2, <2>1, PlayNowShell
<1>3. CASE Previous
  <2>1. PreviousPosition(player) \in 1..Size(player)
    BY <1>1, PreviousPositionOK
  <2> QED
    BY <1>1, <1>2, <1>3, <2>1, RestartShell DEF Previous
<1>4. CASE NextTrack
  <2>1. CASE NextPosition(player, FALSE) # 0
    <3> DEFINE k == NextPosition(player, FALSE)
    <3>1. k \in 0..Size(player) /\ Size(player) \in Nat /\ k # 0
      BY <1>1, <2>1, NextPositionOK, PlayerShape
    <3>2. PlayNow([player EXCEPT !.position = k], audio.playing, FALSE)
      BY <1>4, <2>1 DEF NextTrack
    <3> HIDE DEF k
    <3>3. k \in 1..Size(player)
      BY <3>1
    <3> QED
      BY <1>2, <3>2, <3>3
  <2>2. CASE NextPosition(player, FALSE) = 0
    BY <1>1, <1>4, <2>2, PausedShell DEF NextTrack, PauseEvent
  <2> QED
    BY <2>1, <2>2
<1> QED
  BY <1>3, <1>4

\* ... a page without music, where nothing may play ...
LEMMA OpenPageShell ==
  ASSUME Shell, ListeningTyped, OpenPage
  PROVE  Shell'
<1>1. account # NoOne /\ account' = account /\ blocked' = ~blocked /\ blocked' \in BOOLEAN
  BY DEF OpenPage, HasMusic, PagePolicy, TurnPage, login, Shell, PageTyped
<1>2. CASE ~blocked /\ audio.playing
  BY <1>1, <1>2, PausedShell DEF OpenPage, PagePolicy, PauseEvent
<1>3. CASE ~(~blocked /\ audio.playing)
  <2>1. player' = player /\ audio' = audio /\ load' = load /\ chain' = chain
    BY <1>3 DEF OpenPage, PagePolicy, page
  <2>2. PageTyped'
    BY <1>1, <2>1 DEF Shell, PageTyped
  <2>3. \A th : Waiting(th) \subseteq Waiting(th)'
    BY <2>1 DEF Waiting
  <2>4. blocked' => ~audio'.playing
    BY <1>1, <1>3, <2>1
  <2> QED
    BY <1>1, <2>1, <2>2, <2>3, <2>4, SameTrackShell
<1> QED
  BY <1>2, <1>3

\* ... the address of a track, which may come late ...
LEMMA LoadShell ==
  ASSUME Shell, ListeningTyped, Loaded \/ LoadFails
  PROVE  Shell'
<1>1. /\ account' = account /\ blocked' = blocked /\ player' = player /\ chain' = chain
      /\ load # NoLoad /\ load' = NoLoad
  BY DEF Loaded, LoadFails, PageKeeps, login
<1>2. \A th : Waiting(th) \subseteq Waiting(th)'
  BY <1>1 DEF Waiting
<1>3. CASE audio' = audio
  <2>1. PageTyped'
    BY <1>1, <1>3 DEF Shell, PageTyped
  <2> QED
    BY <1>1, <1>2, <1>3, <2>1, SameTrackShell DEF Shell, AudioFollowsShell
<1>4. CASE audio' # audio
  <2> DEFINE plays == load.autoplay /\ ~blocked
  <2>1. LoadWanted /\ audio' = [src |-> load.track, playing |-> plays]
    BY <1>4 DEF Loaded, LoadFails
  <2>2. load.track \in Tracks /\ load.track = CurrentTrack(player) /\ plays \in BOOLEAN
    BY <1>1, <2>1 DEF Shell, PageTyped, LoadWanted
  <2>3. player.queue # <<>> /\ load.track # NoTrack
    BY <2>2, CurrentFound, TracksAssumption DEF Shell, PageTyped
  <2>4. account # NoOne
    BY <2>3 DEF Shell, Emptied
  <2>5. blocked => ~plays
    OBVIOUS
  <2> HIDE DEF plays
  <2>6. /\ audio' \in [src : Tracks \cup {NoTrack}, playing : BOOLEAN]
        /\ audio'.src = load.track /\ audio'.playing = plays
    BY <2>1, <2>2
  <2>7. PageTyped'
    BY <1>1, <2>3, <2>6 DEF Shell, PageTyped
  <2> QED
    BY <1>1, <2>2, <2>3, <2>4, <2>5, <2>6, <2>7 DEF Shell, AudioFollowsShell, Emptied
<1> QED
  BY <1>3, <1>4

\* ... the reports of a listening that goes on ...
LEMMA ReportShell ==
  ASSUME Shell, ListeningTyped, TimeUpdate \/ Checkpoint
  PROVE  Shell'
<1>1. /\ account' = account /\ blocked' = blocked /\ player' = player
      /\ audio' = audio /\ load' = load
  BY DEF TimeUpdate, Checkpoint, PageKeeps, login, page
<1>2. \A th : Waiting(th) \subseteq Waiting(th)'
  <2>1. chain' = chain \/ \E l : Reports(l, "none")
    BY DEF TimeUpdate, Checkpoint
  <2> QED
    BY <2>1, ReportsWait DEF ListeningTyped, Waiting
<1>3. PageTyped'
  BY <1>1 DEF Shell, PageTyped
<1> QED
  BY <1>1, <1>2, <1>3, SameTrackShell DEF Shell, AudioFollowsShell

\* ... the end of a track ...
LEMMA EndedShell ==
  ASSUME Shell, ListeningTyped, Ended
  PROVE  Shell'
<1> DEFINE to == NextPosition(player, TRUE)
           p == [player EXCEPT !.position = to]
<1>1. /\ account' = account /\ blocked' = blocked /\ Player(player)
      /\ audio.playing /\ blocked \in BOOLEAN
  BY DEF Ended, PageKeeps, login, Shell, PageTyped
<1>2. account # NoOne /\ ~blocked
  BY <1>1 DEF Shell, AudioFollowsShell
<1>3. \A th : Waiting(th) \subseteq Waiting(th)'
  BY ReportsWait DEF Ended, ListeningTyped
<1>4. CASE player.position = 0 \/ to = 0
  BY <1>1, <1>4, PausedShell DEF Ended
<1>5. CASE player.position # 0 /\ to # 0
  <2>1. to \in 0..Size(player) /\ (player.mode = "repeat-one" => to = player.position)
    BY <1>1, <1>5, NextPositionOK
  <2>2. to \in 1..Size(player)
    <3>1. Size(player) \in Nat /\ to # 0
      BY <1>1, <1>5, PlayerShape
    <3> HIDE DEF to
    <3> QED
      BY <2>1, <3>1
  <2>3. /\ Player(p) /\ CurrentTrack(p) \in Tracks
        /\ player.mode = "repeat-one" => p = player
    BY <1>1, <2>1, <2>2, PositionedOK
  <2>4. /\ player' = p
        /\ IF player.mode = "repeat-one"
           THEN audio' = [audio EXCEPT !.playing = ~blocked] /\ UNCHANGED load
           ELSE audio' = Silent /\ load' = [track |-> CurrentTrack(p), autoplay |-> TRUE]
    BY <1>5 DEF Ended
  <2> HIDE DEF p, to
  <2>5. CASE player.mode = "repeat-one"
    <3>1. player' = player /\ load' = load /\ audio' = [audio EXCEPT !.playing = ~blocked]
      BY <2>3, <2>4, <2>5
    <3>2. /\ audio' \in [src : Tracks \cup {NoTrack}, playing : BOOLEAN]
          /\ audio'.src = audio.src
      BY <1>1, <3>1 DEF Shell, PageTyped
    <3>3. PageTyped'
      BY <1>1, <3>1, <3>2 DEF Shell, PageTyped
    <3> QED
      BY <1>1, <1>2, <1>3, <3>1, <3>2, <3>3, SameTrackShell
  <2>6. CASE player.mode # "repeat-one"
    <3>0. audio' = Silent /\ load' = [track |-> CurrentTrack(p), autoplay |-> TRUE]
      BY <2>4, <2>6
    <3>a. CurrentTrack(p) \in Tracks
      BY <2>3
    <3>b. load' \in [track : Tracks, autoplay : BOOLEAN]
      BY <3>0, <3>a
    <3>1. audio' = Silent /\ load' \in [track : Tracks, autoplay : BOOLEAN] /\ Player(player')
      BY <2>3, <2>4, <3>0, <3>b
    <3>2. PageTyped'
      BY <1>1, <3>1, SilentTyped DEF PageTyped
    <3> QED
      BY <1>1, <1>2, <3>1, <3>2, SilentShell
  <2> QED
    BY <2>5, <2>6
<1> QED
  BY <1>4, <1>5

\* What an answer changes of the chain.
LEMMA AnswerShape ==
  ASSUME NEW n, chain \in Seq(ReportsTo(n)), chain # <<>>, NEW v \in Answers,
         chain' = [chain EXCEPT ![1].answer = v]
  PROVE  /\ chain' \in Seq(ReportsTo(n)) /\ Len(chain') = Len(chain)
         /\ chain'[1].answer = v
         /\ \A k \in 1..Len(chain) :
              /\ chain'[k].session = chain[k].session /\ chain'[k].track = chain[k].track
              /\ chain'[k].enough = chain[k].enough /\ chain'[k].then = chain[k].then
              /\ k # 1 => chain'[k].answer = chain[k].answer
<1> DEFINE R == ReportsTo(n)
           x == [chain[1] EXCEPT !.answer = v]
<1>1. Len(chain) \in Nat /\ 1 \in 1..Len(chain) /\ chain[1] \in R
  OBVIOUS
<1>2. /\ x \in R /\ x.answer = v
      /\ x.session = chain[1].session /\ x.track = chain[1].track
      /\ x.enough = chain[1].enough /\ x.then = chain[1].then
  BY <1>1 DEF ReportsTo
<1>3. chain' = [chain EXCEPT ![1] = x]
  OBVIOUS
<1> HIDE DEF x, R
<1>4. /\ chain' \in Seq(R) /\ Len(chain') = Len(chain) /\ chain'[1] = x
      /\ \A k \in 1..Len(chain) : k # 1 => chain'[k] = chain[k]
  BY <1>1, <1>2, <1>3 DEF R
<1> QED
  BY <1>2, <1>4 DEF R

\* ... the server ...
LEMMA ServeShell ==
  ASSUME Shell, ListeningTyped, Serve
  PROVE  Shell'
<1>1. /\ account' = account /\ blocked' = blocked /\ player' = player
      /\ audio' = audio /\ load' = load
  BY DEF Serve, login, page
<1>2. \A th : Waiting(th) \subseteq Waiting(th)'
  <2>1. chain # <<>> /\ \E v \in Answers : chain' = [chain EXCEPT ![1].answer = v]
    BY DEF Serve, Record, Answers
  <2>2. Len(chain') = Len(chain) /\ \A k \in 1..Len(chain) : chain'[k].then = chain[k].then
    BY <2>1, AnswerShape DEF ListeningTyped
  <2> QED
    BY <2>2 DEF Waiting
<1>3. PageTyped'
  BY <1>1 DEF Shell, PageTyped
<1> QED
  BY <1>1, <1>2, <1>3, SameTrackShell DEF Shell, AudioFollowsShell

\* ... the reset of an account that changes ...
LEMMA ResetShell ==
  ASSUME Shell, ResetMusic, blocked' \in BOOLEAN
  PROVE  Shell'
<1>1. Player(player') /\ player'.queue = <<>>
  BY ClearQueueOK DEF ResetMusic, Shell, PageTyped
<1>2. audio' = Silent /\ load' = load
  BY DEF ResetMusic
<1>3. PageTyped'
  BY <1>1, <1>2, SilentTyped DEF Shell, PageTyped
<1> QED
  BY <1>1, <1>2, <1>3, SilentShell

\* ... the end of a report, with what waits for it ...
LEMMA OverShell ==
  ASSUME Shell, ListeningTyped, chain # <<>>, NEW answer, Over(answer)
  PROVE  Shell'
<1> DEFINE r == Head(chain)
<1>1. blocked' = blocked /\ blocked \in BOOLEAN /\ chain' = Tail(chain)
  BY DEF Over, Shell, PageTyped
<1>2. CASE answer = "401"
  BY <1>1, <1>2, ResetShell DEF Over, SignedOut
<1>3. CASE answer # "401"
  <2>1. /\ account' = account /\ Player(player)
        /\ \E q, w : Goes(r.then, player, q, w)
    BY <1>3 DEF Over, Shell, PageTyped
  <2> HIDE DEF r
  <2>3. /\ PageTyped'
        /\ player' = player \/ player'.queue = <<>>
        /\ \/ audio' = Silent
           \/ /\ audio' = audio /\ player' = player /\ r.then \notin {"stop", "clear"}
              /\ r.then = "play" => player.queue = <<>>
    BY <1>1, <2>1, GoesPage DEF Shell
  <2>4. account = NoOne => player'.queue = <<>>
    BY <2>3 DEF Shell, Emptied
  <2>5. CASE audio' = Silent
    BY <2>1, <2>3, <2>4, <2>5, SilentShell
  <2>6. CASE /\ audio' = audio /\ player' = player /\ r.then \notin {"stop", "clear"}
             /\ r.then = "play" => player.queue = <<>>
    <3>1. Waiting("stop") # {} => Waiting("stop")' # {}
      BY <1>1, <2>6, TailWaits DEF r, ListeningTyped
    <3>2. r.then # "play" /\ Waiting("play") # {} => Waiting("play")' # {}
      BY <1>1, TailWaits DEF r, ListeningTyped
    <3>3. player.queue = <<>> /\ audio.src # NoTrack => Waiting("stop") # {}
      BY DEF Shell, Emptied
    <3>4. audio'.src # NoTrack /\ (Waiting("play") \cup Waiting("stop"))' = {} =>
            audio'.src = CurrentTrack(player')
      BY <2>6, <3>1, <3>2, <3>3 DEF Shell, AudioFollowsShell
    <3>5. Emptied'
      BY <2>1, <2>6, <3>1 DEF Shell, Emptied
    <3> QED
      BY <1>1, <2>1, <2>3, <2>6, <3>4, <3>5 DEF Shell, AudioFollowsShell
  <2> QED
    BY <2>3, <2>5, <2>6
<1> QED
  BY <1>2, <1>3

\* ... the answers that say who is signed in ...
LEMMA AccountShell ==
  ASSUME Shell, chain' = chain, NEW a, Shows(a)
  PROVE  Shell'
<1>1. blocked \in BOOLEAN
  BY DEF Shell, PageTyped
<1>2. CASE a = NoOne
  BY <1>1, <1>2, ResetShell DEF Shows, SignedOut
<1>3. CASE a # NoOne
  <2>1. Enters(a)
    BY <1>3 DEF Shows
  <2>2. blocked' \in BOOLEAN
    BY <1>1, <2>1 DEF Enters
  <2>3. CASE account \notin {NoOne, a}
    BY <2>1, <2>2, <2>3, ResetShell DEF Enters
  <2>4. CASE account \in {NoOne, a}
    <3>1. player' = player /\ audio' = audio /\ load' = load /\ account' = a
      BY <2>1, <2>4 DEF Enters, page
    <3>2. PageTyped'
      BY <2>2, <3>1 DEF Shell, PageTyped
    <3>3. blocked' => ~audio'.playing
      BY <2>1, <2>4, <3>1 DEF Enters, Shell, AudioFollowsShell
    <3>4. \A th : Waiting(th) \subseteq Waiting(th)'
      BY DEF Waiting
    <3> QED
      BY <1>3, <3>1, <3>2, <3>3, <3>4, SameTrackShell
  <2> QED
    BY <2>3, <2>4
<1> QED
  BY <1>2, <1>3

\* ... and what the page does not see.
LEMMA UnchangedShell ==
  ASSUME Shell, player' = player, audio' = audio, load' = load, chain' = chain,
         blocked' = blocked, account' = account
  PROVE  Shell'
BY DEF Shell, PageTyped, AudioFollowsShell, Emptied, Waiting

\* The first page is silent.
LEMMA ShellInit ==
  ASSUME Init
  PROVE  Shell
<1>1. player = EmptyPlayer /\ audio = Silent /\ load = NoLoad /\ blocked = FALSE
  BY DEF Init
<1>2. Player(player) /\ player.queue = <<>>
  BY <1>1, EmptyPlayerOK
<1> QED
  BY <1>1, <1>2, SilentTyped DEF Shell, PageTyped, AudioFollowsShell, Emptied

\* Every step keeps Shell.
LEMMA ShellStep ==
  ASSUME Shell, ListeningTyped, [Next]_vars
  PROVE  Shell'
<1>1. CASE PlayQueue
  BY <1>1, PlayQueueShell
<1>2. CASE Select
  BY <1>2, SelectShell
<1>3. CASE AddToQueue \/ Move \/ CycleMode
  BY <1>3, QueueEditShell
<1>4. CASE \E t \in Tracks : Remove(t)
  BY <1>4, RemoveShell
<1>5. CASE Clear
  BY <1>5, ClearShell
<1>6. CASE TogglePlayback
  BY <1>6, TogglePlaybackShell
<1>7. CASE Previous \/ NextTrack
  BY <1>7, PreviousNextShell
<1>8. CASE OpenPage
  BY <1>8, OpenPageShell
<1>9. CASE Loaded \/ LoadFails
  BY <1>9, LoadShell
<1>10. CASE TimeUpdate \/ Checkpoint
  BY <1>10, ReportShell
<1>11. CASE Ended
  BY <1>11, EndedShell
<1>12. CASE Serve
  BY <1>12, ServeShell
<1>13. CASE Answered \/ RequestLost
  BY <1>13, OverShell DEF Answered, RequestLost
<1>14. CASE LogIn \/ LogOut \/ AskWho \/ Revoked \/ FormLost
  BY <1>14, UnchangedShell DEF LogIn, LogOut, AskWho, Revoked, FormLost, ServedSwitch, page
<1>15. CASE FormAnswered \/ WhoAnswered \/ WhoLost
  BY <1>15, AccountShell DEF FormAnswered, WhoAnswered, WhoLost
<1>16. CASE UNCHANGED vars
  BY <1>16, UnchangedShell DEF vars, page, login
<1> QED
  BY <1>1, <1>2, <1>3, <1>4, <1>5, <1>6, <1>7, <1>8, <1>9, <1>10, <1>11, <1>12, <1>13,
     <1>14, <1>15, <1>16 DEF Next

-----------------------------------------------------------------------------------
\* The listening under way, as a report of it or a step of it leaves it.
Heard ==
  {l \in Listenings(opened) : l.session = listening.session /\ l.track = listening.track}

Tells(l, then) == chain' = Append(chain, Report(l, then))

\* A step opens a new listening; the account changes.
Starts ==
  /\ opened' = opened + 1 /\ qualified' = 0 /\ pending' = 0
  /\ listening' \in Listenings(opened + 1) /\ listening'.session = opened + 1

Resets == opened' = opened /\ listening' = NoListening /\ qualified' = 0 /\ pending' = 0

\* The room kept for the removals that wait.
SparesOne == opened' + Cardinality(Waiting("play"))' <= MaxSessions

\* All that a step of the page can do to the listening and to the reports.
Talks ==
  /\ \/ chain' = chain
     \/ \E l \in Heard, then \in Thens : Tells(l, then)
  /\ \/ listening' \in Heard \cup {listening, NoListening} /\ UNCHANGED <<qualified, pending, opened>>
     \/ Starts
     \/ Resets
     \/ /\ listening' \in Heard /\ listening'.enough /\ UNCHANGED <<qualified, opened>>
        /\ pending' = listening'.session /\ Tells(listening', "none")
  /\ SparesOne

\* All that the end of a report can do to them.
Ends(answer) ==
  /\ chain # <<>> /\ chain' = Tail(chain)
  /\ answer \in {Head(chain).answer, "lost"}
  /\ \/ Kept(listening, IF answer = "qualified" THEN Head(chain).session ELSE qualified,
             PendingAfter(Head(chain), answer))
     \/ Starts
     \/ Resets
  /\ SparesOne

-----------------------------------------------------------------------------------
\* A finite number of reports wait.
LEMMA WaitingFinite ==
  ASSUME NEW S, chain \in Seq(S), NEW th
  PROVE  /\ IsFiniteSet(Waiting(th)) /\ Cardinality(Waiting(th)) \in Nat
         /\ Waiting(th) \subseteq 1..Len(chain)
<1>1. Waiting(th) \subseteq 1..Len(chain) /\ Len(chain) \in Nat
  BY DEF Waiting
<1>2. IsFiniteSet(1..Len(chain))
  BY <1>1, FS_Interval
<1>3. IsFiniteSet(Waiting(th))
  BY <1>1, <1>2, FS_Subset
<1> QED
  BY <1>1, <1>3, FS_CardinalityType

\* A new report waits if it is to be gone on with.
LEMMA TellsWaits ==
  ASSUME NEW S, chain \in Seq(S), NEW l, NEW then, Tells(l, then)
  PROVE  /\ then # "play" => Cardinality(Waiting("play"))' = Cardinality(Waiting("play"))
         /\ then = "play" => Cardinality(Waiting("play"))' = Cardinality(Waiting("play")) + 1
<1> DEFINE x == Report(l, then)
           n == Len(chain)
           W == Waiting("play")
<1>1. chain' = Append(chain, x) /\ x.then = then
  BY DEF Tells, Report
<1> HIDE DEF x
<1>2. /\ n \in Nat /\ Len(chain') = n + 1
      /\ \A k \in 1..n : chain'[k] = chain[k]
      /\ chain'[n + 1] = x
  BY <1>1
<1>3. IsFiniteSet(W) /\ W \subseteq 1..n
  BY WaitingFinite
<1>4. n + 1 \notin W
  BY <1>2, <1>3
<1>5. W' = IF then = "play" THEN W \cup {n + 1} ELSE W
  BY <1>1, <1>2 DEF Waiting
<1> HIDE DEF W, n
<1>6. Cardinality(W \cup {n + 1}) = Cardinality(W) + 1
  BY <1>3, <1>4, FS_AddElement
<1>7. Cardinality(W') = IF then = "play" THEN Cardinality(W) + 1 ELSE Cardinality(W)
  BY <1>5, <1>6
<1> QED
  BY <1>7 DEF W

\* The first report ends its wait: the others move one place up.
LEMMA TailSpares ==
  ASSUME NEW S, chain \in Seq(S), chain # <<>>, chain' = Tail(chain)
  PROVE  /\ Cardinality(Waiting("play"))' \in Nat
         /\ Cardinality(Waiting("play"))' <= Cardinality(Waiting("play"))
         /\ Head(chain).then = "play" =>
              Cardinality(Waiting("play"))' <= Cardinality(Waiting("play")) - 1
<1> DEFINE n == Len(chain)
           W == Waiting("play")
           V == W'
           U == W \ {1}
           f == [k \in V |-> k + 1]
<1>1. /\ n \in Nat /\ n # 0 /\ Len(chain') = n - 1 /\ Head(chain) = chain[1]
      /\ \A k \in 1..(n - 1) : chain'[k] = chain[k + 1]
  BY DEF Head
<1>2. IsFiniteSet(W) /\ W \subseteq 1..n /\ Cardinality(W) \in Nat
  BY WaitingFinite
<1>3. /\ \A k \in V : k \in 1..(n - 1) /\ chain[k + 1].then = "play"
      /\ \A k \in 1..n : chain[k].then = "play" => k \in W
      /\ \A k \in W : k \in 1..n /\ chain[k].then = "play"
  BY <1>1 DEF Waiting
<1> HIDE DEF W, V
<1>4. \A k \in V : k \in Nat /\ k + 1 \in U
  BY <1>1, <1>3
<1>5. IsFiniteSet(U) /\ Cardinality(U) = IF 1 \in W THEN Cardinality(W) - 1 ELSE Cardinality(W)
  BY <1>2, FS_RemoveElement
<1> HIDE DEF U
<1>6. f \in Injection(V, U)
  BY <1>4 DEF Injection, IsInjective
<1> HIDE DEF f
<1>7. IsFiniteSet(V) /\ Cardinality(V) <= Cardinality(U)
  BY <1>5, <1>6, FS_Injection
<1>8. Cardinality(V) \in Nat
  BY <1>7, FS_CardinalityType
<1>9. Head(chain).then = "play" => 1 \in W
  BY <1>1, <1>3
<1>10. /\ Cardinality(V) <= Cardinality(W)
       /\ 1 \in W => Cardinality(V) <= Cardinality(W) - 1
  BY <1>2, <1>5, <1>7, <1>8
<1> QED
  BY <1>8, <1>9, <1>10 DEF V, W

\* A listening that plays, pauses or lasts is still the same.
LEMMA HeardChanged ==
  ASSUME ListeningTyped, listening # NoListening
  PROVE  /\ listening \in Heard
         /\ \A b \in BOOLEAN : [listening EXCEPT !.playing = b] \in Heard
         /\ [listening EXCEPT !.enough = TRUE] \in Heard
BY DEF Heard, ListeningTyped, Listenings

\* reportMusicListening adds a report of the listening, or none when there is none.
LEMMA ReportsTalk ==
  ASSUME ListeningTyped, NEW l \in Heard \cup {NoListening}, NEW then \in Thens,
         Reports(l, then)
  PROVE  /\ chain' = chain \/ \E m \in Heard, th \in Thens : Tells(m, th)
         /\ then # "play" => Cardinality(Waiting("play"))' = Cardinality(Waiting("play"))
         /\ Cardinality(Waiting("play"))' <= Cardinality(Waiting("play")) + 1
<1>1. Cardinality(Waiting("play")) \in Nat
  BY WaitingFinite DEF ListeningTyped
<1>2. CASE l = NoListening
  <2>1. chain' = chain
    BY <1>2 DEF Reports
  <2>2. Waiting("play")' = Waiting("play")
    BY <2>1 DEF Waiting
  <2> QED
    BY <1>1, <2>1, <2>2
<1>3. CASE l # NoListening
  <2>1. Tells(l, then) /\ l \in Heard
    BY <1>3 DEF Reports, Tells
  <2>2. /\ then # "play" => Cardinality(Waiting("play"))' = Cardinality(Waiting("play"))
        /\ then = "play" => Cardinality(Waiting("play"))' = Cardinality(Waiting("play")) + 1
    BY <2>1, TellsWaits DEF ListeningTyped
  <2> QED
    BY <1>1, <2>1, <2>2
<1> QED
  BY <1>2, <1>3

\* startMusicListening opens a session.
LEMMA StartsTyped ==
  ASSUME opened \in Nat, NEW t \in Tracks, NEW b \in BOOLEAN, StartListening(t, b)
  PROVE  Starts
<1>1. /\ opened' = opened + 1 /\ qualified' = 0 /\ pending' = 0
      /\ listening' = [session |-> opened + 1, track |-> t, enough |-> FALSE, playing |-> b]
  BY DEF StartListening
<1>2. opened + 1 \in 1..(opened + 1)
  OBVIOUS
<1>3. listening' \in Listenings(opened + 1) /\ listening'.session = opened + 1
  BY <1>1, <1>2 DEF Listenings
<1> QED
  BY <1>1, <1>3 DEF Starts

\* A step that says nothing.
LEMMA SilentTalk ==
  ASSUME ListeningTyped, UNCHANGED <<listening, qualified, pending, opened, chain>>
  PROVE  Talks
<1>1. Waiting("play")' = Waiting("play")
  BY DEF Waiting
<1>2. SparesOne
  BY <1>1 DEF SparesOne, ListeningTyped
<1> QED
  BY <1>2 DEF Talks

\* A track played afresh is a new listening.
LEMMA PlayCurrentTalk ==
  ASSUME PageTyped, ListeningTyped, NEW p, CurrentTrack(p) \in Tracks,
         NEW autoplay \in BOOLEAN, NEW replay \in BOOLEAN, PlayCurrent(p, autoplay, replay),
         Fresh(p, replay)
  PROVE  Starts
<1> DEFINE again == replay /\ audio.src # NoTrack
           plays == audio.playing \/ (autoplay /\ ~blocked)
           b == again /\ plays
<1>1. b \in BOOLEAN
  OBVIOUS
<1>2. StartListening(CurrentTrack(p), b)
  BY DEF PlayCurrent
<1> HIDE DEF b
<1> QED
  BY <1>1, <1>2, StartsTyped DEF ListeningTyped

\* Each action of the page comes down to Talks: a click that plays ...
LEMMA PlayNowTalk ==
  ASSUME PageTyped, ListeningTyped, NEW p, CurrentTrack(p) \in Tracks,
         NEW autoplay \in BOOLEAN, NEW replay \in BOOLEAN, PlayNow(p, autoplay, replay)
  PROVE  Talks
<1>1. /\ Cardinality(Waiting("play")) \in Nat /\ opened \in Nat
      /\ opened + Cardinality(Waiting("play")) < MaxSessions
  BY WaitingFinite DEF PlayNow, Spare, ListeningTyped
<1>2. CASE Fresh(p, replay)
  <2>1. Starts
    BY <1>2, PlayCurrentTalk DEF PlayNow
  <2>2. Reports(listening, "none") /\ listening \in Heard \cup {NoListening}
    BY <1>2, HeardChanged DEF PlayNow
  <2>3. /\ chain' = chain \/ \E m \in Heard, th \in Thens : Tells(m, th)
        /\ Cardinality(Waiting("play"))' = Cardinality(Waiting("play"))
    BY <2>2, ReportsTalk DEF Thens
  <2>4. SparesOne
    BY <1>1, <2>1, <2>3, PlayerAssumption DEF SparesOne, Starts
  <2> QED
    BY <2>1, <2>3, <2>4 DEF Talks
<1>3. CASE ~Fresh(p, replay)
  BY <1>3, SilentTalk DEF PlayNow, SameListening, Kept
<1> QED
  BY <1>2, <1>3

\* ... a listening reported as it pauses ...
LEMMA PauseTalk ==
  ASSUME ListeningTyped, NEW l \in Heard \cup {NoListening}, Reports(l, "none"),
         SameListening(l)
  PROVE  Talks
<1>1. /\ chain' = chain \/ \E m \in Heard, th \in Thens : Tells(m, th)
      /\ Cardinality(Waiting("play"))' = Cardinality(Waiting("play"))
  BY ReportsTalk DEF Thens
<1>2. listening' = l /\ UNCHANGED <<qualified, pending, opened>>
  BY DEF SameListening, Kept
<1>3. SparesOne
  BY <1>1, <1>2 DEF SparesOne, ListeningTyped
<1> QED
  BY <1>1, <1>2, <1>3 DEF Talks

\* ... by the event ...
LEMMA PauseEventTalk ==
  ASSUME ListeningTyped, PauseEvent
  PROVE  Talks
<1> DEFINE l == [listening EXCEPT !.playing = FALSE]
<1>1. l \in Heard \cup {NoListening}
  <2>1. ASSUME NEW r, r = [NoListening EXCEPT !.playing = FALSE]
        PROVE  r = NoListening
    BY <2>1 DEF NoListening
  <2>2. listening = NoListening => l = NoListening
    BY <2>1
  <2> QED
    BY <2>2, HeardChanged
<1>2. Reports(l, "none") /\ SameListening(l)
  BY DEF PauseEvent
<1> HIDE DEF l
<1> QED
  BY <1>1, <1>2, PauseTalk

\* ... the play event, which starts a listening of another track ...
LEMMA PlayEventTalk ==
  ASSUME ListeningTyped, NEW t \in Tracks, PlayEvent(t), chain' = chain
  PROVE  Talks
<1>1. Waiting("play")' = Waiting("play") /\ Cardinality(Waiting("play")) \in Nat
  BY WaitingFinite DEF Waiting, ListeningTyped
<1>2. CASE listening.track = t
  <2>1. listening # NoListening
    BY <1>2, TracksAssumption DEF NoListening
  <2>2. listening' \in Heard /\ UNCHANGED <<qualified, pending, opened>>
    BY <1>2, <2>1, HeardChanged DEF PlayEvent, SameListening, Kept
  <2>3. SparesOne
    BY <1>1, <2>2 DEF SparesOne, ListeningTyped
  <2> QED
    BY <2>2, <2>3 DEF Talks
<1>3. CASE listening.track # t
  <2>1. Starts
    BY <1>3, StartsTyped DEF PlayEvent, ListeningTyped
  <2>2. SparesOne
    BY <1>1, <1>3, <2>1, PlayerAssumption DEF SparesOne, Starts, PlayEvent, Spare, ListeningTyped
  <2> QED
    BY <2>1, <2>2 DEF Talks
<1> QED
  BY <1>2, <1>3

\* What a removal goes on with starts a listening, or leaves it.
LEMMA GoesTalk ==
  ASSUME PageTyped, ListeningTyped, NEW then, NEW p, Player(p), NEW q, NEW w,
         Goes(then, p, q, w)
  PROVE  Kept(listening, q, w) \/ (then = "play" /\ Starts)
<1>1. CASE then = "play" /\ CurrentTrack(p) # NoTrack /\ Fresh(p, FALSE)
  <2>1. PlayCurrent(p, TRUE, FALSE) /\ CurrentTrack(p) \in Tracks
    BY <1>1, CurrentFound DEF Goes
  <2> QED
    BY <1>1, <2>1, PlayCurrentTalk
<1>2. CASE ~(then = "play" /\ CurrentTrack(p) # NoTrack /\ Fresh(p, FALSE))
  BY <1>2 DEF Goes
<1> QED
  BY <1>1, <1>2

\* ... a listening that ends with a removal ...
LEMMA EndedListeningTalk ==
  ASSUME PageTyped, ListeningTyped, NEW then \in Thens, NEW p, Player(p),
         then = "play" => Spare,
         \/ /\ listening = NoListening
            /\ Goes(then, p, qualified, pending) /\ UNCHANGED chain
         \/ /\ listening # NoListening
            /\ Reports(listening, then) /\ SameListening(NoListening)
  PROVE  Talks
<1>1. /\ Cardinality(Waiting("play")) \in Nat /\ opened \in Nat /\ MaxSessions \in Nat
      /\ opened + Cardinality(Waiting("play")) <= MaxSessions
      /\ then = "play" => opened + Cardinality(Waiting("play")) < MaxSessions
  BY WaitingFinite, PlayerAssumption DEF Spare, ListeningTyped
<1>2. CASE /\ listening = NoListening
           /\ Goes(then, p, qualified, pending) /\ UNCHANGED chain
  <2>1. Kept(listening, qualified, pending) \/ (then = "play" /\ Starts)
    BY <1>2, GoesTalk
  <2>2. CASE Kept(listening, qualified, pending)
    BY <1>2, <2>2, SilentTalk DEF Kept
  <2>3. CASE then = "play" /\ Starts
    <3>1. Waiting("play")' = Waiting("play")
      BY <1>2 DEF Waiting
    <3>2. SparesOne
      BY <1>1, <2>3, <3>1 DEF SparesOne, Starts
    <3> QED
      BY <1>2, <2>3, <3>2 DEF Talks
  <2> QED
    BY <2>1, <2>2, <2>3
<1>3. CASE /\ listening # NoListening
           /\ Reports(listening, then) /\ SameListening(NoListening)
  <2>1. /\ chain' = chain \/ \E m \in Heard, th \in Thens : Tells(m, th)
        /\ then # "play" => Cardinality(Waiting("play"))' = Cardinality(Waiting("play"))
        /\ Cardinality(Waiting("play"))' <= Cardinality(Waiting("play")) + 1
    BY <1>3, HeardChanged, ReportsTalk
  <2>2. listening' = NoListening /\ UNCHANGED <<qualified, pending, opened>>
    BY <1>3 DEF SameListening, Kept
  <2>3. Cardinality(Waiting("play"))' \in Nat
    <3>1. CASE chain' = chain
      BY <1>1, <3>1 DEF Waiting
    <3>2. CASE \E m \in Heard, th \in Thens : Tells(m, th)
      BY <1>1, <3>2, TellsWaits DEF ListeningTyped
    <3> QED
      BY <2>1, <3>1, <3>2
  <2>4. SparesOne
    BY <1>1, <2>1, <2>2, <2>3 DEF SparesOne
  <2> QED
    BY <2>1, <2>2, <2>4 DEF Talks
<1> QED
  BY <1>2, <1>3

\* ... one that ends as another starts ...
LEMMA ReportStartTalk ==
  ASSUME ListeningTyped, Spare, Reports(listening, "none"), Starts
  PROVE  Talks
<1>1. /\ Cardinality(Waiting("play")) \in Nat /\ opened \in Nat /\ MaxSessions \in Nat
      /\ opened + Cardinality(Waiting("play")) < MaxSessions
  BY WaitingFinite, PlayerAssumption DEF Spare, ListeningTyped
<1>2. listening \in Heard \cup {NoListening}
  BY HeardChanged
<1>3. /\ chain' = chain \/ \E m \in Heard, th \in Thens : Tells(m, th)
      /\ Cardinality(Waiting("play"))' = Cardinality(Waiting("play"))
  BY <1>2, ReportsTalk DEF Thens
<1>4. SparesOne
  BY <1>1, <1>3 DEF SparesOne, Starts
<1> QED
  BY <1>3, <1>4 DEF Talks

\* ... the current track removed, the queue cleared ...
LEMMA RemoveClearTalk ==
  ASSUME PageTyped, ListeningTyped, Clear \/ \E t \in Tracks : Remove(t)
  PROVE  Talks
<1>1. CASE Clear
  <2>1. Player(player) /\ "clear" \in Thens
    BY DEF PageTyped, Thens
  <2> QED
    BY <1>1, <2>1, EndedListeningTalk DEF Clear
<1>2. ASSUME NEW t \in Tracks, Remove(t)
      PROVE  Talks
  <2> DEFINE p == RemoveTrack(player, t)
             then == IF p.queue = <<>> THEN "stop" ELSE "play"
  <2>1. Player(p) /\ then \in Thens
    BY <1>2, RemoveTrackOK DEF PageTyped, Thens, Remove
  <2>2. CASE t # CurrentTrack(player)
    BY <1>2, <2>2, SilentTalk DEF Remove
  <2>3. CASE t = CurrentTrack(player)
    <3>1. /\ then = "play" => Spare
          /\ \/ /\ listening = NoListening
                /\ Goes(then, p, qualified, pending) /\ UNCHANGED chain
             \/ /\ listening # NoListening
                /\ Reports(listening, then) /\ SameListening(NoListening)
      BY <1>2, <2>3 DEF Remove
    <3> HIDE DEF p, then
    <3> QED
      BY <2>1, <3>1, EndedListeningTalk
  <2> QED
    BY <2>2, <2>3
<1> QED
  BY <1>1, <1>2

\* ... a queue or a track chosen ...
LEMMA PlayTalk ==
  ASSUME PageTyped, ListeningTyped, PlayQueue \/ Select
  PROVE  Talks
<1>0. Player(player)
  BY DEF PageTyped
<1>1. CASE PlayQueue
  <2>0. PICK tracks \in Lists :
          \E i \in DOMAIN tracks, o \in Orders(Len(tracks)) :
            /\ IF player.mode = "shuffle" THEN o[1] = i ELSE o = Natural(Len(tracks))
            /\ PlayNow(SetQueue(player, tracks, tracks[i], o), TRUE, FALSE)
    BY <1>1 DEF PlayQueue
  <2>1. PICK i \in DOMAIN tracks, o \in Orders(Len(tracks)) :
          /\ IF player.mode = "shuffle" THEN o[1] = i ELSE o = Natural(Len(tracks))
          /\ PlayNow(SetQueue(player, tracks, tracks[i], o), TRUE, FALSE)
    BY <2>0
  <2>2. PICK n \in 1..Cardinality(Tracks) :
          tracks \in [1..n -> Tracks] /\ \A x, y \in 1..n : tracks[x] = tracks[y] => x = y
    BY DEF Lists
  <2>3. n \in Nat /\ i \in 1..n /\ Len(tracks) = n
    BY <2>2
  <2>4. CurrentTrack(SetQueue(player, tracks, tracks[i], o)) \in Tracks
    BY <1>0, <2>1, <2>2, <2>3, SetQueueOK
  <2> QED
    BY <2>1, <2>4, PlayNowTalk
<1>2. CASE Select
  <2>1. PICK t \in Queued(player) :
          PlayNow(SelectTrack(player, t), TRUE, PositionOf(player, t) = player.position)
    BY <1>2 DEF Select
  <2> DEFINE b == PositionOf(player, t) = player.position
             p == SelectTrack(player, t)
  <2>2. CurrentTrack(p) \in Tracks
    BY <1>0, PositionFound, PositionedOK DEF SelectTrack
  <2>3. b \in BOOLEAN /\ PlayNow(p, TRUE, b)
    BY <2>1
  <2> HIDE DEF b, p
  <2> QED
    BY <2>2, <2>3, PlayNowTalk
<1> QED
  BY <1>1, <1>2

\* ... the buttons of the player ...
LEMMA ControlsTalk ==
  ASSUME PageTyped, ListeningTyped, TogglePlayback \/ Previous \/ NextTrack \/ OpenPage
  PROVE  Talks
<1>1. /\ Player(player) /\ audio.playing \in BOOLEAN
      /\ CurrentTrack(player) # NoTrack => CurrentTrack(player) \in Tracks /\ player.position # 0
  BY CurrentFound DEF PageTyped
<1>2. ASSUME NEW k \in 1..Size(player), PlayNow([player EXCEPT !.position = k], audio.playing, FALSE)
      PROVE  Talks
  <2>1. CurrentTrack([player EXCEPT !.position = k]) \in Tracks
    BY <1>1, PositionedOK
  <2> QED
    BY <1>1, <1>2, <2>1, PlayNowTalk
<1>3. CASE TogglePlayback
  <2>1. CurrentTrack(player) \in Tracks
    BY <1>1, <1>3 DEF TogglePlayback
  <2>2. \/ PlayNow(player, TRUE, FALSE)
        \/ PlayEvent(CurrentTrack(player)) /\ chain' = chain
        \/ PauseEvent
    BY <1>3 DEF TogglePlayback
  <2> QED
    BY <2>1, <2>2, PlayNowTalk, PlayEventTalk, PauseEventTalk
<1>4. CASE Previous
  <2>1. player.position # 0 /\ CurrentTrack(player) \in Tracks
    BY <1>1, <1>4 DEF Previous
  <2>2. CASE Restart
    <3>1. Starts
      BY <1>1, <2>1, <2>2, StartsTyped DEF Restart, ListeningTyped
    <3> QED
      BY <2>2, <3>1, ReportStartTalk DEF Restart
  <2>3. CASE PlayNow([player EXCEPT !.position = PreviousPosition(player)], audio.playing, FALSE)
    BY <1>1, <1>2, <2>1, <2>3, PreviousPositionOK
  <2> QED
    BY <1>4, <2>2, <2>3 DEF Previous
<1>5. CASE NextTrack
  <2> DEFINE k == NextPosition(player, FALSE)
  <2>1. player.position # 0
    BY <1>1, <1>5 DEF NextTrack
  <2>2. k \in 0..Size(player) /\ Size(player) \in Nat
    BY <1>1, <2>1, NextPositionOK, PlayerShape
  <2>3. \/ k # 0 /\ PlayNow([player EXCEPT !.position = k], audio.playing, FALSE)
        \/ PauseEvent
    BY <1>5 DEF NextTrack
  <2> HIDE DEF k
  <2>4. k # 0 => k \in 1..Size(player)
    BY <2>2
  <2> QED
    BY <1>2, <2>3, <2>4, PauseEventTalk
<1>6. CASE OpenPage
  <2>1. PauseEvent \/ UNCHANGED <<listening, qualified, pending, opened, chain>>
    BY <1>6 DEF OpenPage, PagePolicy, page
  <2> QED
    BY <2>1, PauseEventTalk, SilentTalk
<1> QED
  BY <1>3, <1>4, <1>5, <1>6

\* ... and what the page does by itself.
LEMMA ByItselfTalk ==
  ASSUME PageTyped, ListeningTyped, Loaded \/ LoadFails \/ TimeUpdate \/ Checkpoint \/ Ended
  PROVE  Talks
<1>0. Player(player) /\ blocked \in BOOLEAN /\ opened \in Nat
  BY DEF PageTyped, ListeningTyped
<1>1. CASE Loaded
  <2>1. load.track \in Tracks /\ chain' = chain
    BY <1>1 DEF Loaded, PageTyped
  <2>2. \/ UNCHANGED <<listening, qualified, pending, opened>>
        \/ PlayEvent(load.track)
    BY <1>1 DEF Loaded, SameListening, Kept
  <2> QED
    BY <2>1, <2>2, PlayEventTalk, SilentTalk
<1>2. CASE LoadFails
  BY <1>2, SilentTalk DEF LoadFails
<1>3. CASE Checkpoint
  <2>1. Reports(listening, "none") /\ listening \in Heard \cup {NoListening} /\ SameListening(listening)
    BY <1>3, HeardChanged DEF Checkpoint, page, SameListening, Kept
  <2> QED
    BY <2>1, PauseTalk
<1>4. CASE TimeUpdate
  <2>1. listening # NoListening
    BY <1>4 DEF TimeUpdate, NoListening
  <2>2. listening' \in Heard /\ listening'.enough /\ listening'.session = listening.session
    <3>1. listening' = [listening EXCEPT !.enough = TRUE] /\ listening \in Listenings(opened)
      BY <1>4, <2>1 DEF TimeUpdate, ListeningTyped
    <3>2. listening'.enough
      BY <3>1 DEF Listenings
    <3> QED
      BY <2>1, <3>1, <3>2, HeardChanged DEF Heard
  <2>3. qualified' = qualified /\ opened' = opened
    BY <1>4 DEF TimeUpdate
  <2>4. CASE UNCHANGED <<pending, chain>>
    <3>1. Waiting("play")' = Waiting("play")
      BY <2>4 DEF Waiting
    <3>2. SparesOne
      BY <2>3, <3>1 DEF SparesOne, ListeningTyped
    <3> QED
      BY <2>2, <2>3, <2>4, <3>2 DEF Talks
  <2>5. CASE pending' = listening.session /\ Reports(listening', "none")
    <3>1. listening' # NoListening
      BY <2>2 DEF NoListening
    <3>2. Tells(listening', "none")
      BY <2>5, <3>1 DEF Reports, Tells
    <3>3. Cardinality(Waiting("play"))' = Cardinality(Waiting("play"))
      BY <3>2, TellsWaits DEF ListeningTyped
    <3>4. SparesOne
      BY <2>3, <3>3 DEF SparesOne, ListeningTyped
    <3> QED
      BY <2>2, <2>3, <2>5, <3>2, <3>4 DEF Talks, Thens
  <2> QED
    BY <1>4, <2>4, <2>5 DEF TimeUpdate
<1>5. CASE Ended
  <2> DEFINE to == NextPosition(player, TRUE)
             p == [player EXCEPT !.position = to]
  <2>1. Reports(listening, "none") /\ listening \in Heard \cup {NoListening}
    BY <1>5, HeardChanged DEF Ended
  <2>2. CASE player.position = 0 \/ to = 0
    <3>1. /\ chain' = chain \/ \E m \in Heard, th \in Thens : Tells(m, th)
          /\ Cardinality(Waiting("play"))' = Cardinality(Waiting("play"))
      BY <2>1, ReportsTalk DEF Thens
    <3>2. listening' = NoListening /\ UNCHANGED <<qualified, pending, opened>>
      BY <1>5, <2>2 DEF Ended, SameListening, Kept
    <3>3. SparesOne
      BY <3>1, <3>2 DEF SparesOne, ListeningTyped
    <3> QED
      BY <3>1, <3>2, <3>3 DEF Talks
  <2>3. CASE player.position # 0 /\ to # 0
    <3>1. to \in 0..Size(player) /\ Size(player) \in Nat
      BY <1>0, <2>3, NextPositionOK, PlayerShape
    <3>2. to \in 1..Size(player)
      <4> HIDE DEF to
      <4> QED
        BY <2>3, <3>1
    <3>3. CurrentTrack(p) \in Tracks
      BY <1>0, <3>2, PositionedOK
    <3> DEFINE b == player.mode = "repeat-one" /\ ~blocked
    <3>4. Spare /\ b \in BOOLEAN /\ StartListening(CurrentTrack(p), b)
      BY <1>5, <2>3 DEF Ended
    <3> HIDE DEF b, p
    <3> QED
      BY <1>0, <2>1, <3>3, <3>4, StartsTyped, ReportStartTalk
  <2> QED
    BY <2>2, <2>3
<1> QED
  BY <1>1, <1>2, <1>3, <1>4, <1>5

\* The end of a report comes down to Ends.
LEMMA OverEnds ==
  ASSUME PageTyped, ListeningTyped, chain # <<>>, NEW answer,
         answer \in {Head(chain).answer, "lost"}, Over(answer)
  PROVE  Ends(answer)
<1> DEFINE r == Head(chain)
           q == IF answer = "qualified" THEN r.session ELSE qualified
           W == Cardinality(Waiting("play"))
<1>1. chain' = Tail(chain) /\ Player(player)
  BY DEF Over, PageTyped
<1>2. W \in Nat /\ opened \in Nat /\ MaxSessions \in Nat /\ opened + W <= MaxSessions
  BY WaitingFinite, PlayerAssumption DEF ListeningTyped
<1>3. W' \in Nat /\ W' <= W /\ (r.then = "play" => W' <= W - 1)
  BY <1>1, TailSpares DEF ListeningTyped
<1>4. CASE answer = "401"
  <2>1. Resets
    BY <1>4 DEF Over, SignedOut, ResetMusic, Resets
  <2>2. SparesOne
    BY <1>2, <1>3, <2>1 DEF SparesOne, Resets
  <2> QED
    BY <1>1, <2>1, <2>2 DEF Ends
<1>5. CASE answer # "401"
  <2>1. Goes(r.then, player, q, PendingAfter(r, answer))
    BY <1>5 DEF Over
  <2>2. Kept(listening, q, PendingAfter(r, answer)) \/ (r.then = "play" /\ Starts)
    BY <1>1, <2>1, GoesTalk
  <2>3. CASE Kept(listening, q, PendingAfter(r, answer))
    <3>1. SparesOne
      BY <1>2, <1>3, <2>3 DEF SparesOne, Kept
    <3> QED
      BY <1>1, <2>3, <3>1 DEF Ends
  <2>4. CASE r.then = "play" /\ Starts
    <3>1. SparesOne
      BY <1>2, <1>3, <2>4 DEF SparesOne, Starts
    <3> QED
      BY <1>1, <2>4, <3>1 DEF Ends
  <2> QED
    BY <2>2, <2>3, <2>4
<1> QED
  BY <1>4, <1>5

\* An answer that says who is signed in resets the listening, or leaves it.
LEMMA AccountTalk ==
  ASSUME ListeningTyped, chain' = chain, NEW a, Shows(a)
  PROVE  Talks
<1>1. Waiting("play")' = Waiting("play")
  BY DEF Waiting
<1>2. ResetMusic \/ UNCHANGED <<listening, qualified, pending, opened>>
  BY DEF Shows, SignedOut, Enters, page
<1>3. CASE ResetMusic
  BY <1>1, <1>3 DEF ResetMusic, Talks, Resets, SparesOne, ListeningTyped
<1>4. CASE UNCHANGED <<listening, qualified, pending, opened>>
  BY <1>4, SilentTalk
<1> QED
  BY <1>2, <1>3, <1>4

\* Every step comes down to Talks, Ends or Serve.
LEMMA TalkStep ==
  ASSUME PageTyped, ListeningTyped, [Next]_vars
  PROVE  \/ Talks /\ UNCHANGED <<sessions, history>>
         \/ Serve
         \/ (\E answer : Ends(answer)) /\ UNCHANGED <<sessions, history>>
<1>1. CASE AddToQueue \/ Move \/ CycleMode
  BY <1>1, SilentTalk DEF AddToQueue, Move, CycleMode, UserKeeps, server
<1>2. CASE PlayQueue \/ Select
  BY <1>2, PlayTalk DEF PlayQueue, Select, UserKeeps, server
<1>3. CASE Clear \/ \E t \in Tracks : Remove(t)
  BY <1>3, RemoveClearTalk DEF Clear, Remove, UserKeeps, server
<1>4. CASE TogglePlayback \/ Previous \/ NextTrack \/ OpenPage
  BY <1>4, ControlsTalk DEF TogglePlayback, Previous, NextTrack, OpenPage, UserKeeps, server
<1>5. CASE Loaded \/ LoadFails \/ TimeUpdate \/ Checkpoint \/ Ended
  BY <1>5, ByItselfTalk DEF Loaded, LoadFails, TimeUpdate, Checkpoint, Ended, PageKeeps, server
<1>6. CASE Answered \/ RequestLost
  BY <1>6, OverEnds DEF Answered, RequestLost, Over, server
<1>7. CASE LogIn \/ LogOut \/ AskWho \/ Revoked
  BY <1>7, SilentTalk DEF LogIn, LogOut, AskWho, Revoked, ServedSwitch, page
<1>8. CASE FormLost
  BY <1>8, SilentTalk DEF FormLost, page, server
<1>9. CASE FormAnswered \/ WhoAnswered \/ WhoLost
  BY <1>9, AccountTalk DEF FormAnswered, WhoAnswered, WhoLost, server
<1>10. CASE UNCHANGED vars
  BY <1>10, SilentTalk DEF vars, page, server
<1> QED
  BY <1>1, <1>2, <1>3, <1>4, <1>5, <1>6, <1>7, <1>8, <1>9, <1>10 DEF Next

-----------------------------------------------------------------------------------
\* Who is signed in, for the page, for the server and in the answers on their way.
AccountsTyped ==
  /\ account \in People /\ bound \in People
  /\ form \in {NoForm} \cup [kind : {"login", "logout"}, to : People]
  /\ me \in People \cup {NoAnswer}

\* Accounts are well formed at first ...
LEMMA AccountsInit ==
  ASSUME Init
  PROVE  AccountsTyped
BY DEF Init, AccountsTyped, People

\* ... when the page shows one ...
LEMMA ShowsTyped ==
  ASSUME NEW a \in People, Shows(a)
  PROVE  account' \in People
BY DEF Shows, SignedOut, Enters, People

\* ... and at every step.
LEMMA AccountsStep ==
  ASSUME AccountsTyped, [Next]_vars
  PROVE  AccountsTyped'
<1>1. CASE UNCHANGED login /\ bound' = bound
  BY <1>1 DEF AccountsTyped, login
<1>2. CASE Answered \/ RequestLost
  <2>1. PICK answer : Over(answer)
    BY <1>2 DEF Answered, RequestLost
  <2>2. account' \in {account, NoOne} /\ form' = form /\ me' = me /\ bound' = bound
    BY <2>1 DEF Over, SignedOut, server
  <2> QED
    BY <2>2 DEF AccountsTyped, People
<1>3. CASE LogIn
  BY <1>3 DEF LogIn, ServedSwitch, AccountsTyped, People
<1>4. CASE LogOut
  BY <1>4 DEF LogOut, ServedSwitch, AccountsTyped, People
<1>5. CASE AskWho \/ Revoked
  BY <1>5 DEF AskWho, Revoked, ServedSwitch, AccountsTyped, People
<1>6. CASE FormAnswered \/ FormLost
  <2>1. form.to \in People
    BY <1>6 DEF FormAnswered, FormLost, AccountsTyped
  <2> QED
    BY <1>6, <2>1, ShowsTyped DEF FormAnswered, FormLost, AccountsTyped, server
<1>7. CASE WhoAnswered \/ WhoLost
  <2>1. me # NoAnswer /\ me \in People /\ NoOne \in People
    BY <1>7 DEF WhoAnswered, WhoLost, AccountsTyped, People
  <2> QED
    BY <1>7, <2>1, ShowsTyped DEF WhoAnswered, WhoLost, AccountsTyped, server
<1>8. CASE \/ PlayQueue \/ Select \/ AddToQueue \/ Move \/ CycleMode
           \/ (\E t \in Tracks : Remove(t)) \/ Clear
           \/ TogglePlayback \/ Previous \/ NextTrack
  BY <1>1, <1>8 DEF PlayQueue, Select, AddToQueue, Move, CycleMode, Remove, Clear,
     TogglePlayback, Previous, NextTrack, UserKeeps, server
<1>9. CASE \/ OpenPage \/ Loaded \/ LoadFails \/ TimeUpdate \/ Checkpoint \/ Ended
           \/ Serve \/ UNCHANGED vars
  BY <1>1, <1>9 DEF OpenPage, Loaded, LoadFails, TimeUpdate, Checkpoint, Ended, Serve,
     PageKeeps, server, vars
<1> QED
  BY <1>2, <1>3, <1>4, <1>5, <1>6, <1>7, <1>8, <1>9 DEF Next

-----------------------------------------------------------------------------------
\* The rows of the server are well formed.
ServerTyped ==
  /\ DOMAIN sessions \subseteq 1..opened
  /\ sessions \in [DOMAIN sessions -> Rows]
  /\ history \in [Accounts -> [Tracks -> Nat]]

\* A session is of one track, wherever it is named.
OneTrackEach ==
  \E of \in [1..opened -> Tracks] :
    /\ listening # NoListening => listening.track = of[listening.session]
    /\ \A k \in 1..Len(chain) : chain[k].track = of[chain[k].session]
    /\ \A s \in DOMAIN sessions : sessions[s].track = of[s]

\* An answer that says "qualified" is of a session that is.
AnswersTrue ==
  \A k \in 1..Len(chain) : chain[k].answer = "qualified" =>
    chain[k].session \in DOMAIN sessions /\ sessions[chain[k].session].qualified

\* The invariant of what is reported and recorded.
Counting ==
  ListeningTyped /\ ServerTyped /\ OneTrackEach /\ AnswersTrue /\ PlaysCounted
    /\ QualifiedIsCounted

-----------------------------------------------------------------------------------
\* What is well formed stays so when a session is opened.
LEMMA TypedLater ==
  ASSUME opened \in Nat, opened' \in {opened, opened + 1}
  PROVE  /\ Listenings(opened) \subseteq Listenings(opened')
         /\ ReportsTo(opened) \subseteq ReportsTo(opened')
         /\ Seq(ReportsTo(opened)) \subseteq Seq(ReportsTo(opened'))
         /\ 0..opened \subseteq 0..opened' /\ 1..opened \subseteq 1..opened'
<1>1. 0..opened \subseteq 0..opened' /\ 1..opened \subseteq 1..opened'
  OBVIOUS
<1>2. ReportsTo(opened) \subseteq ReportsTo(opened')
  BY <1>1 DEF ReportsTo
<1>3. Listenings(opened) \subseteq Listenings(opened')
  BY <1>1 DEF Listenings
<1>4. Seq(ReportsTo(opened)) \subseteq Seq(ReportsTo(opened'))
  BY <1>2
<1> QED
  BY <1>1, <1>2, <1>3, <1>4

\* The chain with one more report.
LEMMA ToldShape ==
  ASSUME ListeningTyped, NEW l \in Heard, NEW then \in Thens, Tells(l, then)
  PROVE  /\ chain' \in Seq(ReportsTo(opened)) /\ Len(chain') = Len(chain) + 1
         /\ Len(chain) \in Nat
         /\ \A k \in 1..Len(chain) : chain'[k] = chain[k]
         /\ chain'[Len(chain) + 1].session = listening.session
         /\ chain'[Len(chain) + 1].track = listening.track
         /\ chain'[Len(chain) + 1].answer = "none"
         /\ chain'[Len(chain) + 1].enough = l.enough
         /\ listening # NoListening
<1> DEFINE x == Report(l, then)
<1>1. l \in Listenings(opened) /\ l.session = listening.session /\ l.track = listening.track
  BY DEF Heard
<1>2. /\ x.session = l.session /\ x.track = l.track /\ x.answer = "none" /\ x.enough = l.enough
      /\ x \in ReportsTo(opened)
  BY <1>1 DEF Report, ReportsTo, Listenings, Answers
<1>3. listening # NoListening
  BY <1>1 DEF Listenings, NoListening
<1>4. chain' = Append(chain, x) /\ chain \in Seq(ReportsTo(opened))
  BY DEF Tells, ListeningTyped
<1> HIDE DEF x
<1>5. /\ chain' \in Seq(ReportsTo(opened)) /\ Len(chain') = Len(chain) + 1
      /\ Len(chain) \in Nat
      /\ \A k \in 1..Len(chain) : chain'[k] = chain[k]
      /\ chain'[Len(chain) + 1] = x
  BY <1>2, <1>4
<1> QED
  BY <1>1, <1>2, <1>3, <1>5

\* What a step of the page makes of the chain ...
LEMMA TalksChain ==
  ASSUME ListeningTyped, Talks
  PROVE  /\ chain' \in Seq(ReportsTo(opened)) /\ Len(chain) \in Nat /\ Len(chain') \in Nat
         /\ Len(chain) <= Len(chain')
         /\ \A k \in 1..Len(chain) : chain'[k] = chain[k]
         /\ \A k \in 1..Len(chain') :
              \/ k \in 1..Len(chain)
              \/ /\ chain'[k].session = listening.session /\ chain'[k].track = listening.track
                 /\ chain'[k].answer = "none" /\ listening # NoListening
<1>1. chain \in Seq(ReportsTo(opened)) /\ Len(chain) \in Nat
  BY DEF ListeningTyped
<1>2. CASE chain' = chain
  BY <1>1, <1>2
<1>3. ASSUME NEW l \in Heard, NEW then \in Thens, Tells(l, then)
      PROVE  /\ chain' \in Seq(ReportsTo(opened)) /\ Len(chain) \in Nat /\ Len(chain') \in Nat
             /\ Len(chain) <= Len(chain')
             /\ \A k \in 1..Len(chain) : chain'[k] = chain[k]
             /\ \A k \in 1..Len(chain') :
                  \/ k \in 1..Len(chain)
                  \/ /\ chain'[k].session = listening.session /\ chain'[k].track = listening.track
                     /\ chain'[k].answer = "none" /\ listening # NoListening
  <2>1. /\ chain' \in Seq(ReportsTo(opened)) /\ Len(chain') = Len(chain) + 1
        /\ Len(chain) \in Nat
        /\ \A k \in 1..Len(chain) : chain'[k] = chain[k]
        /\ chain'[Len(chain) + 1].session = listening.session
        /\ chain'[Len(chain) + 1].track = listening.track
        /\ chain'[Len(chain) + 1].answer = "none"
        /\ listening # NoListening
    BY <1>3, ToldShape
  <2>2. \A k \in 1..Len(chain') : k \in 1..Len(chain) \/ k = Len(chain) + 1
    BY <2>1
  <2> QED
    BY <2>1, <2>2
<1> QED
  BY <1>2, <1>3 DEF Talks

\* ... and of the listening.
LEMMA TalksListening ==
  ASSUME ListeningTyped, Talks
  PROVE  /\ opened' \in {opened, opened + 1}
         /\ listening' \in {NoListening} \cup Listenings(opened')
         /\ \/ opened' = opened
               /\ (listening' # NoListening =>
                     /\ listening # NoListening /\ listening'.session = listening.session
                     /\ listening'.track = listening.track)
            \/ opened' = opened + 1 /\ listening' \in Listenings(opened + 1)
               /\ listening'.session = opened + 1
<1>1. listening' \in Heard => /\ listening' \in Listenings(opened)
                              /\ listening'.session = listening.session
                              /\ listening'.track = listening.track
                              /\ listening # NoListening
  <2>1. \A l \in Listenings(opened) : l.session # 0
    BY DEF Listenings
  <2>2. NoListening.session = 0
    BY DEF NoListening
  <2> QED
    BY <2>1, <2>2 DEF Heard
<1>2. CASE listening' \in Heard \cup {listening, NoListening} /\ opened' = opened
  BY <1>1, <1>2 DEF ListeningTyped
<1>3. CASE Starts
  BY <1>3 DEF Starts
<1>4. CASE Resets
  BY <1>4 DEF Resets
<1> QED
  BY <1>2, <1>3, <1>4 DEF Talks

\* A step of the page keeps the types.
LEMMA TalksTyped ==
  ASSUME ListeningTyped, Talks
  PROVE  ListeningTyped'
<1>1. /\ opened \in Nat /\ qualified \in 0..opened /\ pending \in 0..opened
      /\ chain' \in Seq(ReportsTo(opened)) /\ opened' \in {opened, opened + 1}
      /\ listening' \in {NoListening} \cup Listenings(opened') /\ SparesOne
  BY TalksChain, TalksListening DEF ListeningTyped, Talks
<1>2. opened' \in Nat /\ chain' \in Seq(ReportsTo(opened')) /\ 0..opened \subseteq 0..opened' /\ 0 \in 0..opened'
  BY <1>1, TypedLater
<1>3. qualified' \in {qualified, 0}
  BY DEF Talks, Starts, Resets
<1>4. pending' \in {pending, 0} \cup 1..opened
  BY DEF Talks, Starts, Resets, Heard, Listenings
<1>5. pending' \in 0..opened' /\ qualified' \in 0..opened'
  BY <1>1, <1>2, <1>3, <1>4
<1> QED
  BY <1>1, <1>2, <1>5 DEF ListeningTyped, SparesOne

\* A new session can be of any track.
LEMMA TracksGrow ==
  ASSUME NEW n \in Nat, NEW of \in [1..n -> Tracks], NEW t \in Tracks
  PROVE  \E to \in [1..(n + 1) -> Tracks] : to[n + 1] = t /\ \A s \in 1..n : to[s] = of[s]
<1> DEFINE to == [s \in 1..(n + 1) |-> IF s = n + 1 THEN t ELSE of[s]]
<1>1. \A s \in 1..n : s \in 1..(n + 1) /\ s # n + 1
  OBVIOUS
<1>2. \A s \in 1..(n + 1) : s \in 1..n \/ s = n + 1
  OBVIOUS
<1>3. to \in [1..(n + 1) -> Tracks] /\ \A s \in 1..n : to[s] = of[s]
  BY <1>1, <1>2
<1>4. to[n + 1] = t
  OBVIOUS
<1> QED
  BY <1>3, <1>4

\* A step of the page keeps one track for each session.
LEMMA TalksTracks ==
  ASSUME ListeningTyped, ServerTyped, OneTrackEach, Talks, sessions' = sessions
  PROVE  OneTrackEach'
<1>1. PICK of \in [1..opened -> Tracks] :
        /\ listening # NoListening => listening.track = of[listening.session]
        /\ \A k \in 1..Len(chain) : chain[k].track = of[chain[k].session]
        /\ \A s \in DOMAIN sessions : sessions[s].track = of[s]
  BY DEF OneTrackEach
<1>2. opened \in Nat /\ DOMAIN sessions \subseteq 1..opened
  BY DEF ListeningTyped, ServerTyped
<1>3. \A k \in 1..Len(chain') : chain'[k].track = of[chain'[k].session]
  BY <1>1, TalksChain
<1>4. CASE opened' = opened /\ (listening' # NoListening =>
                                  /\ listening # NoListening /\ listening'.session = listening.session
                                  /\ listening'.track = listening.track)
  <2>1. listening' # NoListening => listening'.track = of[listening'.session]
    BY <1>1, <1>4
  <2>2. of \in [1..opened' -> Tracks]
    BY <1>4
  <2> QED
    BY <1>1, <1>3, <2>1, <2>2 DEF OneTrackEach
<1>5. CASE /\ opened' = opened + 1 /\ listening' \in Listenings(opened + 1)
           /\ listening'.session = opened + 1
  <2>1. listening'.track \in Tracks
    BY <1>5 DEF Listenings
  <2>2. PICK to \in [1..(opened + 1) -> Tracks] :
          to[opened + 1] = listening'.track /\ \A s \in 1..opened : to[s] = of[s]
    BY <1>2, <2>1, TracksGrow
  <2>3. to \in [1..opened' -> Tracks] /\ \A s \in 1..opened : to[s] = of[s]
    BY <1>5, <2>2
  <2>4. listening'.track = to[listening'.session]
    BY <1>5, <2>2
  <2>5. \A k \in 1..Len(chain') : chain'[k].session \in 1..opened
    <3>1. chain' \in Seq(ReportsTo(opened))
      BY TalksChain
    <3>2. \A k \in 1..Len(chain') : chain'[k] \in ReportsTo(opened)
      BY <3>1
    <3> QED
      BY <3>2 DEF ReportsTo
  <2>6. \A k \in 1..Len(chain') : chain'[k].track = to[chain'[k].session]
    BY <1>3, <2>3, <2>5
  <2>7. \A s \in DOMAIN sessions' : sessions'[s].track = to[s]
    BY <1>1, <1>2, <2>3
  <2> QED
    BY <2>3, <2>4, <2>6, <2>7 DEF OneTrackEach
<1> QED
  BY <1>4, <1>5, TalksListening

\* A step of the page keeps Counting: what it holds pending it has just reported.
LEMMA TalksCounting ==
  ASSUME Counting, Talks, UNCHANGED <<sessions, history>>
  PROVE  Counting'
<1>1. ListeningTyped' /\ OneTrackEach'
  BY TalksTyped, TalksTracks DEF Counting
<1>2. ServerTyped'
  <2>1. 1..opened \subseteq 1..opened'
    BY TalksListening, TypedLater DEF Counting, ListeningTyped
  <2> QED
    BY <2>1 DEF Counting, ServerTyped
<1>3. PlaysCounted'
  BY DEF Counting, PlaysCounted
<1>4. AnswersTrue'
  <2>1. \A k \in 1..Len(chain') : chain'[k].answer = "qualified" =>
          k \in 1..Len(chain) /\ chain'[k] = chain[k]
    BY TalksChain DEF Counting
  <2> QED
    BY <2>1 DEF Counting, AnswersTrue
<1>5. QualifiedIsCounted'
  <2>1. /\ Len(chain) \in Nat /\ Len(chain') \in Nat /\ Len(chain) <= Len(chain')
        /\ \A k \in 1..Len(chain) : chain'[k] = chain[k]
    BY TalksChain DEF Counting
  <2>2. \A k \in 1..Len(chain) : k \in 1..Len(chain')
    BY <2>1
  <2>3. qualified' \in {qualified, 0}
    BY DEF Talks, Starts, Resets
  <2>4. qualified' # 0 => qualified' \in DOMAIN sessions' /\ sessions'[qualified'].qualified
    BY <2>3 DEF Counting, QualifiedIsCounted
  <2>5. CASE pending' \in {pending, 0}
    <3>1. pending' # 0 => \E k \in 1..Len(chain') : chain'[k].session = pending' /\ chain'[k].enough
      BY <2>1, <2>2, <2>5 DEF Counting, QualifiedIsCounted
    <3> QED
      BY <2>4, <3>1 DEF QualifiedIsCounted
  <2>6. CASE /\ listening' \in Heard /\ listening'.enough
             /\ pending' = listening'.session /\ Tells(listening', "none")
    <3> DEFINE n == Len(chain) + 1
    <3>1. /\ Len(chain') = n /\ Len(chain) \in Nat
          /\ chain'[n].session = listening.session /\ chain'[n].enough = listening'.enough
      BY <2>6, ToldShape DEF Counting, Thens
    <3>2. n \in 1..Len(chain') /\ listening'.session = listening.session
      BY <2>6, <3>1 DEF Heard
    <3> HIDE DEF n
    <3>3. chain'[n].session = pending' /\ chain'[n].enough
      BY <2>6, <3>1, <3>2
    <3> QED
      BY <2>4, <3>2, <3>3 DEF QualifiedIsCounted
  <2> QED
    BY <2>5, <2>6 DEF Talks, Starts, Resets
<1> QED
  BY <1>1, <1>2, <1>3, <1>4, <1>5 DEF Counting

\* So does the end of a report: what it answers was pending no other way.
LEMMA EndsCounting ==
  ASSUME Counting, NEW answer, Ends(answer), UNCHANGED <<sessions, history>>
  PROVE  Counting'
<1> DEFINE r == Head(chain)
<1>1. /\ chain \in Seq(ReportsTo(opened)) /\ chain # <<>> /\ chain' = Tail(chain)
      /\ opened \in Nat
  BY DEF Counting, ListeningTyped, Ends
<1>2. /\ Len(chain) \in Nat /\ 1 \in 1..Len(chain) /\ Len(chain') = Len(chain) - 1
      /\ r = chain[1] /\ r \in ReportsTo(opened) /\ chain' \in Seq(ReportsTo(opened))
      /\ \A k \in 1..Len(chain') : k + 1 \in 1..Len(chain) /\ chain'[k] = chain[k + 1]
      /\ \A k \in 1..Len(chain) : k = 1 \/ (k - 1 \in 1..Len(chain') /\ chain'[k - 1] = chain[k])
  BY <1>1 DEF Head
<1>3. r.session \in 1..opened /\ answer \in {r.answer, "lost"}
  BY <1>2 DEF Ends, ReportsTo
<1> DEFINE q == IF answer = "qualified" THEN r.session ELSE qualified
<1> HIDE DEF r
<1>4. \/ /\ listening' = listening /\ opened' = opened /\ qualified' = q
         /\ pending' = PendingAfter(r, answer)
      \/ Starts
      \/ Resets
  BY DEF Ends, Kept, r
<1>5. /\ opened' \in {opened, opened + 1} /\ SparesOne
      /\ listening' \in {NoListening} \cup Listenings(opened')
      /\ qualified' \in {q, 0} /\ pending' \in {pending, 0}
  BY <1>4 DEF Ends, Starts, Resets, PendingAfter, Counting, ListeningTyped
<1>6. ListeningTyped'
  <2>1. opened' \in Nat /\ chain' \in Seq(ReportsTo(opened')) /\ 0..opened \subseteq 0..opened'
    BY <1>1, <1>2, <1>5, TypedLater
  <2>2. q \in 0..opened /\ pending \in 0..opened /\ 0 \in 0..opened
    BY <1>1, <1>3 DEF Counting, ListeningTyped
  <2>3. qualified' \in 0..opened' /\ pending' \in 0..opened'
    BY <1>5, <2>1, <2>2
  <2> QED
    BY <1>5, <2>1, <2>3 DEF ListeningTyped, SparesOne
<1>7. ServerTyped'
  <2>1. 1..opened \subseteq 1..opened'
    BY <1>1, <1>5, TypedLater
  <2> QED
    BY <2>1 DEF Counting, ServerTyped
<1>8. PlaysCounted'
  BY DEF Counting, PlaysCounted
<1>9. AnswersTrue'
  BY <1>2 DEF Counting, AnswersTrue
<1>10. OneTrackEach'
  <2>1. PICK of \in [1..opened -> Tracks] :
          /\ listening # NoListening => listening.track = of[listening.session]
          /\ \A k \in 1..Len(chain) : chain[k].track = of[chain[k].session]
          /\ \A s \in DOMAIN sessions : sessions[s].track = of[s]
    BY DEF Counting, OneTrackEach
  <2>2. \A k \in 1..Len(chain') : chain'[k].track = of[chain'[k].session]
    BY <1>2, <2>1
  <2>3. CASE listening' \in {listening, NoListening} /\ opened' = opened
    <3>1. of \in [1..opened' -> Tracks]
      BY <2>3
    <3> QED
      BY <2>1, <2>2, <2>3, <3>1 DEF OneTrackEach
  <2>4. CASE Starts
    <3>1. /\ opened' = opened + 1 /\ listening'.session = opened + 1
          /\ listening'.track \in Tracks
      BY <2>4 DEF Starts, Listenings
    <3>2. PICK to \in [1..(opened + 1) -> Tracks] :
            to[opened + 1] = listening'.track /\ \A s \in 1..opened : to[s] = of[s]
      BY <1>1, <3>1, TracksGrow
    <3>3. to \in [1..opened' -> Tracks] /\ \A s \in 1..opened : to[s] = of[s]
      BY <3>1, <3>2
    <3>4. listening'.track = to[listening'.session]
      BY <3>1, <3>2
    <3>5. \A k \in 1..Len(chain') : chain'[k].session \in 1..opened
      <4>1. \A k \in 1..Len(chain') : chain'[k] \in ReportsTo(opened)
        BY <1>2
      <4> QED
        BY <4>1 DEF ReportsTo
    <3>6. \A k \in 1..Len(chain') : chain'[k].track = to[chain'[k].session]
      BY <2>2, <3>3, <3>5
    <3>7. \A s \in DOMAIN sessions' : sessions'[s].track = to[s]
      BY <2>1, <3>3 DEF Counting, ServerTyped
    <3> QED
      BY <3>3, <3>4, <3>6, <3>7 DEF OneTrackEach
  <2> QED
    BY <1>4, <2>3, <2>4 DEF Resets
<1>11. QualifiedIsCounted'
  <2>1. answer = "qualified" => r.session \in DOMAIN sessions /\ sessions[r.session].qualified
    BY <1>2, <1>3 DEF Counting, AnswersTrue
  <2>2. qualified' # 0 => qualified' \in DOMAIN sessions' /\ sessions'[qualified'].qualified
    BY <1>5, <2>1 DEF Counting, QualifiedIsCounted
  <2>3. pending' # 0 => pending' = pending /\ pending # r.session
    BY <1>4 DEF Starts, Resets, PendingAfter
  <2>4. pending' # 0 => \E k \in 1..Len(chain') : chain'[k].session = pending' /\ chain'[k].enough
    <3> SUFFICES ASSUME pending' # 0
                 PROVE  \E k \in 1..Len(chain') : chain'[k].session = pending' /\ chain'[k].enough
      OBVIOUS
    <3>1. PICK k \in 1..Len(chain) : chain[k].session = pending /\ chain[k].enough
      BY <2>3 DEF Counting, QualifiedIsCounted
    <3>2. k # 1
      BY <1>2, <2>3, <3>1
    <3> QED
      BY <1>2, <2>3, <3>1, <3>2
  <2> QED
    BY <2>2, <2>4 DEF QualifiedIsCounted
<1> QED
  BY <1>6, <1>7, <1>8, <1>9, <1>10, <1>11 DEF Counting

\* So does recordMusicListening: a play is counted when its session first lasts, for
\* the account the session was opened by, and never again.
LEMMA ServeCounting ==
  ASSUME Counting, AccountsTyped, Serve
  PROVE  Counting'
<1> DEFINE r == Head(chain)
<1>1. /\ UNCHANGED <<listening, qualified, pending, opened, bound>>
      /\ chain # <<>> /\ r.answer = "none"
  BY DEF Serve, page
<1>2. /\ chain \in Seq(ReportsTo(opened)) /\ opened \in Nat
      /\ DOMAIN sessions \subseteq 1..opened
      /\ sessions \in [DOMAIN sessions -> Rows]
      /\ history \in [Accounts -> [Tracks -> Nat]]
  BY DEF Counting, ListeningTyped, ServerTyped
<1>3. /\ Len(chain) \in Nat /\ 1 \in 1..Len(chain) /\ r = chain[1]
      /\ r \in ReportsTo(opened)
  BY <1>1, <1>2 DEF Head
<1>4. r.session \in 1..opened /\ r.track \in Tracks /\ r.enough \in BOOLEAN
  BY <1>3 DEF ReportsTo
<1>5. PICK v \in Answers :
        /\ chain' = [chain EXCEPT ![1].answer = v]
        /\ \/ UNCHANGED <<sessions, history>> /\ v # "qualified"
           \/ bound # NoOne /\ ~Conflict(r) /\ Record(r)
  <2>1. CASE bound # NoOne /\ ~Conflict(r) /\ Record(r)
    BY <2>1 DEF Record, Answers
  <2>2. CASE /\ chain' = [chain EXCEPT ![1].answer = IF bound = NoOne THEN "401" ELSE "409"]
             /\ UNCHANGED <<sessions, history>>
    BY <2>2 DEF Answers
  <2> QED
    BY <2>1, <2>2 DEF Serve
<1>6. /\ chain' \in Seq(ReportsTo(opened)) /\ Len(chain') = Len(chain)
      /\ chain'[1].answer = v
      /\ \A k \in 1..Len(chain) :
           /\ chain'[k].session = chain[k].session /\ chain'[k].track = chain[k].track
           /\ chain'[k].enough = chain[k].enough /\ chain'[k].then = chain[k].then
           /\ k # 1 => chain'[k].answer = chain[k].answer
  BY <1>1, <1>2, <1>5, AnswerShape
<1> HIDE DEF r
<1>7. Waiting("play")' = Waiting("play")
  BY <1>6 DEF Waiting
<1>8. ListeningTyped'
  BY <1>1, <1>6, <1>7 DEF Counting, ListeningTyped
<1>9. pending' # 0 => \E k \in 1..Len(chain') : chain'[k].session = pending' /\ chain'[k].enough
  BY <1>1, <1>6 DEF Counting, QualifiedIsCounted
<1>10. PICK of \in [1..opened -> Tracks] :
         /\ listening # NoListening => listening.track = of[listening.session]
         /\ \A k \in 1..Len(chain) : chain[k].track = of[chain[k].session]
         /\ \A s \in DOMAIN sessions : sessions[s].track = of[s]
  BY DEF Counting, OneTrackEach
<1>11. \A k \in 1..Len(chain') : chain'[k].track = of[chain'[k].session]
  BY <1>6, <1>10
<1>12. r.track = of[r.session]
  BY <1>3, <1>10
<1>13. CASE UNCHANGED <<sessions, history>> /\ v # "qualified"
  <2>1. ServerTyped' /\ PlaysCounted'
    BY <1>1, <1>13 DEF Counting, ServerTyped, PlaysCounted
  <2>2. AnswersTrue'
    BY <1>6, <1>13 DEF Counting, AnswersTrue
  <2>3. QualifiedIsCounted'
    BY <1>1, <1>9, <1>13 DEF Counting, QualifiedIsCounted
  <2>4. OneTrackEach'
    BY <1>1, <1>10, <1>11, <1>13 DEF OneTrackEach
  <2> QED
    BY <1>8, <2>1, <2>2, <2>3, <2>4 DEF Counting
<1>14. CASE bound # NoOne /\ ~Conflict(r) /\ Record(r)
  <2> DEFINE s0 == r.session
             t0 == r.track
             was == IF Known(s0) THEN sessions[s0]
                    ELSE [account |-> bound, track |-> t0, qualified |-> FALSE]
             b == was.qualified \/ r.enough
             now == [account |-> bound, track |-> t0, qualified |-> b]
             counts == ~was.qualified /\ b
             d == IF counts THEN 1 ELSE 0
  <2>1. bound \in Accounts
    BY <1>14 DEF AccountsTyped, People
  <2>2. was \in Rows /\ was.account = bound /\ was.track = t0
    <3>1. CASE Known(s0)
      <4>1. s0 \in DOMAIN sessions /\ sessions[s0] \in Rows
        BY <1>2, <3>1 DEF Known
      <4>2. sessions[s0].account = bound
        BY <1>14, <3>1 DEF Conflict
      <4>3. sessions[s0].track = t0
        BY <1>10, <1>12, <4>1
      <4> QED
        BY <3>1, <4>1, <4>2, <4>3
    <3>2. CASE ~Known(s0)
      BY <1>4, <2>1, <3>2 DEF Rows
    <3> QED
      BY <3>1, <3>2
  <2>3. was = [account |-> bound, track |-> t0, qualified |-> was.qualified] /\ was.qualified \in BOOLEAN
    BY <2>2 DEF Rows
  <2>4. b \in BOOLEAN
    OBVIOUS
  <2>5. now \in Rows /\ now.qualified = b /\ now.account = bound /\ now.track = t0
    BY <1>4, <2>1, <2>4 DEF Rows
  <2>6. now = [was EXCEPT !.qualified = was.qualified \/ r.enough]
    <3> DEFINE w == was.qualified
    <3>1. was = [account |-> bound, track |-> t0, qualified |-> w]
      BY <2>3
    <3> HIDE DEF was, w
    <3>2. ASSUME NEW x, NEW y, x = [was EXCEPT !.qualified = y]
          PROVE  x = [account |-> bound, track |-> t0, qualified |-> y]
      BY <3>1, <3>2
    <3> QED
      BY <3>2
  <2>7. /\ sessions' = [s \in DOMAIN sessions \cup {s0} |-> IF s = s0 THEN now ELSE sessions[s]]
        /\ history' = [history EXCEPT ![bound][t0] =
                         IF Counts(was.qualified, now.qualified) THEN @ + 1 ELSE @]
        /\ chain' = [chain EXCEPT ![1].answer = IF now.qualified THEN "qualified" ELSE "recorded"]
    BY <1>14, <2>6 DEF Record
  <2> HIDE DEF was, now, b
  <2>8. /\ DOMAIN sessions' = DOMAIN sessions \cup {s0} /\ sessions'[s0] = now
        /\ \A s \in DOMAIN sessions : s # s0 => sessions'[s] = sessions[s]
    BY <2>7
  <2>9. \A s \in DOMAIN sessions : sessions[s].qualified => sessions'[s].qualified
    <3>1. Known(s0) => was = sessions[s0]
      BY DEF was
    <3>2. was.qualified => now.qualified
      BY <2>5 DEF b
    <3> QED
      BY <2>8, <3>1, <3>2 DEF Known
  <2>10. history' = [history EXCEPT ![bound][t0] = history[bound][t0] + d]
    <3>1. /\ counts => Counts(was.qualified, now.qualified)
          /\ ~counts => ~Counts(was.qualified, now.qualified)
      BY <2>3, <2>5 DEF Counts
    <3>2. history[bound][t0] \in Nat
      BY <1>2, <1>4, <2>1
    <3>3. (IF Counts(was.qualified, now.qualified) THEN history[bound][t0] + 1
           ELSE history[bound][t0]) = history[bound][t0] + d
      BY <3>1, <3>2
    <3> HIDE DEF d, counts
    <3> QED
      BY <2>7, <3>3
  <2>11. d \in Nat
    OBVIOUS
  <2> HIDE DEF d
  <2>12. /\ history' \in [Accounts -> [Tracks -> Nat]]
         /\ \A a \in Accounts, t \in Tracks :
              history'[a][t] = IF a = bound /\ t = t0 THEN history[a][t] + d ELSE history[a][t]
    BY <1>2, <1>4, <2>1, <2>10, <2>11
  <2>13. ServerTyped'
    <3>1. sessions' = [s \in DOMAIN sessions' |-> sessions'[s]]
      BY <2>7
    <3>2. \A s \in DOMAIN sessions' : sessions'[s] \in Rows
      BY <1>2, <2>5, <2>8
    <3>3. DOMAIN sessions' \subseteq 1..opened'
      BY <1>1, <1>2, <1>4, <2>8
    <3> QED
      BY <2>12, <3>1, <3>2, <3>3 DEF ServerTyped
  <2>14. PlaysCounted'
    <3> SUFFICES ASSUME NEW a \in Accounts, NEW t \in Tracks
                 PROVE  history'[a][t] = Cardinality({s \in DOMAIN sessions' :
                          sessions'[s] = [account |-> a, track |-> t, qualified |-> TRUE]})
      BY DEF PlaysCounted
    <3> DEFINE row == [account |-> a, track |-> t, qualified |-> TRUE]
               C == {s \in DOMAIN sessions : sessions[s] = row}
               D == {s \in DOMAIN sessions' : sessions'[s] = row}
    <3>1. history[a][t] = Cardinality(C) /\ history[a][t] \in Nat
      BY <1>2 DEF Counting, PlaysCounted
    <3>2. IsFiniteSet(C)
      <4>0. 1 \in Int /\ opened \in Int
        BY <1>2
      <4>1. IsFiniteSet(1..opened)
        BY <4>0, FS_Interval
      <4>2. C \subseteq 1..opened
        BY <1>2
      <4> QED
        BY <4>1, <4>2, FS_Subset
    <3>3. s0 \in C <=> Known(s0) /\ was = row
      BY DEF Known, was
    <3>4. s0 \in D <=> now = row
      BY <2>8
    <3>5. \A s : s # s0 => (s \in C <=> s \in D)
      BY <2>8
    <3>6. now = row <=> a = bound /\ t = t0 /\ b
      BY <2>4 DEF now
    <3>7. was = row => a = bound /\ t = t0 /\ was.qualified
      BY <2>2
    <3>8. ~Known(s0) => was.qualified = FALSE
      BY DEF was
    <3>9. was.qualified => b
      BY DEF b
    <3>10. a = bound /\ t = t0 /\ was.qualified => was = row
      BY <2>3
    <3> HIDE DEF C, D, row
    <3>11. CASE a = bound /\ t = t0 /\ counts
      <4>1. s0 \notin C /\ s0 \in D
        BY <3>3, <3>4, <3>6, <3>7, <3>11
      <4>2. D = C \cup {s0}
        BY <3>5, <4>1
      <4>3. Cardinality(D) = Cardinality(C) + 1
        BY <3>2, <4>1, <4>2, FS_AddElement
      <4>4. d = 1
        BY <3>11 DEF d
      <4> QED
        BY <2>12, <3>1, <3>11, <4>3, <4>4 DEF D, row
    <3>12. CASE ~(a = bound /\ t = t0 /\ counts)
      <4>1. s0 \in C <=> s0 \in D
        BY <3>3, <3>4, <3>6, <3>7, <3>8, <3>9, <3>10, <3>12
      <4>2. D = C
        BY <3>5, <4>1
      <4>3. a = bound /\ t = t0 => d = 0
        BY <3>12 DEF d
      <4>4. history'[a][t] = history[a][t]
        BY <2>12, <3>1, <4>3
      <4> QED
        BY <3>1, <4>2, <4>4 DEF D, row
    <3> QED
      BY <3>11, <3>12
  <2>15. AnswersTrue'
    <3>1. v = "qualified" => now.qualified
      <4>1. chain'[1].answer = IF now.qualified THEN "qualified" ELSE "recorded"
        <5> DEFINE u == IF now.qualified THEN "qualified" ELSE "recorded"
        <5>1. u \in Answers /\ chain' = [chain EXCEPT ![1].answer = u]
          BY <2>7 DEF Answers
        <5> HIDE DEF u
        <5>2. chain'[1].answer = u
          BY <1>1, <1>2, <5>1, AnswerShape
        <5> QED
          BY <5>2 DEF u
      <4> QED
        BY <1>6, <4>1
    <3> SUFFICES ASSUME NEW k \in 1..Len(chain'), chain'[k].answer = "qualified"
                 PROVE  /\ chain'[k].session \in DOMAIN sessions'
                        /\ sessions'[chain'[k].session].qualified
      BY DEF AnswersTrue
    <3>2. chain'[k].session = chain[k].session
      BY <1>6
    <3>3. CASE k = 1
      BY <1>3, <1>6, <2>8, <3>1, <3>2, <3>3
    <3>4. CASE k # 1
      <4>1. chain[k].session \in DOMAIN sessions /\ sessions[chain[k].session].qualified
        BY <1>6, <3>4 DEF Counting, AnswersTrue
      <4> QED
        BY <2>8, <2>9, <3>2, <4>1
    <3> QED
      BY <3>3, <3>4
  <2>16. QualifiedIsCounted'
    BY <1>1, <1>9, <2>8, <2>9 DEF Counting, QualifiedIsCounted
  <2>17. OneTrackEach'
    <3>1. \A s \in DOMAIN sessions' : sessions'[s].track = of[s]
      BY <1>10, <1>12, <2>5, <2>8
    <3> QED
      BY <1>1, <1>10, <1>11, <3>1 DEF OneTrackEach
  <2> QED
    BY <1>8, <2>13, <2>14, <2>15, <2>16, <2>17 DEF Counting
<1> QED
  BY <1>5, <1>13, <1>14

\* At first nothing is reported and nothing counted.
LEMMA CountingInit ==
  ASSUME Init
  PROVE  Counting
<1>1. /\ listening = NoListening /\ qualified = 0 /\ pending = 0 /\ chain = <<>>
      /\ sessions = <<>> /\ opened = 0
      /\ history = [a \in Accounts |-> [t \in Tracks |-> 0]]
  BY DEF Init
<1>2. DOMAIN sessions = {} /\ Len(chain) = 0 /\ 1..Len(chain) = {}
  BY <1>1
<1>3. Waiting("play") = {} /\ Cardinality(Waiting("play")) = 0
  <2>1. Waiting("play") = {}
    BY <1>2 DEF Waiting
  <2> QED
    BY <2>1, FS_EmptySet
<1>4. ListeningTyped
  BY <1>1, <1>3, PlayerAssumption DEF ListeningTyped
<1>5. ServerTyped
  <2>1. sessions \in [DOMAIN sessions -> Rows]
    <3>1. sessions = [s \in {} |-> sessions[s]]
      BY <1>1
    <3> QED
      BY <1>2, <3>1
  <2> QED
    BY <1>1, <1>2, <2>1 DEF ServerTyped
<1>6. OneTrackEach
  <2>1. <<>> \in [1..opened -> Tracks]
    BY <1>1
  <2> QED
    BY <1>1, <1>2, <2>1 DEF OneTrackEach
<1>7. PlaysCounted
  <2> SUFFICES ASSUME NEW a \in Accounts, NEW t \in Tracks
               PROVE  history[a][t] = Cardinality({s \in DOMAIN sessions :
                        sessions[s] = [account |-> a, track |-> t, qualified |-> TRUE]})
    BY DEF PlaysCounted
  <2>1. {s \in DOMAIN sessions :
           sessions[s] = [account |-> a, track |-> t, qualified |-> TRUE]} = {}
    BY <1>2
  <2> QED
    BY <1>1, <2>1, FS_EmptySet
<1> QED
  BY <1>1, <1>2, <1>4, <1>5, <1>6, <1>7 DEF Counting, AnswersTrue, QualifiedIsCounted

\* Every step keeps Counting.
LEMMA CountingStep ==
  ASSUME Counting, PageTyped, AccountsTyped, [Next]_vars
  PROVE  Counting'
<1>1. \/ Talks /\ UNCHANGED <<sessions, history>>
      \/ Serve
      \/ (\E answer : Ends(answer)) /\ UNCHANGED <<sessions, history>>
  BY TalkStep DEF Counting
<1> QED
  BY <1>1, TalksCounting, ServeCounting, EndsCounting

-----------------------------------------------------------------------------------
\* The inductive invariant.
Inv == Shell /\ AccountsTyped /\ Counting

\* The inductive invariant holds of every behaviour.
THEOREM InvHolds == Spec => []Inv
<1>1. Init => Inv
  BY ShellInit, AccountsInit, CountingInit DEF Inv
<1>2. Inv /\ [Next]_vars => Inv'
  <2> SUFFICES ASSUME Inv, [Next]_vars
               PROVE  Inv'
    OBVIOUS
  <2>1. Shell /\ AccountsTyped /\ Counting /\ PageTyped /\ ListeningTyped
    BY DEF Inv, Shell, Counting
  <2>2. Shell'
    BY <2>1, ShellStep
  <2>3. AccountsTyped'
    BY <2>1, AccountsStep
  <2>4. Counting'
    BY <2>1, CountingStep
  <2> QED
    BY <2>2, <2>3, <2>4 DEF Inv
<1> QED
  BY <1>1, <1>2, PTL DEF Spec

\* Whatever is queued, moved, removed and answered, the order stays one of the indexes
\* of the queue and the position one of a track (music-player-state.js).
THEOREM TypeCorrect == Spec => []TypeOK
<1>1. Inv => TypeOK
  <2> SUFFICES ASSUME Inv
               PROVE  TypeOK
    OBVIOUS
  <2>1. PageTyped /\ ListeningTyped /\ AccountsTyped
    BY DEF Inv, Shell, Counting
  <2>2. PlayerOK(player)
    BY <2>1 DEF PageTyped, Player
  <2>3. audio.src \in Tracks \cup {NoTrack} /\ (audio.playing => audio.src # NoTrack)
    BY <2>1 DEF PageTyped
  <2>4. opened \in 0..MaxSessions
    <3>1. Cardinality(Waiting("play")) \in Nat
      BY <2>1, WaitingFinite DEF ListeningTyped
    <3> QED
      BY <2>1, <3>1, PlayerAssumption DEF ListeningTyped
  <2>5. listening.session \in 0..opened
    <3>1. CASE listening = NoListening
      BY <2>4, <3>1 DEF NoListening
    <3>2. CASE listening \in Listenings(opened)
      <4>1. listening.session \in 1..opened
        BY <3>2 DEF Listenings
      <4> QED
        BY <2>4, <4>1
    <3> QED
      BY <2>1, <3>1, <3>2 DEF ListeningTyped
  <2>6. {qualified, pending} \subseteq {0, listening.session} \cup 1..opened
    BY <2>1 DEF ListeningTyped
  <2>7. account \in Accounts \cup {NoOne} /\ bound \in Accounts \cup {NoOne}
    BY <2>1 DEF AccountsTyped, People
  <2> QED
    BY <2>2, <2>3, <2>4, <2>5, <2>6, <2>7 DEF TypeOK
<1> QED
  BY <1>1, InvHolds, PTL

\* The plays of a track, for an account, are its sessions that lasted, each once, however
\* reports are repeated, lost or answered late and whoever signs in between
\* (music-listening-service.js:127-206).
THEOREM PlaysAreCounted == Spec => []PlaysCounted
<1>1. Inv => PlaysCounted
  BY DEF Inv, Counting
<1> QED
  BY <1>1, InvHolds, PTL

\* What is loaded is the current track, unless a removal waits for its report, and nothing
\* plays on a page without music or without an account, however late an address or an
\* answer comes (app-shell.js:908-913, 602-613, 1210-1222).
THEOREM AudioFollows == Spec => []AudioFollowsShell
<1>1. Inv => AudioFollowsShell
  BY DEF Inv, Shell
<1> QED
  BY <1>1, InvHolds, PTL

\* A listening held to be reported is on its way and one held to be counted is counted, so
\* that none is given up (app-shell.js:251-300).
THEOREM QualifiedAreCounted == Spec => []QualifiedIsCounted
<1>1. Inv => QualifiedIsCounted
  BY DEF Inv, Counting
<1> QED
  BY <1>1, InvHolds, PTL
=============================================================================
