-------------------------------- MODULE PlayQueue --------------------------------
(* The queue of the music player (src/public/js/music-player-state.js): the tracks  *)
(* as they were queued, the order they are played in, which is an order of their    *)
(* indexes, and the position reached in it. One operator for each function of       *)
(* createPlayerState. Positions start from 1; 0 is the code's -1, no track.         *)
EXTENDS Naturals, Sequences

CONSTANT Tracks

NoTrack == "no track"

ASSUME TracksAssumption == NoTrack \notin Tracks

Modes == <<"normal", "shuffle", "repeat", "repeat-one">>

EmptyPlayer == [queue |-> <<>>, order |-> <<>>, position |-> 0, mode |-> "normal"]

Size(p) == Len(p.queue)
Natural(n) == [k \in 1..n |-> k]
Orders(n) == {o \in [1..n -> 1..n] : \A i, j \in 1..n : o[i] = o[j] => i = j}

CurrentIndex(p) == IF p.position = 0 THEN 0 ELSE p.order[p.position]
CurrentTrack(p) == IF p.position = 0 THEN NoTrack ELSE p.queue[CurrentIndex(p)]

(* What the listener sees: the tracks in the order they are played in.              *)
View(p) == [k \in 1..Size(p) |-> p.queue[p.order[k]]]

Queued(p) == {p.queue[i] : i \in 1..Size(p)}
IndexOf(p, t) == CHOOSE i \in 1..Size(p) : p.queue[i] = t
PositionOf(p, t) == CHOOSE k \in 1..Size(p) : View(p)[k] = t

(* rebuildOrder: o is the order a shuffle comes to; the current track goes first.   *)
Shuffled(p, active) == {o \in Orders(Size(p)) : o[1] = active}
Rebuilt(p, mode, o) ==
  IF mode = "shuffle"
  THEN [p EXCEPT !.order = o, !.position = 1]
  ELSE [p EXCEPT !.order = Natural(Size(p)), !.position = CurrentIndex(p)]

(* setMode of a queue with a current track, and cycleMode.                          *)
SetMode(p, mode, o) == [Rebuilt(p, mode, o) EXCEPT !.mode = mode]
NextMode(mode) ==
  CASE mode = "normal" -> "shuffle" [] mode = "shuffle" -> "repeat"
    [] mode = "repeat" -> "repeat-one" [] OTHER -> "normal"

(* setQueue of distinct tracks, of which start is one.                              *)
SetQueue(p, tracks, start, o) ==
  LET first == CHOOSE i \in 1..Len(tracks) : tracks[i] = start
      new == [p EXCEPT !.queue = tracks, !.order = Natural(Len(tracks)), !.position = first]
  IN  IF p.mode = "shuffle" THEN Rebuilt(new, "shuffle", o) ELSE new

SelectTrack(p, t) == [p EXCEPT !.position = PositionOf(p, t)]

(* appendTracks of one track the queue does not have.                               *)
AppendTrack(p, t) ==
  [p EXCEPT !.queue = Append(@, t), !.order = Append(@, Size(p) + 1),
            !.position = IF @ = 0 THEN Size(p) + 1 ELSE @]

(* Where what was at position k is found once position from has moved to to.        *)
Shifted(k, from, to) ==
  IF k = from THEN to
  ELSE IF from < k /\ k <= to THEN k - 1
  ELSE IF to <= k /\ k < from THEN k + 1
  ELSE k

(* moveTrack: the queue takes the order it is played in, with the track at its new  *)
(* place, and the mode becomes normal.                                              *)
MoveTrack(p, t, to) ==
  LET from == PositionOf(p, t)
  IN  IF from = to THEN p
      ELSE [queue |-> [k \in 1..Size(p) |-> View(p)[Shifted(k, to, from)]],
            order |-> Natural(Size(p)),
            position |-> IF p.position = 0 THEN 0 ELSE Shifted(p.position, from, to),
            mode |-> "normal"]

(* The position once the track at position gone is out.                             *)
PositionWithout(p, gone) ==
  IF p.position = gone
  THEN IF gone < Size(p) THEN gone ELSE IF Size(p) > 1 THEN 1 ELSE 0
  ELSE IF gone < p.position THEN p.position - 1 ELSE p.position

\* Mutant: the indexes above the removed one stay as they were.
OrderNotShifted(p, t) ==
  [p EXCEPT !.queue = SelectSeq(@, LAMBDA u : u # t),
            !.order = SelectSeq(@, LAMBDA j : j # IndexOf(p, t)),
            !.position = PositionWithout(p, PositionOf(p, t))]

(* removeTrack.                                                                     *)
RemoveTrack(p, t) ==
  LET i == IndexOf(p, t)
      gone == PositionOf(p, t)
      Closed(j) == IF j > i THEN j - 1 ELSE j
  IN  [p EXCEPT
        !.queue = [j \in 1..(Size(p) - 1) |-> IF j < i THEN p.queue[j] ELSE p.queue[j + 1]],
        !.order = [k \in 1..(Size(p) - 1) |->
                     Closed(IF k < gone THEN p.order[k] ELSE p.order[k + 1])],
        !.position = PositionWithout(p, gone)]

ClearQueue(p) == [EmptyPlayer EXCEPT !.mode = p.mode]

(* next: the position it leads to, 0 when there is none; with repeat-one the end of *)
(* a track leads to itself.                                                         *)
NextPosition(p, automatic) ==
  IF automatic /\ p.mode = "repeat-one" THEN p.position
  ELSE IF p.position < Size(p) THEN p.position + 1
  ELSE IF p.mode = "repeat" THEN 1 ELSE 0

PreviousPosition(p) ==
  IF p.position > 1 THEN p.position - 1
  ELSE IF p.mode = "repeat" /\ Size(p) > 1 THEN Size(p) ELSE p.position

(* The order is one of the indexes of the queue, every track is queued once, and    *)
(* there is a current track exactly when there is a track.                          *)
PlayerOK(p) ==
  /\ p.queue \in Seq(Tracks)
  /\ \A i, j \in 1..Size(p) : p.queue[i] = p.queue[j] => i = j
  /\ p.order \in Orders(Size(p))
  /\ p.position \in 0..Size(p) /\ (p.position = 0 <=> p.queue = <<>>)
  /\ p.mode \in {Modes[m] : m \in 1..4}
===================================================================================
