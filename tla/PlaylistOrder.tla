------------------------------ MODULE PlaylistOrder ------------------------------
(* What the playlists of an account promise, whatever the positions their rows      *)
(* have: a playlist is a sequence of tracks without repetitions; a track goes in at *)
(* the end, and what goes out leaves the others in their order.                     *)
EXTENDS Naturals, FiniteSets, Functions, SequencesExt

CONSTANTS Tracks, Playlists

VARIABLES
  existing,         \* the playlists there are
  lists             \* the tracks of each

Distinct == {s \in SeqOf(Tracks, Cardinality(Tracks)) : IsInjective(s)}
Without(s, t) ==
  IF t \in ToSet(s) THEN RemoveAt(s, CHOOSE i \in DOMAIN s : s[i] = t) ELSE s

Init == existing \subseteq Playlists /\ lists \in [Playlists -> Distinct]

Create(p) ==
  /\ p \notin existing /\ existing' = existing \cup {p} /\ lists' = [lists EXCEPT ![p] = <<>>]
Delete(p) ==
  /\ p \in existing /\ existing' = existing \ {p} /\ lists' = [lists EXCEPT ![p] = <<>>]
Append1(p, t) ==
  /\ p \in existing /\ t \notin ToSet(lists[p])
  /\ lists' = [lists EXCEPT ![p] = Append(@, t)] /\ UNCHANGED existing
TakeOut(p, t) ==
  /\ p \in existing /\ t \in ToSet(lists[p])
  /\ lists' = [lists EXCEPT ![p] = Without(@, t)] /\ UNCHANGED existing
Permute(p) ==
  /\ p \in existing /\ UNCHANGED existing
  /\ \E s \in Distinct : ToSet(s) = ToSet(lists[p]) /\ lists' = [lists EXCEPT ![p] = s]

(* The track is deleted from the library.                                           *)
Vanish(t) == lists' = [p \in Playlists |-> Without(lists[p], t)] /\ UNCHANGED existing

Next ==
  \/ \E p \in Playlists : Create(p) \/ Delete(p) \/ Permute(p)
  \/ \E p \in Playlists, t \in Tracks : Append1(p, t) \/ TakeOut(p, t)
  \/ \E t \in Tracks : Vanish(t)

Spec == Init /\ [][Next]_<<existing, lists>>
===================================================================================
