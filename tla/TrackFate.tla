----------------------------- MODULE TrackFate -----------------------------
(***************************************************************************)
(* What uploading music promises, whatever the sessions, the crashes and   *)
(* the two stores do: a track waits until it enters the library, at a      *)
(* place nothing else holds, or is discarded; a track in the library stays *)
(* where it is.                                                            *)
(***************************************************************************)
CONSTANTS
  Tracks,  \* audio files the users upload
  Places   \* paths of the library

VARIABLE fate  \* fate[t]: away, waiting, discarded, or its place in the library

Fates == {"away", "waiting", "discarded"} \cup Places

Init == fate = [t \in Tracks |-> "away"]

\* A session holds the tracks T.
Arrive(T) ==
  /\ \A t \in T : fate[t] = "away"
  /\ fate' = [t \in Tracks |-> IF t \in T THEN "waiting" ELSE fate[t]]

\* The tracks T are thrown away, which can only happen outside the library.
Discard(T) ==
  /\ \A t \in T : fate[t] \in {"away", "waiting"}
  /\ fate' = [t \in Tracks |-> IF t \in T THEN "discarded" ELSE fate[t]]

\* A waiting track enters the library at a place no other track holds.
Import(t, p) ==
  /\ fate[t] = "waiting"
  /\ \A u \in Tracks : fate[u] # p
  /\ fate' = [fate EXCEPT ![t] = p]

Next ==
  \/ \E T \in SUBSET Tracks : Arrive(T) \/ Discard(T)
  \/ \E t \in Tracks, p \in Places : Import(t, p)

Spec == Init /\ [][Next]_fate
=============================================================================
