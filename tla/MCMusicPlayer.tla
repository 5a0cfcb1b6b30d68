------------------------------ MODULE MCMusicPlayer ------------------------------
EXTENDS MusicPlayer, TLC

(* No track, and no account, is treated unlike another.                             *)
Symmetry == Permutations(Tracks) \cup Permutations(Accounts)
===================================================================================
