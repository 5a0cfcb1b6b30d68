----------------------------- MODULE MCMusicPlaylists -----------------------------
EXTENDS MusicPlaylists, TLC

\* Queries are interchangeable.
Symmetry == Permutations(Queries)
===================================================================================
