-------------------------- MODULE MCMusicLibrary --------------------------
EXTENDS MusicLibrary, TLC

\* Recordings, directories and names are interchangeable: the choices the steps
\* make are of rows, albums and requests.
Symmetry == Permutations(Audios) \cup Permutations(Dirs) \cup Permutations(Names)
=============================================================================
