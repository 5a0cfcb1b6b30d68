--------------------------- MODULE MCMusicUpload ---------------------------
EXTENDS MusicUpload, TLC

\* The files are interchangeable; handlers and sessions are not, as which free
\* one is taken is fixed.
Symmetry == Permutations(Tracks)
=============================================================================
