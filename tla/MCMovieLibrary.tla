-------------------------- MODULE MCMovieLibrary --------------------------
EXTENDS MovieLibrary, TLC

\* Requests of one kind are interchangeable, and so are extensions.
Symmetry == Permutations(Uploads) \cup Permutations(Deletes) \cup Permutations(Extensions)
=============================================================================
