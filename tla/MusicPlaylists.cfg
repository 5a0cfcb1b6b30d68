SPECIFICATION Spec
CONSTANTS
  Tracks = {t1, t2, t3}
  Playlists = {p1, p2}
  Names = {n1, n2}
  Queries = {q1, q2}
  Sections = {"albums", "recent", "playlists"}
  MaxAsked = 2
  MaxTroubles = 1
SYMMETRY Symmetry
INVARIANTS AddedIsThere CatalogMatchesMode
PROPERTIES KeepsLists SearchShowsLast
CHECK_DEADLOCK FALSE
