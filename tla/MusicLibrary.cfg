SPECIFICATION Spec
CONSTANTS
  Dirs = {d1, d2}
  Names = {n1, n2, n3}
  Audios = {t1, t2}
  Rows = {r1, r2, r3}
  Albums = {a1, a2}
  Requests = {c1, c2}
  None = None
  MaxAsked = 2
  MaxTroubles = 1
INVARIANTS
  EditsAreAtomic
  NothingLost
  ScanHeals
CHECK_DEADLOCK FALSE
SYMMETRY Symmetry
