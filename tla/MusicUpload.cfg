SPECIFICATION Spec
CONSTANTS
  Tracks = {t1, t2}
  Places = {p1}
  Sessions = {s1, s2}
  Requests = {r1, r2}
  Pages = {c1}
  None = None
  MaxFaults = 1
SYMMETRY Symmetry
INVARIANTS
  ManifestSound
  ManifestExact
  LocksPassOn
PROPERTIES
  FateKept
CHECK_DEADLOCK FALSE
