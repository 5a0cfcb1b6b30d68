SPECIFICATION Spec
CONSTANTS
  Tracks = {t1, t2}
  Accounts = {ann, bob}
  MaxSessions = 2
  MaxChain = 2
  MaxTroubles = 1
INVARIANTS TypeOK PlaysCounted AudioFollowsShell QualifiedIsCounted
SYMMETRY Symmetry
CHECK_DEADLOCK FALSE
