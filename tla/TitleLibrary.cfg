SPECIFICATION Spec
CONSTANTS
  Requests = {q1, q2}
  Numbers = {1, 2}
  First = First
  None = None
  MaxTroubles = 2
INVARIANTS
  EpisodesKept
  
PROPERTY
  AloneIsAtomic
CHECK_DEADLOCK FALSE
