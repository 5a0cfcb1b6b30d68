SPECIFICATION TrustSpec
CONSTANTS
  Keys = {k1, k2}
  Invites = {i1, i2}
  NoInvite = NoInvite
  Nonces = {n1, n2}
  NotCached = NotCached
  Skew = 1
  MaxMinutes = 2
  MaxTime = 3
SYMMETRY Symmetry
INVARIANTS
  TrustTypeOK
  AcceptedOnce
  InviteAdmitsOne
PROPERTIES
  AdmissionSpendsInvite
CHECK_DEADLOCK TRUE
