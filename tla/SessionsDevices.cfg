SPECIFICATION Spec
CONSTANTS
  Accounts = {root, ann}
  DefaultAccount = root
  NoAccount = NoAccount
  Devices = {d1, d2}
  LocalBrowser = LocalBrowser
  Passwords = {p1, p2}
  NoPassword = NoPassword
  Sections = {music}
  Requests = {r1}
  MaxVersion = 3
SYMMETRY Symmetry
INVARIANTS
  TypeOK
PROPERTIES
  RightsKept
CHECK_DEADLOCK TRUE
