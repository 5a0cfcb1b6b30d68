SPECIFICATION Spec
CONSTANTS
  Accounts = {root, ann}
  DefaultAccount = root
  NoAccount = NoAccount
  Devices = {d1}
  LocalBrowser = LocalBrowser
  Passwords = {p1, p2}
  NoPassword = NoPassword
  Sections = {music}
  Requests = {r1, r2}
  MaxVersion = 3
SYMMETRY Symmetry
INVARIANTS
  ActiveAdminRemains
  SessionsProveCurrentPassword
CHECK_DEADLOCK TRUE
