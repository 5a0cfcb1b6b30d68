SPECIFICATION Spec
CONSTANTS
  Uploads = {u1}
  Original = Original
  Deletes = {}
  Extensions = {mkv, mp4}
  NoDir = NoDir
  Bare = Bare
  NoRow = NoRow
  Checker = Checker
  Nobody = Nobody
  MaxFaults = 0
SYMMETRY Symmetry
INVARIANTS
  ReachableIsShown
CHECK_DEADLOCK TRUE
