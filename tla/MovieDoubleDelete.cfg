SPECIFICATION Spec
CONSTANTS
  Uploads = {u1}
  Original = Original
  Deletes = {d1, d2}
  Extensions = {mkv, mp4}
  NoDir = NoDir
  Bare = Bare
  NoRow = NoRow
  Checker = Checker
  Nobody = Nobody
  MaxFaults = 0
SYMMETRY Symmetry
INVARIANTS
  DeletedIsGone
CHECK_DEADLOCK TRUE
