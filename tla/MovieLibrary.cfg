SPECIFICATION Spec
CONSTANTS
  Uploads = {u1, u2}
  Original = Original
  Deletes = {d1}
  Extensions = {mkv, mp4}
  NoDir = NoDir
  Bare = Bare
  NoRow = NoRow
  Checker = Checker
  Nobody = Nobody
  MaxFaults = 2
SYMMETRY Symmetry
INVARIANTS
  TypeOK
PROPERTIES
  AllOrNothing
  CheckHeals
CHECK_DEADLOCK TRUE
