SPECIFICATION Spec
CONSTANTS
  Sessions = {s1}
  Paths = {p1, p2}
  Calls = {k1, k2}
  Contents = {Empty, v1}
  Empty = Empty
  Missing = Missing
  None = None
  HandsOff = TRUE
  FreshOnly = TRUE
INVARIANTS TypeOK SnapshotCurrent
PROPERTIES RevertGoesBack RevertSparesOthers
SYMMETRY MCSymmetry
CHECK_DEADLOCK FALSE
