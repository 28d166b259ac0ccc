SPECIFICATION Spec
CONSTANTS
  s1 = s1 s2 = s2
  Sessions = {s1, s2}
  Overlap = TRUE
  Patient = TRUE
  MaxItems = 3
  MaxWire = 3
INVARIANT NothingLost
CHECK_DEADLOCK FALSE
