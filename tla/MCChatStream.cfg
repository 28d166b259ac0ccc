SPECIFICATION Spec
CONSTANTS
  s1 = s1 s2 = s2
  Sessions = {s1, s2}
  Overlap = FALSE
  Patient = TRUE
  MaxItems = 2
  MaxWire = 4
INVARIANTS TypeOK NothingLost InOrder BusyTrue
PROPERTY TextShows
CHECK_DEADLOCK FALSE
