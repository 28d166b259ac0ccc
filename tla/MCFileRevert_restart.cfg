SPECIFICATION Spec
CONSTANTS
  Sessions = {s1}
  Paths = {p1}
  Calls = {k1, k2}
  Contents = {Empty, v1, v2}
  Empty = Empty
  Missing = Missing
  None = None
  HandsOff = TRUE
  FreshOnly = FALSE
PROPERTY RevertGoesBack
CHECK_DEADLOCK FALSE
