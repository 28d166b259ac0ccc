SPECIFICATION Spec
CONSTANTS
  s1 = s1 s2 = s2 s3 = s3
  Welcome = Welcome
  Sessions = {s1, s2}
  Calm = TRUE
  Limit = 1
  MaxSaid = 6
  MaxClicks = 3
  MaxInfos = 2
INVARIANTS TypeOK Gapless LastChoiceShown HighlightTrue
PROPERTY StreamKept
SYMMETRY MCSymmetry
CHECK_DEADLOCK FALSE
