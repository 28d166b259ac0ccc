SPECIFICATION Spec
CONSTANTS
  None = None
  Skills = {k1, k2, k3}
  Switched = {k1, k2}
  Tabs = {t1}
  Sessions = {a1, a2}
  Unlisted = FALSE
  Builtins = 1
  MaxBuilds = 1
INVARIANT HiddenAtStart
CHECK_DEADLOCK FALSE
