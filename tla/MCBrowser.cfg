SPECIFICATION Spec
CONSTANTS
  None = None Sessions = {s1, s2} Together <- MCTogether
  Tabs = {b1, b2} Messages = {x1, x2} MaxSent = 3
  Picked = {f1, f2, f3} Images = {f2, f3}
  Drafts <- MCDrafts Empty <- MCEmpty Commands <- MCCommands
  Names = {n1, n2} Projects = {p1} Cwd <- MCCwd
  Reviewed = {t1} Changed = {f2, f3} Widths = {1, 2} DefaultWidth = 1
  MaxTop = 4 Near = 1 PageTop = 2
  MaxN = 5 MaxPage = 3
  Models = {m1, m2, m3} Enabled = {m1, m2, m3} First = m1
  Auth = {m1, m2} Reachable = {m1, m3} Reasoning = {m2, m3} Default = m3
  MaxChoices = 4
  MaxCompacts = 5
  Keys = {k1} Lines = {x1, None} MaxWire = 2
INVARIANTS TypeOK InputKept DaemonShown ViewKept RebuildAgrees
CHECK_DEADLOCK FALSE
