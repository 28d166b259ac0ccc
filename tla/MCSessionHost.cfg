SPECIFICATION Spec
CONSTANTS
  f1 = f1 f2 = f2 f3 = f3
  c1 = c1 c2 = c2 d1 = d1 d2 = d2
  Files = {f1, f2, f3}
  Cwds = {c1, c2}
  Dirs = {d1, d2}
  CwdOf <- MCCwdOf
  DirOf <- MCDirOf
  Agents = {a1, a2}
  NoAgent = NoAgent
  CarefulClients = TRUE
INVARIANTS TypeOK MapSound OneAgentPerSession NoOrphanAgent AgentOnItsFile
PROPERTY OthersKeepRunning
CHECK_DEADLOCK FALSE
