SPECIFICATION Spec
CONSTANTS
  None = None
  Together <- MCTogether
  Servers = {1, 2} Loaders = {1} Tasks = {1, 2} Clients = {c1, c2}
  MaxEdits = 2
  Skills = {1, 2} Switched = {1, 2} Tabs = {"tab 1", "tab 2"} Sessions = {1}
  Builtins = 1 MaxBuilds = 1
  McpNames = {n1, n2} McpTexts = {u1} MaxCalls = 2
  Ids = {i1, i2} Urls = {u1} Models = {m1} Hasty = FALSE
  Packages = {p1, p2}
  EventNames = {1} Named = {1, 2} ForAll = {3} Once = {2} MaxEmits = 2
INVARIANTS TypeOK PoolSound HiddenInNumber  EventsKept
PROPERTY ConnectsEnd
CHECK_DEADLOCK FALSE
