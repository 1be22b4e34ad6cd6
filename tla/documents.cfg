SPECIFICATION Spec
CONSTANTS
  t1 = t1
  t2 = t2
  t3 = t3
  n1 = n1
  n2 = n2
  KeyFile = KeyFile
  BlockFile = BlockFile
  CasFile = CasFile
  None = None
  Torn = Torn
  Threads = {t1, t2, t3}
  Nodes = {n1, n2}
  Paths <- MCPaths
  Home <- MCHome
  Modes = {"documents", "files"}
  MaxDocument = 2
  MaxUpdates = 2
  MaxActors = 2
  MaxCalls = 3
  MaxFaults = 1
INVARIANTS TypeOK  CreatedOnce
PROPERTIES ImplementsStore
SYMMETRY Symmetry
CHECK_DEADLOCK FALSE
