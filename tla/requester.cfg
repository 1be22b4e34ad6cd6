SPECIFICATION FairSpec
CONSTANTS
  c1 = c1
  c2 = c2
  p1 = p1
  p2 = p2
  p3 = p3
  Calls = {c1, c2}
  Peers = {p1, p2, p3}
  Self = Self
  None = None
  Failed = Failed
  Lost = Lost
  Rank <- MCRank
  Seen <- MCSeen
  Memory <- MCMemory
  DefaultMemory = 1
  MaxMemory = 2
  Needs = {1, 2, 3}
  MaxPlaced = 7
  Scenarios <- MCScenarios
  Policies <- MCPolicies
  Given <- MCGiven
  Hosts <- MCHosts
  Shards = 4
  Faulty = {p3}
  Minimum = 2
  Target = 3
  MaxLosses = 2
INVARIANTS  ShardsInOrder RepairRestores WeightedFair
PROPERTIES CallsEnd
CHECK_DEADLOCK FALSE
