SPECIFICATION Spec
CONSTANTS
  n1 = n1
  n2 = n2
  guest = guest
  v1 = v1
  v2 = v2
  v3 = v3
  v4 = v4
  Validators = {v1, v2, v3, v4}
  Order <- MCOrder
  MaxFaults = 1
  Byzantine = {v1}
  Mesh = "mesh"
  Local = "local"
  NoBlock = NoBlock
  Nodes = {n1, n2}
  Ids = {n1, n2, guest}
  Invitations <- MCInvitations
  EventLists <- MCEventLists
  OwnEvents <- MCOwnEvents
  Senders = {n1, guest}
  ApprovalSets <- MCApprovalSets
  NoPolicy = NoPolicy
  NoCert = NoCert
  MaxIssued = 1
  MaxBlocks = 2
  MaxQueue = 2
  MaxTime = 1
  MaxEvents = 5
INVARIANTS Agreement   AuditsVerify
CHECK_DEADLOCK FALSE
