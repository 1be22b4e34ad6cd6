SPECIFICATION Spec
CONSTANTS
  t1 = t1
  t2 = t2
  p = p
  r = r
  s = s
  None = None
  Threads = {t1, t2}
  Addresses <- MCAddresses
  Heard <- MCHeard
  Clients <- MCClients
  Invited <- MCInvited
  MaxEntries = 1
  MaxCalls = 3
  MaxStarts = 2
  MaxHandled = 1
INVARIANTS  StartsFromCache
PROPERTIES CallsReturn
CHECK_DEADLOCK FALSE
