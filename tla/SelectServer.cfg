SPECIFICATION FairSpec
CONSTANTS
  Clients = {c1, c2, c3}
  c1 = c1
  c2 = c2
  c3 = c3
  MaxClients = 2
  MaxMessages = 2
CHECK_DEADLOCK FALSE
INVARIANTS
  ReadOrFull
PROPERTIES
  ReadUnlessBlocked
