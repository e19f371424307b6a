SPECIFICATION FairSpec
CONSTANTS
  Clients = {c1, c2}
  c1 = c1
  c2 = c2
  MaxClients = 2
  MaxMessages = 1
CHECK_DEADLOCK FALSE
PROPERTIES
  DisconnectedIsRemoved
