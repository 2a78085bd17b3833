SPECIFICATION FairSerialSpec
CONSTANTS
  c1 = c1
  c2 = c2
  c3 = c3
  g1 = g1
  g2 = g2
  x1 = x1
  Clients = {c1, c2, c3}
  Server = server
  Groups = {g1}
  Texts = {x1}
  Empty = empty
  None = none
  MaxClients = 2
  Stale = {"LEAVE_GROUP", "UNKNOWN"}
  Commands = {"start", "broadcast", "display", "private", "private server", "exit", "ctrl-c", "stop", "restart"}
  MaxActs = 4
PROPERTIES
  SendReturns
  LogoutCompletes
CHECK_DEADLOCK FALSE
