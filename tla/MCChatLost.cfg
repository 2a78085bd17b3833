SPECIFICATION FairSpec
CONSTANTS
  c1 = c1
  c2 = c2
  c3 = c3
  g1 = g1
  g2 = g2
  x1 = x1
  Clients = {c1}
  Server = server
  Groups = {g1}
  Texts = {x1}
  Empty = empty
  None = none
  MaxClients = 1
  Stale = {"UNKNOWN"}
  Commands = {"start", "broadcast"}
  MaxActs = 3
PROPERTY
  SendReturns
CHECK_DEADLOCK FALSE
