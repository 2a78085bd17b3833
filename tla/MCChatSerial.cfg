SPECIFICATION SerialSpec
CONSTANTS
  c1 = c1
  c2 = c2
  g1 = g1
  g2 = g2
  c3 = c3
  x1 = x1
  Clients = {c1, c2, c3}
  Server = server
  Groups = {g1, g2}
  Texts = {x1}
  Empty = empty
  None = none
  MaxClients = 2
  Stale <- MildTypes
  Commands = {"start", "broadcast", "display", "private", "exit", "ctrl-c", "stop"}
  MaxActs = 6
SYMMETRY Symmetric
INVARIANTS
  RegistryConsistent
  RendezvousPaired
  BroadcastDelivered
PROPERTIES
  ServerFallsOnlyWhenFull
  ImplementsGroups
CHECK_DEADLOCK FALSE
