SPECIFICATION Spec
CONSTANTS
  server1 = server1
  server2 = server2
  client1 = client1
  client2 = client2
  n1 = n1
  n2 = n2
  k0 = k0
  k1 = k1
  s1 = s1
  s2 = s2
  s3 = s3
  s4 = s4
  Procs = {server1, server2, client1, client2}
  Servers = {server1, server2}
  Names = {server, n1, n2}
  SERVER_NAME = server
  Name <- Started
  Keys = {k0, k1}
  name_to_key <- Hash
  Segments = {s1, s2, s3, s4}
  NoSegment = none
  MaxKills = 1
SYMMETRY Symmetric
INVARIANTS
  SharedByRaceOnly
  LosesNodeByRaceOnly
  LeftWithoutFree
CHECK_DEADLOCK FALSE
