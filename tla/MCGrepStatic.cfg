SPECIFICATION FairSpec
CONSTANTS
  root = root
  d1 = d1
  d2 = d2
  d3 = d3
  f1 = f1
  f2 = f2
  f3 = f3
  a = a
  b = b
  c = c
  dot = dot
  dotdot = dotdot
  nowhere = nowhere
  NumThreads = 2
  Dirs = {root, d1, d2, d3}
  Files = {f1, f2, f3}
  Unreadable = {f2}
  Root = root
  Nowhere = nowhere
  Names = {a, b, c, dot, dotdot}
  Dot = dot
  DotDot = dotdot
  Listing <- DeepListing
  Target <- DeepTarget
  Hits <- SomeHits
  MaxElements = 7
INVARIANTS
  QueuesApart
  FindsAll
PROPERTIES
  Ends
  ImplementsWork
CHECK_DEADLOCK FALSE
