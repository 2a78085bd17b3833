SPECIFICATION FairSpec
CONSTANTS
  root = root
  d1 = d1
  d2 = d2
  d3 = d3
  f1 = f1
  f2 = f2
  f3 = f3
  a = a
  b = b
  c = c
  dot = dot
  dotdot = dotdot
  nowhere = nowhere
  NumThreads = 2
  Dirs = {root, d1, d2}
  Files = {f1, f2}
  Unreadable = {}
  Root = root
  Nowhere = nowhere
  Names = {a, b, c, dot, dotdot}
  Dot = dot
  DotDot = dotdot
  Listing <- TwinListing
  Target <- TwinTarget
  Hits <- SomeHits
  MaxElements = 5
INVARIANTS
  TypeOK
  LeavesNoWork
  HandedOutOnce
  FindsAll
PROPERTIES
  CountedOnce
  Ends
  ImplementsWork
CHECK_DEADLOCK FALSE
