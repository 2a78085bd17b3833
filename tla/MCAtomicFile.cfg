SPECIFICATION FairSpec
CONSTANTS
  p1 = p1
  p2 = p2
  t1 = t1
  t2 = t2
  s1 = s1
  s2 = s2
  log = log
  File = log
  Keys = {log}
  Procs = {p1, p2}
  Threads = {t1, t2}
  Segments = {s1, s2}
  NoSegment = none
  MaxWrites = 1
  MaxKills = 1
  MaxRefusals = 1
INVARIANTS
  OneWriteAtATime
  FailsByRaceOrRefusal
  NothingLeftBehind
PROPERTY
  WriteReturns
CHECK_DEADLOCK FALSE
