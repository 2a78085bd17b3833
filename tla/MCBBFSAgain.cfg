SPECIFICATION Spec
CONSTANTS
  x = x
  y = y
  o1 = o1
  o2 = o2
  h1 = h1
  h2 = h2
  t1 = t1
  t2 = t2
  Names = {x, y}
  RootPath = root
  RootDir = rootdir
  Objects = {o1, o2}
  None = none
  MaxLength = 1
  Threads = {t1}
  Handles = {h1}
  MaxDescriptors = 2
  MaxCalls = 3
SYMMETRY Symmetric
INVARIANT
  NullIsError
CHECK_DEADLOCK FALSE
