SPECIFICATION Spec
CONSTANTS
  a = a
  b = b
  v1 = v1
  v2 = v2
  b1 = b1
  b2 = b2
  l1 = l1
  l2 = l2
  l3 = l3
  n1 = n1
  n2 = n2
  n3 = n3
  n4 = n4
  e1 = e1
  e2 = e2
  e3 = e3
  Texts = {a, b}
  Keys = {1, 2, 3, 4}
  Vars = {v1, v2}
  ListBlocks = {l1, l2, l3}
  NodeBlocks = {n1, n2, n3, n4}
  EntryBlocks = {e1, e2, e3}
  Bins = {b1, b2}
  ht_hash <- Hash
  NULL = null
SYMMETRY Symmetric
INVARIANTS
  OwnedOnce
  Sorted
  ReadsRight
PROPERTY
  ImplementsMap
CHECK_DEADLOCK FALSE
