\* Merges of two or three hotels, undone in any order, with other writers.
SPECIFICATION MCSpec
CONSTANTS
  p1 = p1
  p2 = p2
  k1 = k1
  w1 = w1
  Locs = {a, b, c}
  Rows = {p1, p2}
  ProductOf <- MCProductOf
  NoProduct = NoProduct
  Regions = {g1, g2}
  Groups = {h1}
  Free = Free
  Absent = Absent
  Gone = Gone
  Kept = Kept
  NoMerge = NoMerge
  NoValue = NoValue
  MaxDefuncts = 2
  MaxMerges = 2
  MaxWrites = 1
SYMMETRY MergeSymmetry
INVARIANTS TypeOK NoIndexIsMet
PROPERTIES MergeLosesNothing UndoInverts
CHECK_DEADLOCK FALSE
