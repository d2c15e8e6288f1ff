\* The claim that the memberships come back.
SPECIFICATION Spec
CONSTANTS
  p1 = p1
  p2 = p2
  k1 = k1
  w1 = w1
  Locs = {a, b}
  Rows = {p1, p2}
  ProductOf <- MCProductOf
  NoProduct = NoProduct
  Regions = {g1, g2}
  Groups = {h1}
  Free = Free
  Absent = Absent
  Gone = Gone
  Kept = Kept
  NoMerge = NoMerge
  NoValue = NoValue
  MaxDefuncts = 2
  MaxMerges = 1
  MaxWrites = 0
PROPERTIES UndoRestoresMemberships
CHECK_DEADLOCK FALSE
