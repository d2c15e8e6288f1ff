\* One cluster decided and applied by two admins, with stamps that fail.
SPECIFICATION MCSpec
CONSTANTS
  ha = ha
  hb = hb
  hc = hc
  p1 = p1
  p2 = p2
  k1 = k1
  w1 = w1
  Locs = {ha, hb, hc}
  Rows = {p1, p2, k1}
  ProductOf <- MCProductOf
  NoProduct = NoProduct
  Regions = {g1, g2}
  Groups = {h1}
  Pairs <- MCPairs
  Appliers = {x1, x2}
  Absent = Absent
  Gone = Gone
  Kept = Kept
  Idle = Idle
  MaxDecisions = 3
  MaxReads = 2
  MaxInserts = 1
SYMMETRY MCSymmetry
INVARIANTS TypeOK StampedWasMerged
PROPERTIES AppliesFollowPairs
CHECK_DEADLOCK FALSE
