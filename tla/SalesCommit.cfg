\* Two imports next to each other, refunds of both, one merge, late rates.
SPECIFICATION MCSpec
CONSTANTS
  i1 = i1
  i2 = i2
  l1 = l1
  l2 = l2
  Values = {12, 14}
  Unit = 10
  NoRate = NoRate
  LastDay = 2
  Limit = 1
  MaxFetches = 1
  Sales <- MCSales
  ImportOf <- MCImportOf
  RowData <- MCRowData
  Regions = {g1}
  Locs = {l1, l2}
  Idle = Idle
  NoRecord = NoRecord
  NoSale = NoSale
  NoLoc = NoLoc
  Chunk = 2
  MaxMerges = 1
INVARIANTS RefundsFindOriginals ConversionsStand
PROPERTIES NoBetterOriginalLeft
CHECK_DEADLOCK FALSE
