\* Two calculations at a time of three rows in two days, one of them a refund.
SPECIFICATION LedgerSpec
CONSTANTS
  f1 = f1
  f2 = f2
  f3 = f3
  Fees = {f1, f2, f3}
  Amount <- MCAmount
  Day <- MCDay
  Histories <- MCHistories
  Infinity = 90
  Whole = 10
  ChunkSize = 1
  Jobs = {j1, j2}
  MaxCalcs = 3
  MaxEdits = 1
SYMMETRY JobSymmetry
INVARIANTS TypeOK EntriesAreMarginal SplitNeutral
PROPERTIES RecalcRepairs
CHECK_DEADLOCK FALSE
