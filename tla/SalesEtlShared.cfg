\* Two runs of one process (cron and manual) and a script.
SPECIFICATION Spec
CONSTANTS
  r1 = r1
  r2 = r2
  c1 = c1
  c2 = c2
  p1 = p1
  Blobs = {b1}
  Files = {f1}
  ImportIds = {i1, i2}
  Runs = {r1, r2}
  Scripts = {s1}
  Conns = {c1, c2}
  Procs = {p1}
  ProcOf <- OneProcOf
  PoolOf <- OnePool
  NoBlob = NoBlob
  NoFile = NoFile
  NoImport = NoImport
  MaxHolds = 2
  MaxPublish = 1
  MaxFaults = 2
SYMMETRY ImportSymmetry
INVARIANTS TypeOK NoDoubleIngest StatusTellsRows SuccessIsBacked
PROPERTIES CommitIsGated ImplementsLedger
