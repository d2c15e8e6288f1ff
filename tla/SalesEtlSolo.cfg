\* One run at a time over two blobs: no blob blocks the others.
SPECIFICATION FairSpec
CONSTANTS
  r1 = r1
  r2 = r2
  c1 = c1
  c2 = c2
  p1 = p1
  Blobs = {b1, b2}
  Files = {f1, f2}
  ImportIds = {i1, i2}
  Runs = {r1}
  Scripts = {}
  Conns = {c1, c2}
  Procs = {p1}
  ProcOf <- SoloProcOf
  PoolOf <- OnePool
  NoBlob = NoBlob
  NoFile = NoFile
  NoImport = NoImport
  MaxHolds = 1
  MaxPublish = 2
  MaxFaults = 1
PROPERTIES EveryBlobSettles
