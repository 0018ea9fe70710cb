CONSTANTS
  t1 = t1
  t2 = t2
  x = x
  y = y
  Threads = {t1, t2}
  Batches <- MCBatches
  MaxSize = 5
  MaxDamage = 1
  TileHeight = 2
  TileWidth = 4
  UnlinkFails = FALSE
  Nobody = Nobody
  NoFile = NoFile
  NoCall = NoCall
  NoProof = NoProof
SPECIFICATION BenchSpec
SYMMETRY Symmetry
INVARIANTS
  DirectoryHolds
  ReadsVerify
  SignedIsKept
PROPERTIES
  CoveredFilesKept
  ImplementsAppendOnlyLog
