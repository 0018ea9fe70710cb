CONSTANTS
  t1 = t1
  t2 = t2
  h1 = h1
  h2 = h2
  Threads = {t1, t2}
  Handles = {h1}
  Ids = {k1}
  LeafCount = 3
  Asked = {NextUnused, 2}
  Counts = {1, 2}
  UnlinkFails = FALSE
  Disciplined = TRUE
  MaxRestores = 2
  NextUnused = NextUnused
  Nobody = Nobody
  NoFile = NoFile
  NoHandle = NoHandle
  NoJob = NoJob
  NoId = NoId
SPECIFICATION BenchSpec
SYMMETRY Symmetry

  
  
PROPERTIES
  ObjectNeverReuses
