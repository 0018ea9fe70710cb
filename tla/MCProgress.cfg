CONSTANTS
  Threads = {t1, t2}
  Handles = {h1}
  Ids = {k1}
  LeafCount = 2
  Asked = {NextUnused}
  Counts = {1}
  UnlinkFails = TRUE
  t1 = t1
  t2 = t2
  h1 = h1
  k1 = k1
  NextUnused = NextUnused
  Nobody = Nobody
  NoFile = NoFile
  NoHandle = NoHandle
  NoJob = NoJob
  NoId = NoId
  f1 = f1
  Unreadable = Unreadable
  NoBytes = NoBytes
  Idle = Idle
SPECIFICATION FairBench
PROPERTIES
  LockReleased
  RunEnds
