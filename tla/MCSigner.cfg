CONSTANTS
  Threads = {t1, t2}
  Handles = {h1, h2}
  Ids = {k1}
  LeafCount = 4
  Asked = {NextUnused, 2}
  Counts = {2}
  UnlinkFails = FALSE
  t1 = t1
  t2 = t2
  h1 = h1
  h2 = h2
  k1 = k1
  k2 = k2
  NextUnused = NextUnused
  Nobody = Nobody
  NoFile = NoFile
  NoHandle = NoHandle
  NoJob = NoJob
  NoId = NoId
SPECIFICATION Spec
SYMMETRY Symmetry
INVARIANTS
  OneTime
  SpentOnDisk
PROPERTIES
  LeafOrder
  ImplementsOneTimeKey
