CONSTANTS
  Files = {f1, f2}
  Contents = {"link", "text", "large"}
  SizeOf <- MCSizes
  Names <- AuditNames
  Python = {}
  Shell = {"link"}
  Compiled = {"large"}
  Binary = {"large"}
  Flagged = {}
  LinkTextMax = 1
  HoldLimit = 2
  Unreadable = Unreadable
  NoBytes = NoBytes
  NoFile = NoFile
  MaxLen = 6
  MaxChunk = 3
  Ratio = 2
  Idle = Idle
SPECIFICATION BenchSpec
CHECK_DEADLOCK FALSE
SYMMETRY Symmetry
INVARIANTS
  ReadsAgree
  CleanIsRead
  FilesAccounted
  DigestsAgree
  
