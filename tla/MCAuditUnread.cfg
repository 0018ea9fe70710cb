CONSTANTS
  Files = {f1}
  Contents = {"text", "large"}
  SizeOf <- MCSizes
  Names <- PipelineNames
  Python = {}
  Shell = {"text"}
  Compiled = {"large"}
  Binary = {"large"}
  Flagged = {}
  LinkTextMax = 1
  HoldLimit = 2
  Unreadable = Unreadable
  NoBytes = NoBytes
  NoFile = NoFile
  MaxLen = 6
  MaxChunk = 3
  Ratio = 2
  Idle = Idle
SPECIFICATION UnreadSpec
INVARIANTS
  CleanIsRead
