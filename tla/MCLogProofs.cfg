CONSTANTS
  Dirs = {d1, d2}
  Origins = {o1, o2}
  Entries = {x, y}
  MaxLog = 3
  MaxHanded = 2
  NoProof = NoProof
  Idle = Idle
  MaxSize = 4
  MaxTree = 17
  MaxProof = 3
  NoteKeys = {"k1", "k2", "k3"}
  NoteNames = {"n1", "n2"}
  KeyId <- KeyIdOf
  Reports <- TwoReports
  NoReport <- NoneGiven
  Schemes <- TwoSchemes
  Top = "k1"
  MaxSigned = 2
  MaxAppended = 2
  MaxChanges = 2
SPECIFICATION BenchSpec
SYMMETRY Symmetry
CHECK_DEADLOCK FALSE
INVARIANTS
  AcceptedIsTrue
  ForksAreTold
  BundlesHold
  SignaturesHold
