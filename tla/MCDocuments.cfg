CONSTANTS
  f1 = f1
  f2 = f2
  edited = edited
  NoVal = NoVal
  NoNonce = NoNonce
  Sha256 = Sha256
  IdSignedData = IdSignedData
  IdTstInfo = IdTstInfo
  Idle = Idle
  Targets = {"app", "lib"}
  Claims = {"clean", "findings"}
  Keys = {"k1", "k2"}
  Issuer = "k1"
  AuditTool = "audit"
  CbomTool = "cbom"
  OtherTool = "other"
  MaxEdits = 3
  Rules = {"k1", "k2"}
  Sources = {"a.py", "notebook"}
  Details = {"d"}
  LastLine = 3
  MaxFindings = 3
  PathNames = {"key", "a", "b", "src", "folder"}
  InTree = {"src"}
  Folders = {"folder"}
  Orphans = {}
  KeyName = "key"
  MaxWrites = 3
  PythonFiles = {"a.py", "b.py"}
  NewSyntax = {"b.py"}
  Sites <- SomeSites
  Publishers = {"us"}
  MaxRuns = 6
SPECIFICATION Spec
SYMMETRY Symmetry
CHECK_DEADLOCK FALSE
INVARIANTS
  TrustIsEarned
  StampsProve
PROPERTIES
  AlertsKept
  StatedOnce
  NothingReadIsLost
