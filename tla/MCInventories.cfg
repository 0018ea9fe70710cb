CONSTANTS
  Idle = Idle
  Listing <- ThreeFiles
  TextNamed = {"b"}
  FileContents <- SomeContents
  Locked = Locked
  NoVersion = NoVersion
  MaxChanges = 2
SPECIFICATION Spec
CHECK_DEADLOCK FALSE
INVARIANTS
  VerdictsAreEarned
  OneTreeRead
  ArchivesAreTold
  WalkIsRight
  DeclaredOrSaid
  
