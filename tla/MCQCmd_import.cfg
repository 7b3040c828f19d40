SPECIFICATION Spec
CONSTANTS
  NoFile = NoFile
  Partial = Partial
  MaxSpecs = 8
  MaxTmp = 2
  Setups <- MoveOnly
  FileNames <- AllNames
  Listable <- BaseNames
  TmpName <- Suffixed
  Scenarios <- ImportAnyTime
INVARIANT
  NoFreedSpecInUse
