SPECIFICATION Spec
CONSTANTS
  NoFile = NoFile
  Partial = Partial
  MaxSpecs = 7
  MaxTmp = 2
  Setups <- MoveOnly
  FileNames <- AllNames
  Listable <- BaseNames
  TmpName <- Suffixed
  Scenarios <- CorrectErrors
INVARIANT
  DestinationFree
