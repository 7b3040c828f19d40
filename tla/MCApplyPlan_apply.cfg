SPECIFICATION ApplySpec
CONSTANTS
  NoFile = NoFile
  Partial = Partial
  MaxSpecs = 3
  Setups <- MoveOrDummy
  FileNames <- FourNames
INVARIANTS
  ApplyTypeOK
  RestOfPlanReady
  OnePassSuffices
PROPERTIES
  NoFileLost
  ApplyTerminates
