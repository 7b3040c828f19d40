SPECIFICATION Spec
CONSTANTS
  NoFile = NoFile
  Partial = Partial
  MaxSpecs = 8
  MaxTmp = 2
  Setups <- MoveCopyDummy
  FileNames <- AllNames
  Listable <- BaseNames
  TmpName <- Suffixed
  Scenarios <- Sessions
INVARIANTS
  SessionTypeOK
  PlanCarriedOut
  NoFreedSpecInUse
PROPERTIES
  OriginalsKept
  SessionLosesNothing
  AlwaysReturns
