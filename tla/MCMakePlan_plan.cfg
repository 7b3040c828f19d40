SPECIFICATION PlanSpec
CONSTANTS
  NoFile = NoFile
  Partial = Partial
  MaxSpecs = 8
  MaxTmp = 3
  Setups <- AllPrograms
  FileNames <- AllNames
  Listable <- BaseNames
  TmpName <- Suffixed
  Scenarios <- QuietOrDisturbed
INVARIANTS
  PlanTypeOK
  PlanSorted
  PlanLinksMirrored
  OneDestinationEach
  PlanIsReady
  EachFileOnce
  PlanIsFeasibleSet
PROPERTY
  PlanTerminates
