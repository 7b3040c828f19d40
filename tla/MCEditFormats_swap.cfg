SPECIFICATION FormatsSpec
CONSTANTS
  OldNames <- SomeNames
  TypedNames <- SomeTyped
  EarlierName <- Renamed
  Formats <- SwapOnly
  MaxFiles = 2
INVARIANT SwapPutsNewNameFirst
CHECK_DEADLOCK FALSE
