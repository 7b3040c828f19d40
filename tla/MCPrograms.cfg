SPECIFICATION Spec
CONSTANTS
  OldNames <- SomeNames
  TypedNames <- SomeTyped
  EarlierName <- Renamed
  Formats <- SomeFormats
  MaxFiles = 2
  CommandLines <- SomeCommandLines
  MvOptions = {"S", "t", "suffix", "target-directory"}
  arg_options = {"S", "suffix"}
  TypedFiles <- SomeTypedFiles
  FilesAtStart <- SomeFiles
  UrlNames <- SomeUrlNames
  Code <- SomeCodes
  UrlDirs <- SomeUrlDirs
  MaxArgs = 2
  Home <- Start
  Dirs <- SomeDirs
  File = "f"
  DirArgs <- AllArgs
  NewNames <- BareNames
  Faults <- EnteringFails
  MaxFd = 5
  None = None
INVARIANTS
  TypedNamesRead
  NamesNotMixedUp
  RenamesOneFile
  NoOverwriteUnasked
  EachFileDecoded
  BackHome
PROPERTY
  RenamesThePlan
CHECK_DEADLOCK FALSE
