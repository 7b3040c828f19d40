SPECIFICATION WorkDirSpec
CONSTANTS
  Home <- Start
  Dirs <- SomeDirs
  File = "f"
  DirArgs <- RelativeArgs
  NewNames <- BareNames
  Faults <- ListFails
  MaxFd = 5
  None = None
PROPERTY
  RenamesOnlyChecked
