SPECIFICATION Spec
VIEW ContainerState
CONSTANTS
  None = None
  Lists = {"a", "b"}
  Data = {"x", "y"}
  MaxNodes = 3
  NoKey = NoKey
  HKeys = {"null", "p", "q", "r"}
  HValues = {"v", "w"}
  HashOf <- Hashes
  DEFAULT_CAPACITY = 2
  NoValue = NoValue
  TKeys = {1, 2, 3, 4, 5, 6, 7, 8}
  IntValues = 16
  TEntries <- SomeEntries
  TRanges = {{2, 3, 4}}
INVARIANTS
  WellLinked
  NoNodeLost
  HMapWellFormed
  TMapBalanced
  TMapInOrder
PROPERTIES
  ListsAreSequences
  HMapIsMap
  TMapIsMap
