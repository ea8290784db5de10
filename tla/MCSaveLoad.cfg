CONSTANTS
  Types <- MCTypes
  Kind <- MCKind
  EmptyTypes <- MCEmptyTypes
  DeletedEntity = "Deleted"
  DontSaveEntity = "Skip"
  Value = {v0, v1}
  Default = v0
  Uninit = Uninit
  Capacity <- MCCapacity
  ClientTypes = {"A", "Vec", "D", "S", "Sh", "Flag", "Skip"}
  Raw <- MCRaw
  FourBytes = {"A", "Sh"}
  TypeIndex <- MCTypeIndex
  TypeLists <- MCTypeLists
  MaxId = 2
  MaxChunks = 3
SPECIFICATION SaveLoadSpec
INVARIANTS SaveLoadTypeOK
PROPERTIES RoundTrip LoadFaultsByDontSaveOnly PrefabCopy
CHECK_DEADLOCK FALSE
