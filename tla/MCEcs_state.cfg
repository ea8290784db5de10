CONSTANTS
  Types <- MCTypes
  Kind <- MCKind
  EmptyTypes <- MCEmptyTypes
  DeletedEntity = "Deleted"
  Value = {v0, v1}
  Default = v0
  Uninit = Uninit
  Capacity <- MCCapacityMany
  ClientTypes = {"S", "Sh"}
  MaxId = 2
  MaxChunks = 2
SPECIFICATION SpecUntilGone
PROPERTIES OperationsAsPromised GoneIdAsSupposed
CHECK_DEADLOCK FALSE
