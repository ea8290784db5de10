CONSTANTS
  Types <- MCTypes
  Kind <- MCKind
  EmptyTypes <- MCEmptyTypes
  DeletedEntity = "Deleted"
  Value = {v0, v1}
  Default = v0
  Uninit = Uninit
  Capacity <- MCCapacityMany
  ClientTypes = {"A", "Sh"}
  MaxId = 3
  MaxChunks = 3
SPECIFICATION SpecAnyId
INVARIANT IndexMapExact
CHECK_DEADLOCK FALSE
