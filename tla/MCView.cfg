CONSTANTS
  Types <- MCTypes
  Kind <- MCKind
  EmptyTypes <- MCEmptyTypes
  DeletedEntity = "Deleted"
  Value = {v0, v1}
  Default = v0
  Uninit = Uninit
  Capacity <- MCCapacity
  ClientTypes = {"A", "Sh"}
  MaxId = 2
  MaxChunks = 3
  Queries <- MCQueries
SPECIFICATION ViewSpec
INVARIANTS ViewTypeOK IterationExact CountExact
CHECK_DEADLOCK FALSE
