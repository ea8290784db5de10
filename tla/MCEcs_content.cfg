CONSTANTS
  Types <- MCTypes
  Kind <- MCKind
  EmptyTypes <- MCEmptyTypes
  DeletedEntity = "Deleted"
  Value = {v0, v1}
  Default = v0
  Uninit = Uninit
  Capacity <- MCCapacityThree
  ClientTypes = {"A", "Tag"}
  MaxId = 3
  MaxChunks = 1
SPECIFICATION Spec
PROPERTY ImplementsEntityStore
CHECK_DEADLOCK FALSE
