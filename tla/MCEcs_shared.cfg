CONSTANTS
  Types <- MCTypes
  Kind <- MCKind
  EmptyTypes <- MCEmptyTypes
  DeletedEntity = "Deleted"
  Value = {v0, v1}
  Default = v0
  Uninit = Uninit
  Capacity <- MCCapacityMany
  ClientTypes = {"D", "Sh"}
  MaxId = 2
  MaxChunks = 3
SPECIFICATION Spec
PROPERTIES ImplementsEntityStore DeletionIsDefined
CHECK_DEADLOCK FALSE
