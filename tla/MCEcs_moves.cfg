CONSTANTS
  Types <- MCTypes
  Kind <- MCKind
  EmptyTypes <- MCEmptyTypes
  DeletedEntity = "Deleted"
  Value = {v0, v1}
  Default = v0
  Uninit = Uninit
  Capacity <- MCCapacityFew
  ClientTypes = {"A", "Tag"}
  MaxId = 3
  MaxChunks = 3
SPECIFICATION Spec
INVARIANTS TypeOK IndexMapExact ChunksFit ArchetypesDistinct
CHECK_DEADLOCK FALSE
