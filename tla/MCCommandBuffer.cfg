CONSTANTS
  Types <- MCTypes
  Kind <- MCKind
  EmptyTypes = {"Deleted"}
  DeletedEntity = "Deleted"
  Value = {v0, v1}
  Default = v0
  Uninit = Uninit
  Jobs = {j1, j2}
  Written = {v1}
  TypeLists <- MCTypeLists
  MaxId = 2
  MaxTemp = 2
  MaxCommands = 2
SYMMETRY Symmetry
SPECIFICATION Spec
INVARIANTS TypeOK CommandsFollowCreation OneEntityPerTempId TempIdsResolve
PROPERTY CommandsStayOnTarget
CHECK_DEADLOCK FALSE
