CONSTANTS
  Stores = {e1, e2}
  Order <- MCOrder
  InternalTypes = 2
  ByteBits = 3
  MaxArchetypes = 2
  Clients = {v1, v2}
  LockTypes = {"A"}
  Locking = e1
  BufferCapacity = 40
  IdSize = 4
  MaxAlign = 4
  Shapes <- MCTypeShapes
  MaxTypes = 3
SPECIFICATION Spec
INVARIANTS LookupsExact ListsAreSets LayoutFits LocksExclude
CHECK_DEADLOCK FALSE
