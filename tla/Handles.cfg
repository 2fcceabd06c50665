CONSTANTS
  Worlds = {a, b}
  Types = {x, y}
  Nothing = Nothing
  MaxIds = 2
  MaxEach = 1
  NoSlot = NoSlot
  Threads = {a, b}
  SlotHandles = {x, y, h3}
  Scoped = {h3}
  MaxSlots = 3
  MaxEmits = 3
  MaxNesting = 2
SPECIFICATION HandlesSpec
SYMMETRY Interchangeable
INVARIANTS
  SignalTypeOK
  SizeIsConnections
  EmitExact
  FreshEntities
  EachExact
  DestroyExact
PROPERTIES
  DeadStaysDead
\* The bounds of a signal are used up and every handle is gone.
CHECK_DEADLOCK FALSE
