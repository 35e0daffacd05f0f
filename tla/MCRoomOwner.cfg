SPECIFICATION OwnerSpec
CONSTANTS
  Client = {o, c1, c2, c3}
  Owner = o
  NULL = NULL
  MAX_CLIENTS_PER_ROOM = 3
  MaxRequests = 6
SYMMETRY Symmetric
INVARIANTS
  CountIsExact
  SlotsMatchPointers
  ClosedIsEmpty
PROPERTIES
  ImplementsOneRoom
