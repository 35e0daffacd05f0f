SPECIFICATION Spec
CONSTANTS
  Client = {o, c1, c2}
  Owner = o
  NULL = NULL
  MAX_CLIENTS_PER_ROOM = 2
  MaxRequests = 5
SYMMETRY Symmetric
INVARIANTS
  TypeOK
  CountCoversSlots
