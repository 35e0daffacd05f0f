SPECIFICATION Spec
CONSTANTS
  Client = {c1, c2, c3}
  User = {u1, u2}
  NoUser = NoUser
  NULL = NULL
  MAX_ROOMS = 1
  MaxRooms = 2
  MAX_CLIENTS_PER_ROOM = 2
  MAX_CLIENTS = 3
SYMMETRY Symmetric
INVARIANTS
  TypeOK
  RoomPointersValid
  CountIsOccupancy
  OneSlotPerRoom
  OwnerHasSlot
  InsideIsLoggedIn
  PoolIsLive
  MessageReachesRoom
PROPERTIES
  CloseReachesEveryone
  RoomIdsAreFinal
CHECK_DEADLOCK FALSE
