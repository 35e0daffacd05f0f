SPECIFICATION PoliteSpec
CONSTANTS
  Client = {c1, c2, c3}
  User = {u1, u2}
  NoUser = NoUser
  NULL = NULL
  MAX_ROOMS = 2
  MaxRooms = 3
  MAX_CLIENTS_PER_ROOM = 2
  MAX_CLIENTS = 3
SYMMETRY Symmetric
INVARIANTS
  SlotsAreTheInside
  ChatOnlyWithPresent
PROPERTIES
  ImplementsChatRooms
CHECK_DEADLOCK FALSE
