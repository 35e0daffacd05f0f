SPECIFICATION Spec
CONSTANTS
  Client = {c1, c2, c3}
  User = {u1, u2, u3}
  NoUser = NoUser
  NULL = NULL
  MAX_ROOMS = 2
  MaxRooms = 2
  MAX_CLIENTS_PER_ROOM = 2
  MAX_CLIENTS = 3
SYMMETRY Symmetric
INVARIANT
  ChatOnlyWithPresent
CHECK_DEADLOCK FALSE
