SPECIFICATION Spec
CONSTANTS
  Client = {t1, t2, t3}
  Room = {r1, r2, r3}
  NULL = NULL
  MAX_ROOMS = 2
  MaxRooms = 3
SYMMETRY Symmetric
INVARIANTS
  TypeOK
  EntriesAreRooms
  RoomsAreListed
