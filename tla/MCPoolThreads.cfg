SPECIFICATION Spec
CONSTANTS
  Client = {c1, c2, c3}
  Main = main
  NULL = NULL
  MAX_CLIENTS = 2
  MaxConnections = 4
SYMMETRY Symmetric
INVARIANTS
  TypeOK
  SizeWithinLimit
  AddedStaysIn
  SlotsAreConnections
  SizeIsExact
  GetStaysInside
