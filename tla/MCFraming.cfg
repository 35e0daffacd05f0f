SPECIFICATION Spec
CONSTANTS
  Length <- Lengths
  ReadSize = 3
  MaxLocks = 2
INVARIANTS
  BytesInOrder
  EachOnce
PROPERTIES
  HandlerEnds
  EachHandled
CHECK_DEADLOCK FALSE
