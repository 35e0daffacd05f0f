SPECIFICATION Spec
CONSTANTS
  Junk = junk
  Tag = {2, 50}
  Ints <- Boundaries
  Lengths <- SomeLengths
  MinLength <- Capacities
  MaxFields = 2
CHECK_DEADLOCK FALSE
INVARIANTS
  MessageArrives
  ExactFieldsReadBack
