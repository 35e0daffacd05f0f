SPECIFICATION Spec
CONSTANTS
  Client = {o, c1, c2}
  Owner = o
  NULL = NULL
  MAX_CLIENTS_PER_ROOM = 2
  MaxRequests = 3
PROPERTIES
  RequestsEnd
