SPECIFICATION Spec
CONSTANTS
  Readers = {"rtdb", "token"}
  Shapes = {"length", "chunked", "error", "empty", "moved"}
  Cuts = {"status", "header", "blank", "size"}
  Loose = {"rtdb", "token"}
  MaxRequests = 2
  MaxFaults = 1
  MaxRedirect = 1
INVARIANTS TypeOK OwnAnswer
CHECK_DEADLOCK FALSE
