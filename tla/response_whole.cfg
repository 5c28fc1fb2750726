SPECIFICATION ServedSpec
CONSTANTS
  Readers = {"rtdb", "fcm", "token"}
  Shapes = {"length", "chunked", "error", "empty"}
  Cuts = {}
  Loose = {"fcm", "token"}
  MaxRequests = 2
  MaxFaults = 1
  MaxRedirect = 1
INVARIANTS WholeBody
PROPERTIES Returns
CHECK_DEADLOCK FALSE
