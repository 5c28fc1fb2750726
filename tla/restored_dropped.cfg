SPECIFICATION Spec
CONSTANTS
  w1 = w1  w2 = w2  r1 = r1  big = big
  Ops = {w1}
  Reads = {}
  Large = {}
  IDs = {1, 2}
  MaxRetry = 1
  DefaultQueue = 2
  Sizes = {}
  TokenAuth = TRUE
  Outages = TRUE
  MaxLen = 3
  MaxRestarts = 1
PROPERTIES AllKeptUntilDelivered
