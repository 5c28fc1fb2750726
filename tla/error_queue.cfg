SPECIFICATION LiveSpec
CONSTANTS
  w1 = w1  w2 = w2  r1 = r1  big = big
  Ops = {w1, r1}
  Reads = {r1}
  Large = {}
  IDs = {1, 2}
  MaxRetry = 2
  DefaultQueue = 2
  Sizes = {0, 1}
  TokenAuth = FALSE
  Outages = TRUE
  MaxLen = 3
  MaxRestarts = 1
INVARIANTS TypeOK RemovesItsItem
PROPERTIES KeptUntilDelivered KeepsPromise
