SPECIFICATION LiveSpec
CONSTANTS
  v1 = v1  v2 = v2  v3 = v3
  Values = {v1, v2, v3}
  Crc <- TextCrc
  Cases = {}
  MaxWire = 2
  MaxFaults = 3
INVARIANT SeenIsDelivered
PROPERTIES ChangesDelivered LiveIsKept Converges
CHECK_DEADLOCK FALSE
