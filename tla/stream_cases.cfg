SPECIFICATION LiveSpec
CONSTANTS
  v1 = v1  v2 = v2  v3 = v3
  Values = {v1, v2, v3}
  Crc <- TextCrc
  Cases = {"cut", "redirect", "root", "callback"}
  MaxWire = 2
  MaxFaults = 3
INVARIANT TypeOK
PROPERTIES LiveIsKept Resumes
CHECK_DEADLOCK FALSE
