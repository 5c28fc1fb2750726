SPECIFICATION LiveSpec
CONSTANTS
  s1 = s1  s2 = s2  d1 = d1  t1 = t1  t2 = t2
  Streams = {s1, s2}
  Others = {d1}
  Tasks = {t1, t2}
  MaxCalls = 3
INVARIANTS TypeOK FlagHasHolder GuardHasReader
PROPERTIES KeptReading TokenRefreshed
CHECK_DEADLOCK FALSE
