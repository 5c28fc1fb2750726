SPECIFICATION Spec
CONSTANTS
  WordSize = 238
  MilliSpan = 13
  Milli = 4
  DefaultTS = 59
  Epoch = 61
  PreRefresh = 5
  Margin = 2
  MinRefresh = 2
  MaxExpire = 10
  Lifetimes <- AnswerLifetimes
  Intervals <- SketchIntervals
  MaxTime = 17
  BeginBy = 2
INVARIANTS TypeOK TrustedAtMost ExpiredAtMostEarly StaysExpired
