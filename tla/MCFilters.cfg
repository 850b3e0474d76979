SPECIFICATION Spec
CONSTANTS
  s1 = s1
  s2 = s2
  s3 = s3
  s4 = s4
  t1 = t1
  t2 = t2
  k1 = k1
  k2 = k2
  Request = {s1, s2}
  Target = {t1, t2}
  Key = {k1}
  NoKey = NoKey
  NoTarget = NoTarget
  Attempts = 3
  Timeouts = TRUE
  Stream = {s1, s2, s3, s4}
  Limit = 2
  Caller = {s1, s2}
  ConcurrencyThreshold = 1
  ErrorCountThreshold = 2
  RatioNum = 1
  RatioDen = 2
  CheckInterval = 1
  BreakInterval = 1
  MaxStat = 3
  MaxAborted = 1
INVARIANTS
  LoadDrifts
PROPERTIES
  KeepsPlaces
  TripNeedsErrors
  GivesUpWhenSpent
  RetriesStick
