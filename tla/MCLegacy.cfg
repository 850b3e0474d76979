SPECIFICATION LegacySpec
CONSTANTS
  t1 = t1
  t2 = t2
  r1 = r1
  c1 = c1
  c2 = c2
  c3 = c3
  None = None
  Target = {t1, t2}
  Backup = {t2}
  RoundRobin = FALSE
  Request = {r1}
  Configs <- Checks
  MaxFlight = 2
  MaxConns = 1
  NumRetries = 1
  RetryOn = {"client", "server"}
  Sticky = TRUE
  Caller = {c1, c2, c3}
  MinRequestAmount = 2
  StatTimeWindow = 2
  DegradedTimeWindow = 2
  AmountThreshold <- Amounts
  RatioThreshold <- Ratios
  MaxTotal = 4
INVARIANTS
  UnavailableIsDown
  AttemptsBounded
  CookieNamesTarget
  ShareAtMostOne
PROPERTIES
  DownLongEnough
  HealthRecovers
  Completes
  OpenLongEnough
