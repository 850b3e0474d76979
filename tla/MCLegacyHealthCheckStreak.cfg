SPECIFICATION HealthSpec
CONSTANTS
  t1 = t1
  t2 = t2
  None = None
  Target = {t1}
  Configs <- Checks
  MaxFlight = 2
  MaxConns = 1
PROPERTIES
  DownAfterStreak
