SPECIFICATION Spec
CONSTANTS
  t1 = t1
  None = None
  Target = {t1}
  Policies <- MCPolicies
  MaxWait = 1
INVARIANTS
  DownHasFailedLast
PROPERTIES
  DownAfterStreak
  Recovers
