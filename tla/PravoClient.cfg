SPECIFICATION SessionSpec
CONSTANTS
  Callers = {c1, c2, c3}
  FailureThreshold = 3
  RecoveryTimeout = 2
  HalfOpenMax = 1
  CountCap = 4
  MaxRetries = 2
  Kinds = {"call", "health"}
  Interruptible = TRUE
INVARIANTS CountMatchesState ProbesBounded
PROPERTIES CoolDown PlainHalfOpenResolves PlainRecovery PlainOpensOnThreshold
