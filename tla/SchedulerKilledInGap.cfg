SPECIFICATION Spec
CONSTANTS
  interval <- LedgerInterval
  SavedSchedules <- MCSettled
  loop_sleep = 1
  gap = 2
  SecureInterval = 2
  alert_after = 2
  OracleSkipAlert = 9
  RestartPauses = {1}
  MaxRun = 0
  MaxTime = 8
  MaxFaults = 1
PROPERTIES WriteContainsDistribution
CHECK_DEADLOCK FALSE
