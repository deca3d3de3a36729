SPECIFICATION FairSpec
CONSTANTS
  interval <- AlertInterval
  SavedSchedules <- MCSettled
  loop_sleep = 1
  gap = 0
  SecureInterval = 0
  alert_after = 2
  OracleSkipAlert = 2
  RestartPauses = {1}
  MaxRun = 0
  MaxTime = 11
  MaxFaults = 1
INVARIANTS RefusalAnswered
PROPERTIES NoSilentStandstill RefusalPaced StopHonoured
CHECK_DEADLOCK FALSE
