SPECIFICATION Spec
CONSTANTS
  interval <- LedgerInterval
  SavedSchedules <- MCSavedSchedules
  loop_sleep = 1
  gap = 1
  SecureInterval = 1
  alert_after = 2
  OracleSkipAlert = 9
  RestartPauses = {1}
  MaxRun = 1
  MaxTime = 7
  MaxFaults = 2
INVARIANTS TypeOK DistributionStaysOwed UnfinishedStaysDue LedgerHonest
PROPERTIES RunsAreEarned WriteContainsDistribution RetriesPaced
CHECK_DEADLOCK FALSE
