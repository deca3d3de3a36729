SPECIFICATION FairSpec
CONSTANTS
  fee_cap = 2
  fee_bump_percent = 150
  stuck_after = 2
  BaseFees = {1, 2}
  Suggestions = {1}
  Rounds = {1,2}
  ForeignFees <- MCForeignFees
  MaxSends = 1
  MaxFaults = 1
INVARIANTS TypeOK DecidedByChain NothingQueuesBehind PaysWithinCap SilenceBounded
PROPERTIES ReplacementsPay Settles
CHECK_DEADLOCK FALSE
