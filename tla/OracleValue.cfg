SPECIFICATION FairSpec
CONSTANTS
  ONE = 8
  BPS_DENOMINATOR = 10000
  max_deviation_bps = 2500
  decrease_tolerance = 1
  VALUE_TOLERANCE = 0
  Holdings = {8}
  Shares = {8}
  Prices = {7, 8, 12}
  Amounts = {2}
  WrongTotals = {0, 9}
  MaxAssets = 12
  MaxGains = 2
  MaxMessages = 1
  MaxSafeWrites = 1
  MaxFaults = 1
  None = None
INVARIANTS TypeOK PriceBacked ReadingComplete
PROPERTIES WritesWithinGuard AlarmsAreReal ImplementsSharePrice PriceCatchesUp
CHECK_DEADLOCK FALSE
