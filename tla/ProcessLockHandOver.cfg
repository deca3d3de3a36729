SPECIFICATION Spec
CONSTANTS
  NoOne = NoOne
  Process = {s1, s2, c1}
  Schedulers = {s1, s2}
  MaxStarts = 3
  MaxRuns = 2
PROPERTIES RecordsKept
CHECK_DEADLOCK FALSE
