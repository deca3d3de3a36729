SPECIFICATION Spec
CONSTANTS
  NoOne = NoOne
  Process = {s1, s2, c1}
  Schedulers = {s1, s2}
  MaxStarts = 5
  MaxRuns = 1
INVARIANTS TypeOK
PROPERTIES ImplementsSingleSigner
CHECK_DEADLOCK FALSE
