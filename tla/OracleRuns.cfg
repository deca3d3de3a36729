SPECIFICATION Spec
CONSTANTS
  Deployments = {1, 2}
  Values = {v1, v2}
  MultiSend = MultiSend
  post_attempts = 2
  find_attempts = 1
  read_attempts = 2
  MaxNonce = 1
  MaxOthers = 1
  OthersCalls <- MCOthersCalls
  MaxCommands = 2
  None = None
INVARIANTS TypeOK ReportedIsQueued OneRowPerProposal NewRowNamesEarlier NobodyLeftOut
PROPERTIES ResyncStaysOpen
SYMMETRY MCSymmetry
CHECK_DEADLOCK FALSE
