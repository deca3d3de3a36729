SPECIFICATION FairSpec
CONSTANTS
  Holdings = {1}
  Stakes = {4}
  Amounts = {2}
  Rewarders = 1
  MaxMoves = 2
  MaxTime = 2
  LastNonce = 1
  D3 = 10
  source_ratio_d3 = 1
  max_source_ratio_d3 = 3
  LAYER_ZERO_DUST = 1
  Forced = {TRUE, FALSE}
  MaxFaults = 1
  None = None
  max_iterations = 2
INVARIANTS TypeOK OneTransfer ReportsProgress
PROPERTIES RedepositsSurplusOnly WithdrawalsServed RewardsReachVault TransfersCease
