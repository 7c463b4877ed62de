SPECIFICATION NatSpec
CONSTANTS
  Percentiles <- MCPercentiles
  FallbackPct = 75
  StarterRow <- MCStarter
  PolledRows <- MCRows
  MaxTipPolls = 1
  NatCalls = {c1}
  PermitCounts = {1}
  FastModes = {TRUE}
  NatLive = TRUE
  SubmissionPath = "helius_sender"
  NatNets = {0, 8}
  NatMinProfit = 1
  NatMaxLoss = 1
  TipPct = 70
  FloorPct = 75
  SenderMinTip = 4
  StaticCeiling = 2
  TipReserve = 2
  NatWallet = 9
INVARIANT TipMeetsFloor
CHECK_DEADLOCK FALSE
