SPECIFICATION LoopsSpec
CONSTANTS
  l1 = l1
  l2 = l2
  l3 = l3
  d1 = d1
  d2 = d2
  PosMints = {m1, m2}
  Kols = {k1, k2}
  NoKol = nokol
  MinBuys = 2
  TrendWindow = 1
  Cooldown = 1
  MinKols = 2
  KolWindow = 2
  EstCost = 2
  MinReserve = 3
  WalletStarts = {4, 6}
  HoldTimeout = 1
  Bags = {}
  BootScan = TRUE
  MaxBuysSeen = 3
  MaxPosTime = 2
  IndexPolls = 2
  ExitAfter = 3
  SimBuy = 2
  TpPct = 200
  SlPct = 50
  QuoteOuts = {1, 2, 3, 5}
  QuoteErr = err
  Launches = {l1, l2, l3}
  Devs = {d1, d2}
  Dev <- MCDev
  DevWindow = 2
  MaxPositions = 1
  SeenCap = 1
  MaxLaunchTime = 3
  Obligations = {o1, o2}
  FreshOnly = TRUE
  MaxScans = 4
  MaxMoves = 4
  MaxUpdates = 3
  MaxRestarts = 1
  FromOperator = {1, 3}
  NoOffset = none
  p1 = p1
  p2 = p2
  p3 = p3
  m1 = m1
  m2 = m2
  Pools = {p1,p2,p3}
  OldPools = {p1}
  TargetMint <- MCTarget
  Token2022 = {m2}
  PageReaches <- MCReach
  WatchModes <- MCModes
  UpdateBuffer = 1
  Depths = {2,4,40}
  FreshMaxAge = 5
  MinQuote = 3
  ProbeCeiling = 3
  ProbePct = 20
  MinProbe = 1
  WatchTip = 1
  WatchMinProfit = 1
  Backs = {0,2}
  MaxAlerts = 2
INVARIANTS EntriesTracked SniperBounds  WatchSound
PROPERTIES BoughtIsSold CommandsOnce
CHECK_DEADLOCK FALSE
