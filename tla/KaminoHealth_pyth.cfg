SPECIFICATION HealthSpec
CONSTANTS
  c1 = c1
  c2 = c2
  b1 = b1
  HReserves = {c1, c2, b1}
  DepositSlots <- MCDepositSlots
  BorrowSlots <- MCBorrowSlots
  NoReserve = nores
  ConfigThreshold = 50
  GroupThreshold = 80
  BorrowFactor = 150
  Supply = 10
  Liquidities = {10, 20}
  Decimals = 1
  OracleExp = 1
  SfScale = 100
  OraclePrices <- MCOraclePrices
  Feeds = {"pyth"}
  MarginBps = 100
  MaxStale = 0
  MaxSlots = 1
INVARIANT PredictsRefresh
