SPECIFICATION EngineSpec
CONSTANTS
  Nets <- MCNets
  MaxAge = 2
  Capacity = 2
  MaxSubmits = 5
  MaxTime = 7
  Interval = 2
  Percentiles <- MCPercentiles
  FallbackPct = 75
  StarterRow <- MCStarter
  PolledRows <- MCRows
  MaxTipPolls = 1
  NatCalls = {c1, c2}
  PermitCounts = {1, 2}
  FastModes = {TRUE, FALSE}
  NatLive = TRUE
  SubmissionPath = "jito"
  NatNets = {0, 3, 5}
  NatMinProfit = 1
  NatMaxLoss = 1
  TipPct = 70
  FloorPct = 75
  SenderMinTip = 3
  StaticCeiling = 3
  TipReserve = 2
  NatWallet = 7
  v1 = v1
  v2 = v2
  v3 = v3
  NumEngines = 3
  Blocks <- MCBlocks
  CorrDelay = 2
  MaxCorrItems = 3
  MaxCorrTime = 5
  EpochSlots = 4
  LeaderAt <- MCLeaders
  TpuAddress <- MCAddress
  Fanout = 2
  MaxSlot = 6
  MaxRefreshes = 2
  r1 = r1
  r2 = r2
  o1 = o1
  o2 = o2
  KReserves = {r1, r2}
  KObligations = {o1, o2}
  Deposits <- MCDeposits
  Borrows <- MCBorrows
  KDebt <- MCDebt
  SinksAt <- MCSinksAt
  KWorkers = {w1}
  FireQueue = 1
  TopHits = 2
  Suppress = 1
  MaxPrice = 1
  MaxJump = 0
  MaxKTime = 1
  MaxRebuilds = 1
  c1 = c1
  c2 = c2
  b1 = b1
  HReserves = {c1, c2, b1}
  DepositSlots <- MCDepositSlots
  BorrowSlots <- MCBorrowSlots
  NoReserve = nores
  ConfigThreshold = 50
  GroupThreshold = 80
  BorrowFactor = 150
  Supply = 10
  Liquidities = {10, 20}
  Decimals = 1
  OracleExp = 1
  SfScale = 100
  OraclePrices <- MCOraclePrices
  Feeds = {"scope"}
  MarginBps = 100
  MaxStale = 0
  MaxSlots = 1
  FlashJobs <- MCFlashJobs
  x = x
  y = y
  LoanMint = usdc
  Coll = coll
  CToken = ctoken
  FlashMints <- MCFlashMints
  Loan = 20
  BonusPct = 5
  SolendFee = 1
  Floats = {0, 20}
  NoFlash = noflash
INVARIANTS RingSound NativeLedger TipIsSound OneTakerPerReply CorrelatorLedger
INVARIANTS SendsToLeaders HunterSound VerdictsSound EnvelopesClose
PROPERTIES FreshOnesStay PicksSound
CHECK_DEADLOCK FALSE
