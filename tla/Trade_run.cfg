SPECIFICATION TradeSpec
CONSTANTS
  Tasks = {t1, t2}
  m1 = m1
  m2 = m2
  m3 = m3
  NoMint = NoMint
  Mints <- MCMints
  Weight <- MCWeight
  CapLamports = 4
  U64Max = 5
  MaxRestarts = 1
  CrashMidWrite = TRUE
  DiskFaults = TRUE
  RefundAfterSend = FALSE
  Wallet = 5
  Jobs <- MCJobs
  AltTables = {100, 101}
  Forever = {100}
  OldEntries <- MCOld
  Grown = 100
  Batches <- MCBatches
  DeployTries = 2
  AltTtl = 1
  HashTtl = 1
  HashLife = 1
  MaxAltTime = 1
  Unread = unread
  Unsigned = unsigned
  unread = unread
  unsigned = unsigned
  Bps = 20
  FeeUnit = 20
  DlmmUnit = 2000
  CpmmFee = 1
  LeaveUnits = 2
  Window <- MCWindow
  Worlds <- MCWorlds
  USDC = "usdc"
  SOL = "sol"
  USDT = "usdt"
  MaxHops = 3
  Probe = 10
  SizeMin = 4
  SizeMax = 60
  Converged = 4
  FlashBps = 1
  PriorityFee = 1
  BaseTip = 1
  TipPct = 50
  LamportsPerSol = 10
  VerifyEvery = 2
  MaxSwaps = 2
  MaxRefreshes = 1
  QuoteSizes = {1, 7, 200}
  OracleSides <- MCSides
INVARIANTS TypeOK LedgerBalanced OneHolderPerMint SpentWithinCap AssemblySound EvaluationSound
PROPERTIES NeverBoughtTwice ImplementsLedger
CHECK_DEADLOCK FALSE
SYMMETRY MCTaskSymmetry
