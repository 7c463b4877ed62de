SPECIFICATION MoneySpec
CONSTANTS
  Tasks = {t1, t2}
  Kinds = {"buy_only", "buy_then_sell"}
  m1 = m1
  m2 = m2
  m3 = m3
  NoMint = NoMint
  NoTask = NoTask
  Mints <- MCMints2
  Weight <- MCWeight2
  CapLamports = 15
  U64Max = 18
  MaxRestarts = 1
  CrashMidWrite = FALSE
  DiskFaults = TRUE
  RefundAfterSend = TRUE
  Interval = 2
  Setups <- MCSetups
  Directions <- MCDirections
  SweepAbove = 3
  MinSweep = 2
  SweepEvery = 3
  StableProbe = 2
  RealSol = 2
  ApproxSol = 1
  DropPct = 25
  WatchEvery = 2
  AlertWindow = 5
  SwapLife = 4
  MaxStableSwaps = 1
  MaxMisreads = 1
  MaxTreasuryTime = 10
CHECK_DEADLOCK FALSE
SYMMETRY MCTaskSymmetry
INVARIANTS CallsSound TreasurySound
PROPERTIES SuccessfulSendsSpaced ImplementsLedger
