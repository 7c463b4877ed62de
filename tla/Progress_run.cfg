SPECIFICATION ProgressSpec
CONSTANTS
  Tasks = {t1, t2}
  Kinds = {"buy_only", "buy_then_sell", "bundle"}
  m1 = m1
  m2 = m2
  m3 = m3
  NoMint = NoMint
  NoTask = NoTask
  Mints <- MCMints2
  Weight <- MCWeight2
  CapLamports = 15
  U64Max = 18
  MaxRestarts = 0
  CrashMidWrite = FALSE
  DiskFaults = FALSE
  RefundAfterSend = TRUE
  Interval = 1
  Configs <- LiveOnes
  RxCapacity = 2
  TxCapacity = 2
  BackoffCap <- MCBackoffCap
  MaxWrites = 3
  MaxSessions = 3
CHECK_DEADLOCK FALSE
INVARIANTS SessionsSound
PROPERTIES QueuedCallsSend StoreNeverGoesBack SessionsReconnect
