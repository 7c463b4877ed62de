SPECIFICATION BuySpec
CONSTANTS
  Tasks = {t1}
  Kinds = {"bundle"}
  m1 = m1
  m2 = m2
  m3 = m3
  NoMint = NoMint
  NoTask = NoTask
  Mints <- MCMints2
  Weight <- MCWeight2
  CapLamports = 15
  U64Max = 18
  MaxRestarts = 0
  CrashMidWrite = FALSE
  DiskFaults = FALSE
  RefundAfterSend = TRUE
  Interval = 2
CHECK_DEADLOCK FALSE
PROPERTIES RefundedNeverWentOut
