SPECIFICATION Spec
CONSTANTS
  Tasks = {t1, t2}
  m1 = m1
  m2 = m2
  m3 = m3
  NoMint = NoMint
  Mints <- MCMints
  Weight <- MCWeight
  CapLamports = 5
  U64Max = 6
  MaxRestarts = 1
  CrashMidWrite = FALSE
  DiskFaults = FALSE
  RefundAfterSend = FALSE
INVARIANTS SpendSurvivesRestart
CHECK_DEADLOCK FALSE
