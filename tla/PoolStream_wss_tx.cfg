SPECIFICATION FairStreamSpec
CONSTANTS
  Configs <- WssTx
  RxCapacity = 1
  TxCapacity = 1
  BackoffCap <- MCBackoffCap
  MaxWrites = 1
  MaxSessions = 2
CHECK_DEADLOCK FALSE
PROPERTIES SessionsReconnect
