SPECIFICATION DispatchSpec
CONSTANTS
  Tasks = {t1, t2}
  NoTask = NoTask
  Kinds = {"round_trip", "one_way"}
  Nets <- MCNets
  MinProfit = 1
  SkipGate = TRUE
  LossCap = 1
  MinInterval = 1
  Configs <- MCModes
  Retries = {1, 2}
  UseJito = TRUE
  MaxCalls = 4
  s1 = s1
  s2 = s2
  Sends = {s1, s2}
  Modes = {"pair", "atomic", "atomic_rpc", "flash_sender", "flash_bundle", "liquidation", "liquidation_bundle", "swap"}
  SendNets <- MCSendNets
  PollTries = 1
  q1 = q1
  q2 = q2
  k1 = k1
  k2 = k2
  k3 = k3
  a1 = a1
  a2 = a2
  MAccounts = {a1, a2}
  MBanks = {k1, k2, k3}
  Oracles = {q1, q2}
  OracleOf <- MCOracleOf
  Observable = {k1, k2}
  Balances <- MCBalances
  Quotes <- MCQuotes
  AssetWeight = 80
  LiabWeight = 110
  MinDebt = 1
  TopFires = 1
  TickBuffer = 1
  FireBuffer = 1
  MWorkers = {w1}
  FirePeriod = 1
  HealthyTtl = 1
  TooLargeTtl = 2
  MaxMTime = 1
  MaxMRefreshes = 1
  MaxRefetches = 1
CHECK_DEADLOCK FALSE
SYMMETRY MCTaskSymmetry
INVARIANTS   BackOffOvershoot LossOvershoot DeliverySound BookedNetAddsUp NobodyStandsStill
