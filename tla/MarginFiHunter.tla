---------------------------- MODULE MarginFiHunter ----------------------------
(***************************************************************************)
(* The MarginFi hunter (src/crates/arb-scout/src/bin/marginfi-hunter.rs,   *)
(* with compute_health and attempt_liquidation of marginfi_liq.rs and the  *)
(* refetch of shred_alert.rs). Prices arrive by two feeds, a tick judges   *)
(* the accounts they touch and queues the worst, workers try to liquidate  *)
(* them, and a refresh replaces everything now and then.                   *)
(*                                                                         *)
(* Bank cache, accounts, index, prices and the two sets of marks each have *)
(* a tokio RwLock: fair, so that a writer who waits keeps later readers    *)
(* out. A worker reads the bank cache for the whole of its attempt.        *)
(***************************************************************************)
EXTENDS Integers, Sequences, FiniteSets, FiniteSetsExt, SequencesExt

CONSTANTS
  MAccounts, MBanks,
  Oracles, OracleOf,   \* Pyth accounts; bank -> its oracle
  Observable,          \* banks whose oracle is a Pyth push feed
  Balances,            \* account -> set of balances [bank, asset, liab], in tokens
  Quotes,              \* oracle -> the prices it shows one after the other
  AssetWeight, LiabWeight,  \* maintenance weights, in percent
  MinDebt, TopFires,   \* MARGINFI_HUNT_MIN_DEBT_USD; hits taken per tick
  TickBuffer, FireBuffer,
  MWorkers,
  FirePeriod,          \* 30 s between fires at one account
  HealthyTtl, TooLargeTtl,
  MaxMTime, MaxMRefreshes, MaxRefetches

\* A reader of the bank cache is named once.
ASSUME MfiAssumption == MWorkers \cap {"tick", "refresh"} = {}

VARIABLES
  mtime,
  quote,        \* oracle -> index into Quotes
  repaid,       \* accounts whose owner repaid everything
  ticks,        \* the channel of account updates
  refetched,    \* oracle -> quote a shred alert has fetched and not sent yet
  refetches,
  mprices,      \* bank -> quote, for banks with a price
  inMemory,     \* accounts loaded
  index,        \* oracle's accounts by the index, for the affected banks
  marks,        \* account -> when it was found healthy or too large
  lastFire,     \* fired_recently: account -> time
  fires,        \* the queue of candidates
  mtick,        \* what tick_processor is about
  mworker,      \* worker -> [at, acct]
  refresh,      \* what background_refresh is about
  cacheReaders, \* who reads the bank cache
  liquidated    \* accounts a transaction was sent for

mfiVars == <<mtime, quote, repaid, ticks, refetched, refetches, mprices, inMemory, index, marks,
             lastFire, fires, mtick, mworker, refresh, cacheReaders, liquidated>>

Never == -10
NoMark == [healthy |-> Never, tooLarge |-> Never]

AllBanks == [b \in Observable |-> quote[OracleOf[b]]]

---------------------------------------------------------------------------
\* compute_health, of the balances a price is known for.

Usd(amount, b, p) == amount * Quotes[OracleOf[b]][p[b]]

Priced(a, p) == {x \in Balances[a] : x.bank \in DOMAIN p}

HealthOf(a, p) ==
  FoldSet(LAMBDA x, acc : acc + (Usd(x.asset, x.bank, p) * AssetWeight) \div 100
                              - (Usd(x.liab, x.bank, p) * LiabWeight) \div 100,
          0, Priced(a, p))
DebtOf(a, p) == FoldSet(LAMBDA x, acc : acc + Usd(x.liab, x.bank, p), 0, Priced(a, p))

\* The account has a balance in a bank that cannot be observed.
Blind(a) == \E x \in Balances[a] : x.bank \notin Observable

Banks(a) == {x.bank : x \in Balances[a]}
IndexOf(S) == [b \in MBanks |-> {a \in S : b \in Banks(a)}]

\* MarginFi judges by all balances, at the prices the oracles show. The price
\* of a bank without a Pyth push feed is known to the program too.
ProgramHealth(a) ==
  IF a \in repaid THEN 0 ELSE HealthOf(a, [b \in MBanks |-> quote[OracleOf[b]]])

---------------------------------------------------------------------------
MfiInit ==
  /\ mtime = 0
  /\ quote = [o \in Oracles |-> 1]
  /\ repaid = {}
  /\ ticks = <<>> /\ refetched = [o \in {} |-> 0] /\ refetches = 0
  /\ mprices = AllBanks
  /\ inMemory = MAccounts /\ index = IndexOf(MAccounts)
  /\ marks = [a \in MAccounts |-> NoMark]
  /\ lastFire = [a \in MAccounts |-> Never]
  /\ fires = <<>>
  /\ mtick = [at |-> "idle", affected |-> {}]
  /\ mworker = [w \in MWorkers |-> [at |-> "idle", acct |-> CHOOSE a \in MAccounts : TRUE]]
  /\ refresh = [at |-> "idle", runs |-> 0, prices |-> AllBanks, accounts |-> {}]
  /\ cacheReaders = {}
  /\ liquidated = {}

marketVars == <<mtime, quote, repaid>>
feedVars     == <<ticks, refetched, refetches>>
loadedVars  == <<mprices, inMemory, index>>
judged    == <<marks, lastFire, fires>>

---------------------------------------------------------------------------
\* Feeds. LaserStream sends an oracle's update; a shred alert refetches all of
\* them and sends what it got, whatever LaserStream has sent in between.

OracleMoves(o) ==
  /\ quote[o] < Len(Quotes[o])
  /\ Len(ticks) < TickBuffer
  /\ quote' = [quote EXCEPT ![o] = @ + 1]
  /\ ticks' = Append(ticks, [oracle |-> o, quote |-> quote[o] + 1])
  /\ UNCHANGED <<mtime, repaid, refetched, refetches, loadedVars, judged, mtick, mworker, refresh,
                 cacheReaders, liquidated>>

ShredAlert ==
  /\ refetches < MaxRefetches /\ DOMAIN refetched = {}
  /\ refetches' = refetches + 1
  /\ refetched' = quote
  /\ UNCHANGED <<marketVars, ticks, loadedVars, judged, mtick, mworker, refresh, cacheReaders, liquidated>>

SendRefetched ==
  /\ Len(ticks) < TickBuffer
  /\ \E o \in DOMAIN refetched :
       /\ ticks' = Append(ticks, [oracle |-> o, quote |-> refetched[o]])
       /\ refetched' = [q \in DOMAIN refetched \ {o} |-> refetched[q]]
  /\ UNCHANGED <<marketVars, refetches, loadedVars, judged, mtick, mworker, refresh, cacheReaders,
                 liquidated>>

OwnerRepays(a) ==
  /\ a \notin repaid
  /\ repaid' = repaid \cup {a}
  /\ UNCHANGED <<mtime, quote, feedVars, loadedVars, judged, mtick, mworker, refresh, cacheReaders,
                 liquidated>>

MTime ==
  /\ mtime < MaxMTime
  /\ mtime' = mtime + 1
  /\ UNCHANGED <<quote, repaid, feedVars, loadedVars, judged, mtick, mworker, refresh, cacheReaders,
                 liquidated>>

---------------------------------------------------------------------------
\* Locks.

\* A reader of the bank cache waits for the writer and behind one who waits.
MayReadCache == refresh.at # "cache"

\* The marks are read by a tick until it is done, and written by workers.
MarksRead == mtick.at \in {"marks", "judge"}
MayMark   == ~MarksRead

---------------------------------------------------------------------------
\* tick_processor.

\* An update that does not parse or does not trade is dropped. The banks of
\* the oracle take the price; no lock is held across the next step.
TakeTick ==
  /\ mtick.at = "idle" /\ ticks # <<>> /\ MayReadCache
  /\ ticks' = Tail(ticks)
  /\ LET u     == Head(ticks)
         banks == {b \in Observable : OracleOf[b] = u.oracle}
         hit   == UNION {index[b] : b \in banks}
     IN  \/ UNCHANGED <<mprices, mtick>>
         \/ /\ mprices' = [b \in DOMAIN mprices \cup banks |->
                             IF b \in banks THEN u.quote ELSE mprices[b]]
            /\ mtick' = [mtick EXCEPT !.at = IF hit = {} THEN "idle" ELSE "marks",
                                    !.affected = hit]
  /\ UNCHANGED <<marketVars, refetched, refetches, inMemory, index, judged, mworker, refresh,
                 cacheReaders, liquidated>>

\* With the marks in hand it waits for the bank cache.
TickReadsCache ==
  /\ mtick.at = "marks" /\ MayReadCache
  /\ mtick' = [mtick EXCEPT !.at = "judge"]
  /\ cacheReaders' = cacheReaders \cup {"tick"}
  /\ UNCHANGED <<marketVars, feedVars, loadedVars, judged, mworker, refresh, liquidated>>

Suppressed(a) == mtime - marks[a].healthy < HealthyTtl \/ mtime - marks[a].tooLarge < TooLargeTtl

MfiHits == {a \in mtick.affected \cap inMemory :
           ~Suppressed(a) /\ HealthOf(a, mprices) < 0 /\ DebtOf(a, mprices) >= MinDebt /\ ~Blind(a)}

\* Worst first, the first few, and none that was fired at lately.
Worst(n) ==
  LET order == SetToSortSeq(MfiHits, LAMBDA a, b : HealthOf(a, mprices) < HealthOf(b, mprices))
  IN  SubSeq(order, 1, Min({n, Len(order)}))
ToFire == SelectSeq(Worst(TopFires), LAMBDA a : mtime - lastFire[a] >= FirePeriod)

Judge ==
  /\ mtick.at = "judge"
  /\ mtick' = [mtick EXCEPT !.at = "idle", !.affected = {}]
  /\ cacheReaders' = cacheReaders \ {"tick"}
  /\ lastFire' = [a \in MAccounts |-> IF a \in Range(ToFire) THEN mtime ELSE lastFire[a]]
  /\ fires' = SubSeq(fires \o ToFire, 1, Min({FireBuffer, Len(fires) + Len(ToFire)}))
  /\ UNCHANGED <<marketVars, feedVars, loadedVars, marks, mworker, refresh, liquidated>>

---------------------------------------------------------------------------
\* fire_worker.

TakeFire(w) ==
  /\ mworker[w].at = "idle" /\ fires # <<>>
  /\ fires' = Tail(fires)
  /\ mworker' = [mworker EXCEPT ![w] = [at |-> "lock", acct |-> Head(fires)]]
  /\ UNCHANGED <<marketVars, feedVars, loadedVars, marks, lastFire, mtick, refresh, cacheReaders, liquidated>>

WorkerReadsCache(w) ==
  /\ mworker[w].at = "lock" /\ MayReadCache
  /\ mworker' = [mworker EXCEPT ![w].at = "attempt"]
  /\ cacheReaders' = cacheReaders \cup {w}
  /\ UNCHANGED <<marketVars, feedVars, loadedVars, judged, mtick, refresh, liquidated>>

\* Who still reads the cache when its attempt has ended: nobody.
MutKeepsCache(w) == {w}
Keeps(w) == {}

\* The account is read again, judged by the worker's prices, and must not hold
\* what cannot be observed.
Worth(a) == a \notin repaid /\ HealthOf(a, mprices) < 0 /\ ~Blind(a)

\* The simulation logs the program's health, which decides on sending.
Simulated(w, a) ==
  IF ProgramHealth(a) < 0
  THEN mworker' = [mworker EXCEPT ![w].at = "idle"] /\ liquidated' \in {liquidated, liquidated \cup {a}}
  ELSE /\ mworker' = [mworker EXCEPT ![w].at = IF ProgramHealth(a) > 0 THEN "healthy" ELSE "idle"]
       /\ UNCHANGED liquidated

\* Every request may fail, and the transaction may be too large.
TryLiquidate(w) ==
  LET a == mworker[w].acct
  IN  /\ mworker[w].at = "attempt"
      /\ cacheReaders' = (cacheReaders \ {w}) \cup Keeps(w)
      /\ \/ mworker' = [mworker EXCEPT ![w].at = "idle"] /\ UNCHANGED liquidated
         \/ Worth(a) /\ mworker' = [mworker EXCEPT ![w].at = "too large"] /\ UNCHANGED liquidated
         \/ Worth(a) /\ Simulated(w, a)
      /\ UNCHANGED <<marketVars, feedVars, loadedVars, judged, mtick, refresh>>

MarkAccount(w) ==
  LET a == mworker[w].acct
  IN  /\ mworker[w].at \in {"too large", "healthy"} /\ MayMark
      /\ marks' = IF mworker[w].at = "healthy" THEN [marks EXCEPT ![a].healthy = mtime]
                                              ELSE [marks EXCEPT ![a].tooLarge = mtime]
      /\ mworker' = [mworker EXCEPT ![w].at = "idle"]
      /\ cacheReaders' = cacheReaders \ {w}
      /\ UNCHANGED <<marketVars, feedVars, loadedVars, lastFire, fires, mtick, refresh, liquidated>>

---------------------------------------------------------------------------
\* background_refresh: banks and prices are fetched first, the accounts take
\* minutes, then one thing after the other is replaced. A failure ends it.

FetchPrices ==
  /\ refresh.at = "idle" /\ refresh.runs < MaxMRefreshes
  /\ refresh' = [refresh EXCEPT !.at = "fetch", !.runs = @ + 1, !.prices = AllBanks]
  /\ UNCHANGED <<marketVars, feedVars, loadedVars, judged, mtick, mworker, cacheReaders, liquidated>>

FetchAccounts ==
  /\ refresh.at = "fetch"
  /\ \/ refresh' = [refresh EXCEPT !.at = "idle"]
     \/ refresh' = [refresh EXCEPT !.at = "cache", !.accounts = MAccounts \ repaid]
  /\ UNCHANGED <<marketVars, feedVars, loadedVars, judged, mtick, mworker, cacheReaders, liquidated>>

\* The bank cache is written when its last reader has left.
ReplaceCache ==
  /\ refresh.at = "cache" /\ cacheReaders = {}
  /\ refresh' = [refresh EXCEPT !.at = "accounts"]
  /\ UNCHANGED <<marketVars, feedVars, loadedVars, judged, mtick, mworker, cacheReaders, liquidated>>

ReplaceAccounts ==
  /\ refresh.at = "accounts" /\ mtick.at # "judge"
  /\ inMemory' = refresh.accounts
  /\ refresh' = [refresh EXCEPT !.at = "index"]
  /\ UNCHANGED <<marketVars, feedVars, mprices, index, judged, mtick, mworker, cacheReaders, liquidated>>

ReplaceMfiIndex ==
  /\ refresh.at = "index"
  /\ index' = IndexOf(refresh.accounts)
  /\ refresh' = [refresh EXCEPT !.at = "prices"]
  /\ UNCHANGED <<marketVars, feedVars, mprices, inMemory, judged, mtick, mworker, cacheReaders, liquidated>>

ReplacePrices ==
  /\ refresh.at = "prices"
  /\ mprices' = refresh.prices
  /\ refresh' = [refresh EXCEPT !.at = "marks"]
  /\ UNCHANGED <<marketVars, feedVars, inMemory, index, judged, mtick, mworker, cacheReaders, liquidated>>

ClearMarks ==
  /\ refresh.at = "marks" /\ MayMark
  /\ marks' = [a \in MAccounts |-> NoMark]
  /\ refresh' = [refresh EXCEPT !.at = "idle"]
  /\ UNCHANGED <<marketVars, feedVars, loadedVars, lastFire, fires, mtick, mworker, cacheReaders, liquidated>>

MfiNext ==
  \/ \E o \in Oracles : OracleMoves(o)
  \/ ShredAlert \/ SendRefetched \/ MTime
  \/ \E a \in MAccounts : OwnerRepays(a)
  \/ TakeTick \/ TickReadsCache \/ Judge
  \/ \E w \in MWorkers : TakeFire(w) \/ WorkerReadsCache(w) \/ TryLiquidate(w) \/ MarkAccount(w)
  \/ FetchPrices \/ FetchAccounts \/ ReplaceCache \/ ReplaceAccounts \/ ReplaceMfiIndex
  \/ ReplacePrices \/ ClearMarks

MfiSpec == MfiInit /\ [][MfiNext]_mfiVars

---------------------------------------------------------------------------
Procs == {"tick", "refresh"} \cup MWorkers

Waits(p) ==
  CASE p = "tick"    -> mtick.at = "marks" /\ ~MayReadCache
    [] p = "refresh" -> \/ refresh.at = "cache" /\ cacheReaders # {}
                        \/ refresh.at = "accounts" /\ mtick.at = "judge"
                        \/ refresh.at = "marks" /\ ~MayMark
    [] OTHER         -> \/ mworker[p].at = "lock" /\ ~MayReadCache
                        \/ mworker[p].at \in {"too large", "healthy"} /\ ~MayMark

Runs(p) ==
  /\ ~Waits(p)
  /\ CASE p = "tick"    -> mtick.at # "idle"
       [] p = "refresh" -> refresh.at # "idle"
       [] OTHER         -> mworker[p].at # "idle"

\* marginfi-hunter.rs:351, 361, 373, 431: whoever waits for a lock, somebody
\* runs who will give one back: tick, workers and refresh hold marks and bank
\* cache in no order that ends with everyone waiting on everyone.
NobodyStandsStill == (\E p \in Procs : Waits(p)) => \E p \in Procs : Runs(p)
===============================================================================
