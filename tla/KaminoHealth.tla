---------------------------- MODULE KaminoHealth ----------------------------
(***************************************************************************)
(* What the Kamino tools believe of an obligation                          *)
(* (src/crates/arb-scout/src/kamino_liq.rs, kamino_scope.rs): prices of    *)
(* the oracles are turned into the reserve's fixed-point price and laid    *)
(* over the cached reserves, the values the program cached in the          *)
(* obligation are scaled by what the prices did since, and the result is   *)
(* compared with the threshold of liquidation.                             *)
(*                                                                         *)
(* The program itself is the reference: refresh_reserve takes the oracle's *)
(* price, refresh_obligation recomputes the cached values with the         *)
(* thresholds of the obligation's elevation group. Debt interest between   *)
(* refreshes is left out.                                                  *)
(***************************************************************************)
EXTENDS Integers, Sequences, FiniteSets, FiniteSetsExt, SequencesExt

CONSTANTS
  HReserves,           \* reserves
  DepositSlots,        \* the obligation's deposit slots: [reserve, amount], in order
  BorrowSlots,         \* its borrow slots: [reserve, amountSf], in order
  NoReserve,           \* Pubkey::default(), an empty slot
  ConfigThreshold,     \* liquidation_threshold_pct of the reserves
  GroupThreshold,      \* that of the elevation group, which overrides it
  BorrowFactor,        \* borrow_factor_pct
  Supply,              \* cToken supply of a reserve
  Liquidities,         \* available and borrowed liquidity a reserve may have
  Decimals,            \* mint_decimals
  OracleExp,           \* digits after the point of an oracle's price
  SfScale,             \* 2^60
  OraclePrices,        \* reserve -> raw prices: USD per token * 10^OracleExp
  Feeds,               \* feeds the hunter is subscribed to: pyth, scope
  MarginBps,           \* NATIVE_KAMINO_HEALTH_MARGIN_BPS
  MaxStale, MaxSlots   \* NATIVE_KAMINO_MAX_STALE_SLOTS; bound

VARIABLES
  oracle,      \* reserve -> raw price the oracle shows
  reserve,     \* reserve -> its account, which the cache follows: priceSf, liquidity
  over,        \* price_overrides: reserve -> priceSf, for some reserves
  threshold,   \* what the program applies to this obligation
  values,      \* the obligation as read last: deposited, unhealthy, borrowed, debt
  age,         \* slots since the obligation was refreshed
  behind       \* history: reserves whose newest oracle price the hunter does not hold

healthVars == <<oracle, reserve, over, threshold, values, age, behind>>

Undecided == "none"

---------------------------------------------------------------------------
\* Prices.

\* fresh_market_price_sf, for an update of Pyth.
PythPriceSf(raw) == (raw * SfScale) \div 10 ^ (OracleExp + Decimals)

\* fresh_market_price_sf_from_scope, for a chain of one entry.
ScopePriceSf(raw) == (raw * SfScale) \div 10 ^ OracleExp

\* klend: what refresh_reserve stores, USD per whole token.
ChainPriceSf(raw) == (raw * SfScale) \div 10 ^ OracleExp

\* Prices per reserve: of the accounts, of the hunter, of a refresh in the
\* transaction itself.
Stored    == [r \in HReserves |-> reserve[r].priceSf]
Believed  == [r \in HReserves |-> IF r \in DOMAIN over THEN over[r] ELSE reserve[r].priceSf]
Refreshed == [r \in HReserves |-> ChainPriceSf(oracle[r])]

---------------------------------------------------------------------------
\* Values at given prices.

\* parse_obligation: slots without a reserve or without an amount are no legs.
DepositLegs == SelectSeq(DepositSlots, LAMBDA s : s.reserve # NoReserve /\ s.amount # 0)
BorrowLegs  == SelectSeq(BorrowSlots, LAMBDA s : s.reserve # NoReserve /\ s.amountSf # 0)

CTokenToLiquidity(r, amount) == (amount * reserve[r].liquidity) \div Supply

MarketValue(amount, priceSf) == (amount * priceSf) \div 10 ^ Decimals

DepositValue(d, price) == MarketValue(CTokenToLiquidity(d.reserve, d.amount), price[d.reserve])
BorrowValue(b, price)  == MarketValue(b.amountSf \div SfScale, price[b.reserve])

Deposited(price) == FoldLeft(LAMBDA sum, d : sum + DepositValue(d, price), 0, DepositLegs)
Borrowed(price)  == FoldLeft(LAMBDA sum, b : sum + BorrowValue(b, price), 0, BorrowLegs)

\* The same, each leg with the weight its reserve's config names.
Unhealthy(price) ==
  FoldLeft(LAMBDA sum, d : sum + (DepositValue(d, price) * ConfigThreshold) \div 100, 0, DepositLegs)
WeightedDebt(price) ==
  FoldLeft(LAMBDA sum, b : sum + (BorrowValue(b, price) * BorrowFactor) \div 100, 0, BorrowLegs)

WithMargin(v) == (v * (10000 + MarginBps)) \div 10000

---------------------------------------------------------------------------
\* Verdicts.

\* klend after refresh_reserve and refresh_obligation, with our margin on top.
ChainVerdict ==
  (Borrowed(Refreshed) * BorrowFactor) \div 100
    >= WithMargin((Deposited(Refreshed) * threshold) \div 100)

\* is_liquidatable_fresh_via_cached_ratios, what a tick judges by.
MulDiv(a, b, c) == (a * b) \div c

\* As if the reserves' configs decided, whatever the elevation group.
MutConfigThreshold == WeightedDebt(Believed) >= WithMargin(Unhealthy(Believed))

ViaCachedRatios ==
  IF values.deposited = 0 \/ values.borrowed = 0 THEN Undecided
  ELSE MulDiv(values.debt, Borrowed(Believed), values.borrowed)
         >= WithMargin(MulDiv(values.unhealthy, Deposited(Believed), values.deposited))

\* is_liquidatable_per_cache and is_liquidatable_fresh, what the scan at the
\* start judges by: both must hold, of an obligation refreshed lately.
PerCache == values.deposited # 0 /\ values.debt >= WithMargin(values.unhealthy)
Fresh    == WeightedDebt(Stored) >= WithMargin(Unhealthy(Stored))
Scanned  == age <= MaxStale /\ PerCache /\ Fresh

---------------------------------------------------------------------------
\* klend: the values refresh_obligation caches, from the stored prices.
RefreshedValues ==
  [deposited |-> Deposited(Stored), unhealthy |-> (Deposited(Stored) * threshold) \div 100,
   borrowed |-> Borrowed(Stored), debt |-> (Borrowed(Stored) * BorrowFactor) \div 100]

HealthInit ==
  /\ oracle = [r \in HReserves |-> Min(OraclePrices[r])]
  /\ \E l \in Liquidities :
       reserve = [r \in HReserves |-> [priceSf |-> ChainPriceSf(oracle[r]), liquidity |-> l]]
  /\ over = [r \in {} |-> 0]
  /\ threshold \in {ConfigThreshold, GroupThreshold}
  /\ values = RefreshedValues
  /\ age = 0 /\ behind = {}

\* A Scope price is believed between two thirds and three halves of the cached one.
Believable(r, sf) == sf \in (reserve[r].priceSf * 2) \div 3 .. (reserve[r].priceSf * 3) \div 2

\* The oracle publishes, and the hunter takes the update for an override.
OraclePublishes(r, raw, feed) ==
  LET sf == IF feed = "pyth" THEN PythPriceSf(raw) ELSE ScopePriceSf(raw)
      taken == feed = "scope" => Believable(r, sf)
  IN  /\ oracle' = [oracle EXCEPT ![r] = raw]
      /\ over' = IF taken THEN [q \in DOMAIN over \cup {r} |-> IF q = r THEN sf ELSE over[q]]
                          ELSE over
      /\ behind' = IF taken THEN behind \ {r} ELSE behind \cup {r}
      /\ UNCHANGED <<reserve, threshold, values, age>>

\* Somebody's transaction refreshes the reserve, with the interest so far; the
\* account update replaces the cached reserve and ends the override.
ReserveRefreshed(r, l) ==
  /\ reserve' = [reserve EXCEPT ![r] = [priceSf |-> ChainPriceSf(oracle[r]), liquidity |-> l]]
  /\ over' = [q \in DOMAIN over \ {r} |-> over[q]]
  /\ behind' = behind \ {r}
  /\ UNCHANGED <<oracle, threshold, values, age>>

\* The owner acts, which refreshes the obligation, and a rebuild reads it and
\* throws the overrides away.
ObligationRead ==
  /\ values' = RefreshedValues
  /\ age' = 0
  /\ over' = [r \in {} |-> 0]
  /\ behind' = behind \cup {r \in DOMAIN over : over[r] # reserve[r].priceSf}
  /\ UNCHANGED <<oracle, reserve, threshold>>

SlotPasses ==
  /\ age < MaxSlots
  /\ age' = age + 1
  /\ UNCHANGED <<oracle, reserve, over, threshold, values, behind>>

HealthNext ==
  \/ \E r \in HReserves, feed \in Feeds : \E raw \in OraclePrices[r] : OraclePublishes(r, raw, feed)
  \/ \E r \in HReserves, l \in Liquidities : l >= reserve[r].liquidity /\ ReserveRefreshed(r, l)
  \/ ObligationRead
  \/ SlotPasses

HealthSpec == HealthInit /\ [][HealthNext]_healthVars

---------------------------------------------------------------------------
\* kamino_liq.rs:437, 676: with the newest oracle prices in hand, whichever
\* way they came and however long ago the obligation was refreshed, a tick
\* judges the obligation as the program will after the refreshes of the same
\* transaction, elevation groups included.
PredictsRefresh == behind = {} => ViaCachedRatios = ChainVerdict

\* What the scan reports of an obligation outside an elevation group would be
\* liquidated at the prices the reserves hold.
ScanAgrees ==
  Scanned /\ threshold = ConfigThreshold /\ Stored = Refreshed => ChainVerdict

\* The verdicts of scan and hunter, whole: both of the above.
VerdictsSound == PredictsRefresh /\ ScanAgrees
=============================================================================
