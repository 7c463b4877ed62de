------------------------------- MODULE Quoters -------------------------------
(* What a pool would pay. Every venue's quoter is a function of the bytes   *)
(* of the pool, of the amounts of its vaults and of an input; the scout      *)
(* chains them along a route and the native executor uses the ones with      *)
(* price impact. Amounts are base units. The code computes some of them in   *)
(* f64; here a price is a fraction, and the quote is rounded down once,      *)
(* where the code converts to u64. The units of the fees are constants, so   *)
(* that TLC can take small ones.                                             *)
EXTENDS TLC, Integers, Sequences, SequencesExt

CONSTANTS
  Bps,         \* 10_000: the unit of a CPMM fee and of a bin step
  FeeUnit,     \* 1_000_000: the unit of Whirlpool, CLMM and Obric fees
  DlmmUnit,    \* 1_000_000_000: the unit of DLMM fees
  CpmmFee,     \* fee of every CPMM pool, in Bps
  LeaveUnits,  \* base units a drained tick keeps
  Window       \* [n, d]: move of the square root price the quotes trust

ASSUME QuoterAssumption ==
  /\ {Bps, FeeUnit, DlmmUnit, Window.n, Window.d} \subseteq Nat \ {0}
  /\ CpmmFee \in 0..Bps /\ LeaveUnits \in Nat

Err == -1                          \* the quoter returns an error

NonNegative(n) == Max({n, 0})

\* b to the power of n.
Power(b, n) == LET P[k \in 0..n] == IF k = 0 THEN 1 ELSE b * P[k - 1] IN P[n]

(***************************************************************************)
(* Constant product                                                        *)
(***************************************************************************)
\* Raydium AMM v4 and Bonkswap: one division at the end.
ConstantProduct(x, rIn, rOut, fee, unit) ==
  LET post == x * (unit - fee) IN
  CASE x = 0 -> 0
    [] x > 0 /\ (rIn = 0 \/ rOut = 0 \/ fee > unit) -> Err
    [] OTHER -> (post * rOut) \div (rIn * unit + post)

\* Raydium CPMM: what is left after the fee is a whole number of units.
CpmmQuote(x, rIn, rOut) ==
  LET post == (x * (Bps - CpmmFee)) \div Bps IN
  CASE x = 0 -> 0
    [] x > 0 /\ (rIn = 0 \/ rOut = 0) -> Err
    [] OTHER -> (rOut * post) \div (rIn + post)

(***************************************************************************)
(* A fixed price                                                           *)
(***************************************************************************)
\* price.n / price.d is what the other side is worth in units of the input.
AtPrice(x, price, fee, unit) ==
  CASE x = 0 -> 0
    [] x > 0 /\ (price.n = 0 \/ price.d = 0 \/ fee > unit) -> Err
    [] OTHER -> (x * price.n * (unit - fee)) \div (price.d * unit)

Square(r)  == [n |-> r.n * r.n, d |-> r.d * r.d]
Flip(r)    == [n |-> r.d, d |-> r.n]
Towards(r, forward) == IF forward THEN r ELSE Flip(r)

\* The price of a bin: one step above the bin below it.
BinPrice(step, id) ==
  LET bins == IF id < 0 THEN -id ELSE id
  IN  Towards([n |-> Power(Bps + step, bins), d |-> Power(Bps, bins)], id >= 0)

DlmmFee(pool) == pool.factor * pool.step * 10 * Power(10, pool.power)

DlmmQuote(x, pool, forward) ==
  IF x > 0 /\ (pool.step = 0 \/ DlmmFee(pool) >= DlmmUnit) THEN Err
  ELSE AtPrice(x, Towards(BinPrice(pool.step, pool.id), forward), DlmmFee(pool), DlmmUnit)

(***************************************************************************)
(* Price impact inside one tick: Whirlpool and CLMM                        *)
(***************************************************************************)
\* root is the square root of the price in the direction of the swap, so that
\* both directions read alike; keep == unit - fee.
MovesTooFar(x, liq, root, keep, unit, forward) ==
  LET moved == x * keep * root.n
      depth == liq * unit * root.d
  IN  moved * Window.d > Window.n * (IF forward THEN depth + moved ELSE depth)

SingleTick(x, liq, root, keep, unit) ==
  (liq * x * keep * root.n * root.n)
    \div (root.d * (liq * unit * root.d + x * keep * root.n))

MostInTick(liq, root) ==
  NonNegative(liq * root.n - LeaveUnits * root.d) \div root.d

SwapQuote(x, pool, fee, forward) ==
  LET root == Towards(pool.root, forward)
      keep == FeeUnit - fee
      out  == SingleTick(x, pool.liq, root, keep, FeeUnit)
  IN CASE x = 0 -> 0
       [] x > 0 /\ (pool.root.n = 0 \/ pool.liq = 0) -> Err
       [] OTHER -> IF MovesTooFar(x, pool.liq, root, keep, FeeUnit, forward)
                   THEN Min({out, MostInTick(pool.liq, root)}) ELSE out

MaxSafeInput(pool, forward) ==
  LET root == Towards(pool.root, forward) IN
  IF pool.root.n = 0 \/ pool.liq = 0 THEN 0
  ELSE (pool.liq * Window.n * root.d) \div (Window.d * root.n)

(***************************************************************************)
(* Obric                                                                   *)
(***************************************************************************)
PmmProduct(pool) == (Power(pool.target * pool.conc, 2) * pool.multX) \div pool.multY
PmmBase(pool, reserveX) == pool.target * pool.conc + reserveX - pool.target

PmmQuote(x, pool, reserveX, forward) ==
  LET net   == (x * (FeeUnit - pool.fee)) \div FeeUnit
      k     == PmmProduct(pool)
      base  == PmmBase(pool, reserveX)
      other == k \div base
  IN CASE x = 0 -> 0
       [] x > 0 /\ (pool.conc = 0 \/ pool.fee >= FeeUnit \/ pool.multY = 0) -> Err
       [] x > 0 /\ pool.conc > 0 /\ pool.fee < FeeUnit /\ pool.multY > 0 /\ base <= 0 -> Err
       [] OTHER -> IF forward THEN NonNegative(other - k \div (base + net))
                   ELSE IF other + net = 0 THEN 0
                   ELSE NonNegative(base - k \div (other + net))

\* from, to: [price, exp, dec, trading] of the two sides; divided before it is
\* scaled. Err stands for the None that makes the caller skip the route.
PythQuote(x, from, to, fee) ==
  LET net    == (from.exp + to.dec) - (to.exp + from.dec)
      mid    == (x * from.price) \div to.price
      scaled == IF net >= 0 THEN mid * Power(10, net) ELSE mid \div Power(10, -net)
  IN CASE x = 0 -> 0
       [] x > 0 /\ ~(from.trading /\ to.trading /\ from.price > 0 /\ to.price > 0
                     /\ fee < FeeUnit) -> Err
       [] OTHER -> (scaled * (FeeUnit - fee)) \div FeeUnit

(***************************************************************************)
(* The quoters                                                             *)
(***************************************************************************)
\* vaults: amounts the scout knows; clmmFees: fees of the CLMM pools it found a
\* config for. A missing entry is an error, and so is a mint the pool lacks.
Known(pool, vaults) == {pool.va, pool.vb} \subseteq DOMAIN vaults
Sides(pool, vaults, forward) ==
  LET both == <<vaults[pool.va], vaults[pool.vb]>> IN IF forward THEN both ELSE Reverse(both)

AmmV4Quote(pool, vaults, forward, x) ==
  IF ~Known(pool, vaults) THEN Err
  ELSE LET r == Sides(pool, vaults, forward) IN ConstantProduct(x, r[1], r[2], pool.fee, pool.unit)
CpmmPoolQuote(pool, vaults, forward, x) ==
  IF ~Known(pool, vaults) THEN Err
  ELSE LET r == Sides(pool, vaults, forward) IN CpmmQuote(x, r[1], r[2])
BonkswapQuote(pool, forward, x) ==
  LET r == IF forward THEN <<pool.rx, pool.ry>> ELSE <<pool.ry, pool.rx>>
  IN  ConstantProduct(x, r[1], r[2], pool.fee, pool.unit)
WhirlpoolQuote(pool, forward, x) ==
  AtPrice(x, Towards(Square(pool.root), forward), pool.fee, FeeUnit)
ClmmQuote(pool, clmmFees, forward, x) ==
  IF pool.name \notin DOMAIN clmmFees THEN Err
  ELSE AtPrice(x, Towards(Square(pool.root), forward), clmmFees[pool.name], FeeUnit)
DlmmPoolQuote(pool, forward, x) == DlmmQuote(x, pool, forward)
LifinityQuote(pool, forward, x) == AtPrice(x, Towards(pool.price, forward), pool.fee, pool.unit)
ObricQuote(pool, vaults, forward, x) ==
  IF ~Known(pool, vaults) THEN Err ELSE PmmQuote(x, pool, vaults[pool.va], forward)

Quote(pool, vaults, clmmFees, mint, x) ==
  LET forward == mint = pool.a IN
  IF mint \notin {pool.a, pool.b} THEN Err
  ELSE CASE pool.kind = "amm_v4"    -> AmmV4Quote(pool, vaults, forward, x)
         [] pool.kind = "clmm"      -> ClmmQuote(pool, clmmFees, forward, x)
         [] pool.kind = "cpmm"      -> CpmmPoolQuote(pool, vaults, forward, x)
         [] pool.kind = "whirlpool" -> WhirlpoolQuote(pool, forward, x)
         [] pool.kind = "dlmm"      -> DlmmPoolQuote(pool, forward, x)
         [] pool.kind = "lifinity"  -> LifinityQuote(pool, forward, x)
         [] pool.kind = "bonkswap"  -> BonkswapQuote(pool, forward, x)
         [] pool.kind = "obric"     -> ObricQuote(pool, vaults, forward, x)
=============================================================================
