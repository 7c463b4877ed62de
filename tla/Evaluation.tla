----------------------------- MODULE Evaluation ------------------------------
(* The scout's main task: it takes the account updates of the stream one by  *)
(* one, keeps the pools and the amounts of their vaults, and prices every    *)
(* cycle of USDC that touches the pool that changed. A cycle that pays is    *)
(* searched for its best size, recorded, sampled against Jupiter, and given  *)
(* to the native executor or to the Jupiter executor. The task awaits all of *)
(* that before it takes the next update: the chain and the price of SOL move *)
(* on meanwhile, and the amounts of two vaults arrive one after the other.   *)
EXTENDS Quoters, FiniteSets, Functions

CONSTANTS
  Worlds,        \* [market, settings]: the states each pool may be in on the chain,
                 \* and the switches of the environment
  USDC, SOL, USDT,
  MaxHops,       \* SCOUT_MAX_HOPS
  Probe,         \* SCOUT_PROBE_AMOUNT_USDC
  SizeMin, SizeMax, Converged, \* range and precision of the size search
  FlashBps, PriorityFee, BaseTip, TipPct, \* fees: share of the loan, lamports, % of the profit
  LamportsPerSol,
  VerifyEvery,   \* one record in ten is checked with Jupiter
  MaxSwaps,      \* bound: swaps on the chain
  MaxRefreshes,  \* bound: refreshes of the price of SOL
  QuoteSizes,    \* inputs the properties of the quotes try
  OracleSides    \* [price, exp, dec, trading] they try for a quote by oracle

ASSUME EvaluationAssumption ==
  /\ MaxHops \in 2..5 /\ FeeUnit > 1
  /\ {LamportsPerSol, VerifyEvery, Probe, SizeMin} \subseteq Nat \ {0}
  /\ {SizeMax, Converged, FlashBps, PriorityFee, BaseTip, TipPct} \subseteq Nat
  /\ QuoteSizes \subseteq Nat
  /\ OracleSides \subseteq [price : Nat \ {0}, exp : Int, dec : Nat, trading : BOOLEAN]

(***************************************************************************)
(* What the parsers read out of the accounts. Keys and mints are strings,  *)
(* integers are unsigned; a stored root of a price has the denominator of  *)
(* its format.                                                             *)
(***************************************************************************)
Ratios == [n : Nat, d : Nat \ {0}]

ParsedPools ==
  [kind : {"amm_v4"}, name : STRING, a : STRING, b : STRING, va : STRING, vb : STRING,
   fee : Nat, unit : Nat \ {0}]
  \cup [kind : {"cpmm"}, name : STRING, a : STRING, b : STRING, va : STRING, vb : STRING]
  \cup [kind : {"bonkswap"}, name : STRING, a : STRING, b : STRING, rx : Nat, ry : Nat,
        fee : Nat, unit : Nat \ {0}]
  \cup [kind : {"whirlpool", "clmm"}, name : STRING, a : STRING, b : STRING, root : Ratios,
        liq : Nat, fee : 0..FeeUnit]
  \cup [kind : {"dlmm"}, name : STRING, a : STRING, b : STRING, id : Int, step : Nat,
        factor : Nat, power : Nat]
  \cup [kind : {"lifinity"}, name : STRING, a : STRING, b : STRING, price : Ratios,
        fee : Nat, unit : Nat \ {0}]
  \cup [kind : {"obric"}, name : STRING, a : STRING, b : STRING, va : STRING, vb : STRING,
        target : Nat, conc : Nat, multX : Nat, multY : Nat, fee : Nat]

HasVaults(data) == data.kind \in {"amm_v4", "cpmm", "obric"}

PoolStates ==
  {s \in [data : ParsedPools, ra : Nat, rb : Nat] :
     s.data.a # s.data.b /\ (HasVaults(s.data) => s.data.va # s.data.vb)}

\* A swap changes neither the venue nor the vaults of a pool, and no account
\* serves two of them.
VaultsOf(data) == IF HasVaults(data) THEN {data.va, data.vb} ELSE {}
ASSUME WorldsAssumption ==
  \A w \in Worlds :
    /\ \A p \in DOMAIN w.market :
         /\ w.market[p] \in Seq(PoolStates) /\ w.market[p] # <<>>
         /\ \A i, j \in DOMAIN w.market[p] :
              VaultsOf(w.market[p][i].data) = VaultsOf(w.market[p][j].data)
         /\ p # "config" /\ "config" \notin VaultsOf(w.market[p][1].data)
    /\ \A p, q \in DOMAIN w.market :
         /\ p \notin VaultsOf(w.market[q][1].data)
         /\ p # q => VaultsOf(w.market[p][1].data) \cap VaultsOf(w.market[q][1].data) = {}
    /\ w.settings \in
         [native : BOOLEAN, disabled : SUBSET STRING, inline : BOOLEAN, ungated : BOOLEAN,
          nativeMaxHops : Nat, jupiterPoll : BOOLEAN, executor : BOOLEAN, usdtAlt : BOOLEAN,
          solAlt : BOOLEAN, solProbe : Nat]

VARIABLES
  market, settings, \* the member of Worlds this behaviour is about
  chain,      \* pool -> its current state
  updates,    \* account -> its updates the task has not taken yet, oldest first
  store,      \* pool -> state, as the scout knows it
  vaults,     \* vault -> amount
  clmmFees,   \* CLMM pool -> fee of its config
  solPrice,   \* price of one SOL in USDC units, 0 before the first refresh
  job,        \* routes still to evaluate for the pool that changed
  tally,      \* counters: evaluated, err, none, some, and the checks with Jupiter
  taken,      \* how the records were disposed of: counts per taker
  last,       \* the last record, <<>> before the first
  swaps, refreshes

evVars == <<market, settings, chain, updates, store, vaults, clmmFees, solPrice, job,
            tally, taken, last, swaps, refreshes>>

(***************************************************************************)
(* Accounts                                                                *)
(***************************************************************************)
\* In the order the parsers are asked. Two of them look at the size only.
ParseOrder == <<"amm_v4", "clmm", "cpmm", "whirlpool", "dlmm", "lifinity", "bonkswap", "obric">>

IsAmmV4(acct)     == acct.size = 752
IsClmm(acct)      == acct.size = 1544
IsCpmm(acct)      == acct.tag = "cpmm" /\ acct.size >= 381
IsWhirlpool(acct) == acct.tag = "whirlpool" /\ acct.size >= 293
IsDlmm(acct)      == acct.tag = "dlmm" /\ acct.size = 904
IsLifinity(acct)  == acct.tag = "lifinity" /\ acct.size \in {911, 927}
IsBonkswap(acct)  == acct.tag \in {"bonkswap", "bonkswap2"} /\ acct.size >= 417
IsObric(acct)     == acct.tag = "obric" /\ acct.size = 666

Claims(kind, acct) ==
  CASE kind = "amm_v4"    -> IsAmmV4(acct)
    [] kind = "clmm"      -> IsClmm(acct)
    [] kind = "cpmm"      -> IsCpmm(acct)
    [] kind = "whirlpool" -> IsWhirlpool(acct)
    [] kind = "dlmm"      -> IsDlmm(acct)
    [] kind = "lifinity"  -> IsLifinity(acct)
    [] kind = "bonkswap"  -> IsBonkswap(acct)
    [] kind = "obric"     -> IsObric(acct)

ParsedAs(acct) ==
  LET claims == {i \in DOMAIN ParseOrder : Claims(ParseOrder[i], acct)}
  IN  IF claims = {} THEN "nothing" ELSE ParseOrder[Min(claims)]

\* What the venues write.
AccountOf(kind) ==
  [tag |-> kind,
   size |-> CASE kind = "amm_v4" -> 752 [] kind = "clmm" -> 1544 [] kind = "cpmm" -> 637
              [] kind = "whirlpool" -> 653 [] kind = "dlmm" -> 904 [] kind = "lifinity" -> 911
              [] kind = "bonkswap" -> 417 [] kind = "obric" -> 666]

(***************************************************************************)
(* Routes                                                                  *)
(***************************************************************************)
Hops(pools) ==
  UNION {{[pool |-> p, in |-> pools[p].a, out |-> pools[p].b],
          [pool |-> p, in |-> pools[p].b, out |-> pools[p].a]} : p \in DOMAIN pools}

Visits(route) == {route[i].pool : i \in DOMAIN route}
TokenAfter(walk) == IF walk = <<>> THEN USDC ELSE Last(walk).out
Closed(walk) == walk # <<>> /\ TokenAfter(walk) = USDC

\* The walks of n hops that have not come back to USDC before the last.
Walks(pools) ==
  LET W[n \in 0..MaxHops] ==
        IF n = 0 THEN {<<>>}
        ELSE UNION {{Append(w, h) : h \in {g \in Hops(pools) : g.in = TokenAfter(w)
                                                            /\ g.pool \notin Visits(w)}} :
                      w \in {v \in W[n - 1] : ~Closed(v)}}
  IN  UNION {W[n] : n \in 1..MaxHops}

Routes(pools) == {w \in Walks(pools) : Closed(w) /\ Len(w) >= 2}

(***************************************************************************)
(* The profit of a route                                                   *)
(***************************************************************************)
Fees(input, gross) ==
  LET flash   == (input * FlashBps) \div Bps
      tip     == IF solPrice = 0 THEN 0
                 ELSE (gross * TipPct * LamportsPerSol) \div (100 * solPrice)
      inUsdc  == ((PriorityFee + BaseTip + tip) * solPrice) \div LamportsPerSol
  IN  flash + inUsdc

\* The next amount along a route, or Err. A route starts at USDC and its hops
\* meet, so the quoter always knows the mint it is asked about.
Through(amount, hop) ==
  CASE amount = Err \/ hop.pool \notin DOMAIN store -> Err
    [] OTHER -> Quote(store[hop.pool], vaults, clmmFees, hop.in, amount)
OutputOf(route, input) ==
  LET After[i \in 0..Len(route)] ==
        IF i = 0 THEN input ELSE Through(After[i - 1], route[i])
  IN  After[Len(route)]

\* [error, net]: net 0 stands for no record.
Evaluate(route, input) ==
  LET out   == OutputOf(route, input)
      gross == out - input
  IN  CASE out = Err -> [error |-> TRUE, net |-> 0]
        [] out # Err /\ gross <= 0 -> [error |-> FALSE, net |-> 0]
        [] OTHER -> [error |-> FALSE, net |-> NonNegative(gross - Fees(input, gross))]

\* The size the ternary search ends with. A size that does not pay loses
\* against one that does, and the lower of two that do not pay is kept.
OptimalSize(route) ==
  LET Net(x) == Evaluate(route, x).net
      S[n \in 0..32] ==
        IF n = 0 THEN [lo |-> SizeMin, hi |-> SizeMax]
        ELSE LET r == S[n - 1]
                 third == (r.hi - r.lo) \div 3
             IN  IF r.hi - r.lo < Converged THEN r
                 ELSE IF Net(r.lo + third) < Net(r.hi - third)
                      THEN [r EXCEPT !.lo = r.lo + third]
                      ELSE [r EXCEPT !.hi = r.hi - third]
  IN  (S[32].lo + S[32].hi) \div 2

FindOptimal(route) ==
  IF SizeMax <= SizeMin THEN [size |-> 0, net |-> 0]
  ELSE LET x == OptimalSize(route) IN [size |-> x, net |-> Evaluate(route, x).net]

(***************************************************************************)
(* Who trades it                                                           *)
(***************************************************************************)
IsNativeEligible(pools, route) ==
  /\ Len(route) \in 2..settings.nativeMaxHops
  /\ \A i \in DOMAIN route :
       /\ route[i].pool \in DOMAIN pools
       /\ pools[route[i].pool].kind \in
            {"whirlpool", "clmm"} \cup ({"amm_v4", "obric", "dlmm"} \ settings.disabled)

NoBase == "none"

\* The bases the Jupiter executor is rotated through.
Bases ==
  IF settings.solAlt /\ ~settings.usdtAlt THEN <<SOL>>
  ELSE <<USDC>> \o (IF settings.usdtAlt THEN <<USDT>> ELSE <<>>)
                \o (IF settings.solAlt THEN <<SOL>> ELSE <<>>)

\* Mutant: without another base the trade falls back to USDC.
MutFallsBack(n, intermediate) ==
  LET candidate == Bases[(n % Len(Bases)) + 1]
  IN  IF candidate # intermediate THEN candidate ELSE USDC
BaseFor(n, intermediate) ==
  LET candidate == Bases[(n % Len(Bases)) + 1]
      others    == {i \in DOMAIN Bases : Bases[i] # intermediate}
  IN  CASE candidate # intermediate -> candidate
        [] candidate = intermediate /\ others # {} -> Bases[Min(others)]
        [] OTHER -> NoBase

InBase(base, size) ==
  CASE base # SOL -> size
    [] base = SOL /\ solPrice = 0 -> settings.solProbe
    [] OTHER -> (size * LamportsPerSol) \div solPrice

\* [by, base, amount] for the n-th record.
Dispatch(route, size, n) ==
  LET via  == route[1].out
      base == BaseFor(n, via)
      To(by, b, x) == [by |-> by, base |-> b, amount |-> x]
  IN  CASE settings.native /\ IsNativeEligible(store, route) ->
             To(IF settings.inline THEN "native task" ELSE "native buffer", NoBase, size)
        [] ~(settings.native /\ IsNativeEligible(store, route)) /\ settings.jupiterPoll ->
             To("nobody", NoBase, 0)
        [] OTHER -> IF settings.executor /\ via # USDC /\ base # NoBase
                    THEN To("jupiter", base, InBase(base, size))
                    ELSE To("nobody", NoBase, 0)

(***************************************************************************)
(* Steps                                                                   *)
(***************************************************************************)
Amounts(state) ==
  [v \in VaultsOf(state.data) |-> IF v = state.data.va THEN state.ra ELSE state.rb]

OwnerOf(v) == CHOOSE p \in DOMAIN chain : v \in DOMAIN Amounts(chain[p])
AllAmounts ==
  [v \in UNION {DOMAIN Amounts(chain[p]) : p \in DOMAIN chain} |-> Amounts(chain[OwnerOf(v)])[v]]

\* What a change of a pool announces: account -> update.
Announced(p, state) ==
  [k \in {p} \cup VaultsOf(state.data) |->
     IF k = p THEN [is |-> "account", acct |-> AccountOf(state.data.kind), data |-> state.data]
     ELSE [is |-> "vault", amount |-> Amounts(state)[k]]]
Stranger == [is |-> "account", acct |-> [tag |-> "config", size |-> 117], data |-> <<>>]

Sent(news) ==
  [k \in DOMAIN updates \cup DOMAIN news |->
     (IF k \in DOMAIN updates THEN updates[k] ELSE <<>>)
     \o (IF k \in DOMAIN news THEN <<news[k]>> ELSE <<>>)]
With(f, k, x) == [j \in DOMAIN f \cup {k} |-> IF j = k THEN x ELSE f[j]]
Without(k) ==
  IF Len(updates[k]) = 1 THEN Restrict(updates, DOMAIN updates \ {k})
  ELSE [updates EXCEPT ![k] = Tail(@)]

NoTally == [evaluated |-> 0, err |-> 0, none |-> 0, some |-> 0, largest |-> 0,
            unasked |-> 0, agreed |-> 0, disagreed |-> 0, failed |-> 0]
Takers == {"native task", "native buffer", "jupiter", "nobody"}

\* Bootstrap has read the pools, but one that could not be parsed, and the
\* accounts they refer to, unless the node had none of them in its answer. The
\* stream also delivers accounts that are no pools.
EvInit ==
  /\ \E w \in Worlds : market = w.market /\ settings = w.settings
  /\ chain = [p \in DOMAIN market |-> market[p][1]]
  /\ \E gone \in {{}} \cup {{p} : p \in DOMAIN market}, complete \in BOOLEAN :
       /\ complete \/ gone = {}
       /\ store = [p \in DOMAIN market \ gone |-> chain[p].data]
       /\ vaults = IF complete THEN AllAmounts ELSE <<>>
       /\ clmmFees = IF complete
                     THEN [p \in {q \in DOMAIN market : chain[q].data.kind = "clmm"} |->
                             chain[p].data.fee]
                     ELSE <<>>
  /\ updates \in {<<>>, [k \in {"config"} |-> <<Stranger>>]}
  /\ job = {} /\ solPrice = 0 /\ last = <<>>
  /\ tally = NoTally /\ taken = [by \in Takers \cup {"ungated"} |-> 0]
  /\ swaps = 0 /\ refreshes = 0

\* A swap, or a deposit, changes a pool. Its accounts are subscribed one by one
\* and announced in any order.
Swap(p) ==
  /\ swaps < MaxSwaps /\ swaps' = swaps + 1
  /\ \E state \in Range(market[p]) \ {chain[p]} :
       chain' = [chain EXCEPT ![p] = state] /\ updates' = Sent(Announced(p, state))
  /\ UNCHANGED <<market, settings, store, vaults, clmmFees, solPrice, job, tally, taken,
                 last, refreshes>>

TakeVault(k) ==
  /\ job = {} /\ updates[k][1].is = "vault"
  /\ vaults' = With(vaults, k, updates[k][1].amount)
  /\ updates' = Without(k)
  /\ UNCHANGED <<market, settings, chain, store, clmmFees, solPrice, job, tally, taken,
                 last, swaps, refreshes>>

TakeUnclaimed(k) ==
  /\ job = {} /\ updates[k][1].is = "account" /\ ParsedAs(updates[k][1].acct) = "nothing"
  /\ updates' = Without(k)
  /\ UNCHANGED <<market, settings, chain, store, vaults, clmmFees, solPrice, job, tally,
                 taken, last, swaps, refreshes>>

\* The ungated mode hands every eligible route to the native executor at once.
TakePool(p) ==
  /\ job = {} /\ updates[p][1].is = "account"
  /\ LET u    == updates[p][1]
         kind == ParsedAs(u.acct)
     IN  /\ kind # "nothing"
         /\ store' = With(store, p, [u.data EXCEPT !.kind = kind])
         /\ job' = {r \in Routes(store') : p \in Visits(r)}
  /\ taken' = IF settings.ungated /\ settings.native
              THEN [taken EXCEPT !["ungated"] =
                      @ + Cardinality({r \in job' : IsNativeEligible(store', r)})]
              ELSE taken
  /\ updates' = Without(p)
  /\ UNCHANGED <<market, settings, chain, vaults, clmmFees, solPrice, tally, last, swaps,
                 refreshes>>

\* Jupiter is asked about every tenth record, unless it is polled anyway.
Verifies(n) == ~settings.jupiterPoll /\ n % VerifyEvery = 0

Passes(outcome) ==
  /\ tally' = [tally EXCEPT !.evaluated = @ + 1, ![outcome] = @ + 1]
  /\ UNCHANGED <<taken, last>>

Records(route, found) ==
  LET n  == tally.some + 1
      to == Dispatch(route, found.size, n)
  IN  /\ \E answer \in IF Verifies(n) THEN {"agreed", "disagreed", "failed"} ELSE {"unasked"} :
           tally' = [tally EXCEPT !.evaluated = @ + 1, !.some = n,
                                  !.largest = Max({@, found.net}), ![answer] = @ + 1]
      /\ taken' = [taken EXCEPT ![to.by] = @ + 1]
      /\ last' = [route |-> route, size |-> found.size, net |-> found.net, to |-> to,
                  seen |-> [i \in DOMAIN route |->
                              [pool |-> store[route[i].pool], vaults |-> vaults,
                               fees |-> clmmFees]]]

\* A route is probed at a fixed size and, when that pays, searched.
EvaluateRoute(route) ==
  /\ job' = job \ {route}
  /\ LET probe == Evaluate(route, Probe)
         found == FindOptimal(route)
     IN  \/ probe.error /\ Passes("err")
         \/ ~probe.error /\ (probe.net = 0 \/ found.net = 0) /\ Passes("none")
         \/ probe.net > 0 /\ found.net > 0 /\ Records(route, found)
  /\ UNCHANGED <<market, settings, chain, updates, store, vaults, clmmFees, solPrice, swaps,
                 refreshes>>

\* Every minute, from the first pool of SOL and USDC in an order nobody chose.
RefreshSolPrice ==
  /\ refreshes < MaxRefreshes /\ refreshes' = refreshes + 1
  /\ \E p \in DOMAIN store :
       /\ store[p].kind = "whirlpool" /\ {store[p].a, store[p].b} = {SOL, USDC}
       /\ store[p].root.n > 0
       /\ LET price == Towards(Square(store[p].root), store[p].a = SOL)
          IN  solPrice' = (LamportsPerSol * price.n) \div price.d
  /\ UNCHANGED <<market, settings, chain, updates, store, vaults, clmmFees, job, tally, taken,
                 last, swaps>>

EvNext ==
  \/ \E p \in DOMAIN market : Swap(p)
  \/ RefreshSolPrice
  \/ \E k \in DOMAIN updates : TakeVault(k) \/ TakeUnclaimed(k) \/ TakePool(k)
  \/ \E r \in job : EvaluateRoute(r)

EvSpec == EvInit /\ [][EvNext]_evVars

(***************************************************************************)
(* Properties                                                              *)
(***************************************************************************)
\* What one more unit is worth at the edge of a pool, fee included. Obric is
\* left out: its integer curve may pay a unit too much.
EdgePrice(pool, amounts, fees, mint) ==
  LET forward == mint = pool.a
      Net(r, fee, unit) == [n |-> r.n * (unit - fee), d |-> r.d * unit]
      Reserves(x, y)    == Towards([n |-> y, d |-> x], forward)
  IN CASE pool.kind = "amm_v4" -> Net(Reserves(amounts[pool.va], amounts[pool.vb]), pool.fee, pool.unit)
       [] pool.kind = "cpmm" -> Net(Reserves(amounts[pool.va], amounts[pool.vb]), CpmmFee, Bps)
       [] pool.kind = "bonkswap" -> Net(Reserves(pool.rx, pool.ry), pool.fee, pool.unit)
       [] pool.kind = "whirlpool" -> Net(Towards(Square(pool.root), forward), pool.fee, FeeUnit)
       [] pool.kind = "clmm" -> Net(Towards(Square(pool.root), forward), fees[pool.name], FeeUnit)
       [] pool.kind = "dlmm" -> Net(Towards(BinPrice(pool.step, pool.id), forward), DlmmFee(pool), DlmmUnit)
       [] pool.kind = "lifinity" -> Net(Towards(pool.price, forward), pool.fee, pool.unit)

Gains(rec) ==
  LET Edge(i) == EdgePrice(rec.seen[i].pool, rec.seen[i].vaults, rec.seen[i].fees, rec.route[i].in)
      Times(r, i) == [n |-> r.n * Edge(i).n, d |-> r.d * Edge(i).d]
      Product[i \in 0..Len(rec.route)] ==
        IF i = 0 THEN [n |-> 1, d |-> 1] ELSE Times(Product[i - 1], i)
  IN  Product[Len(rec.route)].n > Product[Len(rec.route)].d

\* No pool, and no pair of oracle prices, can be traded against itself at a
\* gain, a larger input never pays less, nobody pays out more than there is,
\* and the quotes with price impact stay below those without it and, for
\* inputs they call safe, in their window.
QuoteHolds(p) ==
  LET pool == store[p]
      Out(mint, x) == Quote(pool, vaults, clmmFees, mint, x)
      Back(y) == Out(pool.b, IF pool.kind = "obric" THEN NonNegative(y - 1) ELSE y)
  IN Out(pool.a, 1) # Err => \A x \in QuoteSizes :
       /\ Back(Out(pool.a, x)) <= x
       /\ \A y \in QuoteSizes, m \in {pool.a, pool.b} : x < y => Out(m, x) <= Out(m, y)
       /\ pool.kind \in {"amm_v4", "cpmm"} =>
            Out(pool.a, x) < Max({1, vaults[pool.vb]}) /\ Out(pool.b, x) < Max({1, vaults[pool.va]})
       /\ pool.kind = "obric" => Out(pool.b, x) <= PmmBase(pool, vaults[pool.va])
       /\ pool.kind \in {"whirlpool", "clmm"} =>
            \A forward \in BOOLEAN :
              LET root == Towards(pool.root, forward) IN
              /\ SwapQuote(x, pool, pool.fee, forward)
                   <= AtPrice(x, Square(root), pool.fee, FeeUnit)
              /\ x <= MaxSafeInput(pool, forward) =>
                   ~MovesTooFar(x, pool.liq, root, FeeUnit - pool.fee, FeeUnit, forward)
              /\ SwapQuote(x, pool, pool.fee, forward) <= (pool.liq * root.n) \div root.d
              /\ MovesTooFar(x, pool.liq, root, FeeUnit - pool.fee, FeeUnit, forward) =>
                   SwapQuote(x, pool, pool.fee, forward)
                     <= NonNegative(pool.liq * root.n - LeaveUnits * root.d) \div root.d

OracleHolds ==
  \A f, g \in OracleSides, x \in QuoteSizes, fee \in {0, 1} :
    LET there == PythQuote(x, f, g, fee) IN
    /\ x > 0 => (there = Err <=> ~(f.trading /\ g.trading))
    /\ there # Err => PythQuote(there, g, f, fee) <= x

\* The cycles of USDC, written down instead of walked.
IsCycle(r) ==
  /\ Len(r) \in 2..MaxHops /\ r[1].in = USDC /\ Last(r).out = USDC
  /\ \A i \in 2..Len(r) : r[i].in = r[i - 1].out /\ r[i].in # USDC
  /\ \A i, j \in DOMAIN r : r[i].pool = r[j].pool => i = j

\* Whenever the task has caught up, what it knows is what the chain says.
CaughtUp ==
  updates = <<>> /\ job = {} =>
    /\ \A p \in DOMAIN store : store[p] = chain[p].data
    /\ \A v \in DOMAIN vaults : vaults[v] = AllAmounts[v]

\* The routes are the cycles, and the pools and oracles quote as they should.
QuotesHold ==
  updates = <<>> /\ job = {} =>
    /\ \A p \in DOMAIN store : QuoteHolds(p)
    /\ OracleHolds
    /\ Routes(store) = {r \in UNION {[1..n -> Hops(store)] : n \in 2..MaxHops} : IsCycle(r)}

\* Every route that was evaluated is counted once, every record went to one
\* taker, and one record in so many was checked with Jupiter.
EachCounted ==
  /\ tally.evaluated = tally.err + tally.none + tally.some
  /\ tally.some = taken["native task"] + taken["native buffer"] + taken["jupiter"] + taken["nobody"]
  /\ tally.unasked + tally.agreed + tally.disagreed + tally.failed = tally.some
  /\ ~settings.jupiterPoll => tally.unasked = tally.some - tally.some \div VerifyEvery

\* A record pays at the prices it was computed from, at a size of the search;
\* the Jupiter executor never gets a trade whose two sides are one mint, nor
\* one in a base that is switched off.
RecordsPay ==
  last # <<>> =>
    /\ (\E i \in DOMAIN last.route : last.seen[i].pool.kind = "obric") \/ Gains(last)
    /\ last.size \in SizeMin..SizeMax /\ 0 < last.net /\ last.net <= tally.largest
    /\ last.to.by = "jupiter" =>
         /\ last.to.base \in Range(Bases) \ {last.route[1].out}
         /\ settings.solAlt /\ ~settings.usdtAlt => last.to.base = SOL

\* What the scout's main task promises, from the update to the dispatch.
EvaluationSound == CaughtUp /\ QuotesHold /\ EachCounted /\ RecordsPay
=============================================================================
