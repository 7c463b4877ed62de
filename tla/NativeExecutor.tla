--------------------------- MODULE NativeExecutor ---------------------------
(***************************************************************************)
(* maybe_execute of the native executor                                    *)
(* (src/crates/arb-scout/src/native_executor.rs): the worker and the tasks *)
(* spawned per route call it at the same time. A call takes a permit,      *)
(* passes the legacy gates if fast mode is off, quotes its legs, sizes the *)
(* tip by the polled percentiles and the cached wallet balance, builds,    *)
(* signs and simulates, and sends by one of three paths; a poller books    *)
(* the result.                                                             *)
(***************************************************************************)
EXTENDS TipFloor, FiniteSets

CONSTANTS
  NatCalls,       \* calls, of the worker and of the tasks spawned per route
  PermitCounts,   \* values of NATIVE_MAX_CONCURRENT
  FastModes,      \* values of NATIVE_FAST_MODE
  NatLive,        \* EXECUTOR_LIVE
  SubmissionPath, \* NATIVE_SUBMISSION_PATH: jito, helius_sender or tpu
  NatNets,        \* predicted nets after the flash fee, in lamports
  NatMinProfit,   \* EXECUTOR_MIN_PROFIT_USDC
  NatMaxLoss,     \* EXECUTOR_MAX_DAILY_LOSS_USDC
  TipPct, FloorPct, \* EXECUTOR_TIP_PROFIT_PCT, EXECUTOR_TIP_FLOOR_PCTILE
  SenderMinTip,   \* HELIUS_SENDER_MIN_TIP_LAMPORTS
  StaticCeiling,  \* EXECUTOR_JITO_TIP_LAMPORTS
  TipReserve,     \* EXECUTOR_TIP_RESERVE_LAMPORTS
  NatWallet       \* lamports of the wallet at the start

VARIABLES
  fast, permits, \* read from the environment: fast mode, size of the semaphore
  natAt,         \* call -> await point
  natNet,        \* call -> predicted net
  natTip,        \* call -> tip
  natFloor,      \* call -> floor it read
  recentAttempt, \* last_attempt: younger than 50 ms?
  metric,        \* NativeMetrics
  runningNet,
  cachedBalance, \* wallet_balance_lamports, 0 before the first poll
  natSent,       \* calls whose status a poller waits for
  natChain,      \* the chain: lamports, and tips taken but not decided
  unseen,        \* history: calls that ended without a counter
  unaccounted,   \* history: tips past the gate that cachedBalance does not show
  tipOverlap     \* history: most of them at any gate; -1: a gate was open

natVars == <<fast, permits, natAt, natNet, natTip, natFloor, recentAttempt, metric, runningNet,
             cachedBalance, natSent, natChain, unseen, unaccounted, tipOverlap>>

Counters == {"throttle", "dailyCap", "notNative", "noMarket", "belowMin", "dryRun",
             "buildErr", "sendErr", "sent"}

ASSUME NativeAssumption ==
  /\ IsFiniteSet(NatCalls)
  /\ NatNets \subseteq Int /\ {NatMinProfit, NatMaxLoss} \subseteq Int
  /\ {TipPct, SenderMinTip, StaticCeiling, TipReserve, NatWallet} \subseteq Nat
  /\ NatWallet >= TipReserve

NatInit ==
  /\ TipInit
  /\ fast \in FastModes /\ permits \in PermitCounts
  /\ natAt = [c \in NatCalls |-> "new"]
  /\ natNet = [c \in NatCalls |-> 0]
  /\ natTip = [c \in NatCalls |-> NoTip]
  /\ natFloor = [c \in NatCalls |-> PercentileOf(StarterRow, FloorPct)]
  /\ recentAttempt = FALSE
  /\ metric = [k \in Counters |-> 0]
  /\ runningNet = 0 /\ cachedBalance = 0 /\ natSent = {}
  /\ natChain = [lamports |-> NatWallet, taken |-> {}]
  /\ unseen = 0 /\ unaccounted = {} /\ tipOverlap = 0

Running == {c \in NatCalls : natAt[c] \notin {"new", "ended"}}
Ended   == {c \in NatCalls : natAt[c] = "ended"}

Count(k) == metric' = [metric EXCEPT ![k] = @ + 1]
GoTo(c, where) == natAt' = [natAt EXCEPT ![c] = where]
MutLeavesUncounted(c, k) == GoTo(c, "ended") /\ UNCHANGED metric

\* An early return: the permit goes back with it.
Leave(c, k) == Count(k) /\ GoTo(c, "ended")

PermitFree == Cardinality(Running) < permits

Begin(c) ==
  /\ natAt[c] = "new"
  /\ IF PermitFree THEN GoTo(c, IF fast THEN "legs" ELSE "gates") /\ UNCHANGED metric
                   ELSE Leave(c, "throttle")
  /\ UNCHANGED <<tipVars, fast, permits, natNet, natTip, natFloor, recentAttempt, runningNet,
                 cachedBalance, natSent, natChain, unseen, unaccounted, tipOverlap>>

\* Throttle, daily loss and eligibility; the throttle stamps every call it passes.
LegacyGates(c, eligible) ==
  /\ natAt[c] = "gates"
  /\ recentAttempt' = TRUE
  /\ CASE recentAttempt -> Leave(c, "throttle")
       [] ~recentAttempt /\ runningNet < -NatMaxLoss -> Leave(c, "dailyCap")
       [] ~recentAttempt /\ runningNet >= -NatMaxLoss /\ ~eligible -> Leave(c, "notNative")
       [] OTHER -> GoTo(c, "legs") /\ UNCHANGED metric
  /\ UNCHANGED <<tipVars, fast, permits, natNet, natTip, natFloor, runningNet, cachedBalance,
                 natSent, natChain, unseen, unaccounted, tipOverlap>>

\* The stamp grows older than 50 ms.
AttemptAges ==
  /\ recentAttempt
  /\ recentAttempt' = FALSE
  /\ UNCHANGED <<tipVars, fast, permits, natAt, natNet, natTip, natFloor, metric, runningNet,
                 cachedBalance, natSent, natChain, unseen, unaccounted, tipOverlap>>

\* A leg that cannot be built or quoted ends the call.
LegFails(c, k) ==
  /\ natAt[c] = "legs"
  /\ Leave(c, k)
  /\ UNCHANGED <<tipVars, fast, permits, natNet, natTip, natFloor, recentAttempt, runningNet,
                 cachedBalance, natSent, natChain, unseen, unaccounted, tipOverlap>>

\* The price-oracle guard returns without a counter.
OracleSkips(c) ==
  /\ natAt[c] = "legs"
  /\ GoTo(c, "ended")
  /\ unseen' = unseen + 1
  /\ UNCHANGED <<tipVars, fast, permits, natNet, natTip, natFloor, recentAttempt, metric, runningNet,
                 cachedBalance, natSent, natChain, unaccounted, tipOverlap>>

LegsQuoted(c, net) ==
  /\ natAt[c] = "legs"
  /\ IF net < NatMinProfit
     THEN Leave(c, "belowMin") /\ UNCHANGED natNet
     ELSE /\ GoTo(c, "tip")
          /\ natNet' = [natNet EXCEPT ![c] = net]
          /\ UNCHANGED metric
  /\ UNCHANGED <<tipVars, fast, permits, natTip, natFloor, recentAttempt, runningNet,
                 cachedBalance, natSent, natChain, unseen, unaccounted, tipOverlap>>

---------------------------------------------------------------------------
\* The tip. Percentile and balance are read one after the other, and neither
\* read waits: the step is one action. A SOL price not known yet makes the profit 0.

FloorRead ==
  IF SubmissionPath = "helius_sender" THEN AtLeast(PercentileLamports(FloorPct), SenderMinTip)
                                      ELSE PercentileLamports(FloorPct)

Ceiled(tip) == AtMost(tip, AtLeast(StaticCeiling, 1))

Profit(c, priced) == IF priced THEN natNet[c] ELSE 0

TipBudget == AtLeast(cachedBalance - TipReserve, 0)

BudgetShort == cachedBalance # 0 /\ TipBudget < FloorRead

Clamped(tip) == IF cachedBalance = 0 THEN tip ELSE AtMost(tip, TipBudget)

SizeTip(c, priced) ==
  LET tip == DynamicTip(Profit(c, priced), TipPct, FloorRead) IN
  /\ natAt[c] = "tip"
  /\ natFloor' = [natFloor EXCEPT ![c] = FloorRead]
  /\ IF tip = NoTip \/ BudgetShort
     THEN Leave(c, "belowMin") /\ UNCHANGED <<natTip, unaccounted, tipOverlap>>
     ELSE /\ GoTo(c, "build")
          /\ natTip' = [natTip EXCEPT ![c] = Clamped(Ceiled(tip))]
          /\ unaccounted' = unaccounted \cup {c}
          /\ tipOverlap' = IF tipOverlap < 0 \/ cachedBalance = 0 THEN -1
                           ELSE AtLeast(tipOverlap, Cardinality(unaccounted \ {c}))
          /\ UNCHANGED metric
  /\ UNCHANGED <<tipVars, fast, permits, natNet, recentAttempt, runningNet, cachedBalance,
                 natSent, natChain, unseen>>

---------------------------------------------------------------------------
\* Blockhash, lookup tables, signature and simulation. In legacy mode the
\* in_flight mutex serialises what follows.

BuildFailsWith(c, k) ==
  /\ natAt[c] = "build"
  /\ Leave(c, k)
  /\ unaccounted' = unaccounted \ {c}
  /\ UNCHANGED <<tipVars, fast, permits, natNet, natTip, natFloor, recentAttempt, runningNet,
                 cachedBalance, natSent, natChain, unseen, tipOverlap>>

InFlightFree(c) == fast \/ \A d \in NatCalls : natAt[d] # "sending"

StartSend(c) ==
  /\ natAt[c] = "build" /\ InFlightFree(c)
  /\ IF NatLive THEN GoTo(c, "sending") /\ UNCHANGED <<metric, unaccounted>>
                ELSE Leave(c, "dryRun") /\ unaccounted' = unaccounted \ {c}
  /\ UNCHANGED <<tipVars, fast, permits, natNet, natTip, natFloor, recentAttempt, runningNet,
                 cachedBalance, natSent, natChain, unseen, tipOverlap>>

\* The request was taken or not and was answered or not; an answer means taken.
\* Datagrams to the leaders are answered by the socket, taken or not.
SendEnds(c, taken, answered) ==
  /\ natAt[c] = "sending"
  /\ answered => taken \/ SubmissionPath = "tpu"
  /\ Leave(c, IF answered THEN "sent" ELSE "sendErr")
  /\ natSent' = IF answered THEN natSent \cup {c} ELSE natSent
  /\ natChain' = IF taken THEN [natChain EXCEPT !.taken = @ \cup {[call |-> c, tip |-> natTip[c]]}]
                          ELSE natChain
  /\ unaccounted' = IF taken THEN unaccounted ELSE unaccounted \ {c}
  /\ UNCHANGED <<tipVars, fast, permits, natNet, natTip, natFloor, recentAttempt, runningNet,
                 cachedBalance, unseen, tipOverlap>>

Booked(c, landed) == IF landed THEN natNet[c] ELSE 0

\* One status request after a delay; what was not seen is dropped.
StatusPolled(c, landed) ==
  /\ c \in natSent
  /\ natSent' = natSent \ {c}
  /\ runningNet' = runningNet + Booked(c, landed)
  /\ UNCHANGED <<tipVars, fast, permits, natAt, natNet, natTip, natFloor, recentAttempt, metric,
                 cachedBalance, natChain, unseen, unaccounted, tipOverlap>>

\* The chain takes the tip or drops the transaction.
TxDecided(x, landed) ==
  /\ x \in natChain.taken
  /\ natChain' = [lamports |-> IF landed /\ natChain.lamports >= x.tip
                               THEN natChain.lamports - x.tip ELSE natChain.lamports,
                  taken |-> natChain.taken \ {x}]
  /\ UNCHANGED <<tipVars, fast, permits, natAt, natNet, natTip, natFloor, recentAttempt, metric,
                 runningNet, cachedBalance, natSent, unseen, unaccounted, tipOverlap>>

\* A balance that was read shows every transaction decided before.
BalancePolled ==
  /\ cachedBalance' = natChain.lamports
  /\ unaccounted' = {c \in unaccounted : c \in Running \/ \E x \in natChain.taken : x.call = c}
  /\ UNCHANGED <<tipVars, fast, permits, natAt, natNet, natTip, natFloor, recentAttempt, metric,
                 runningNet, natSent, natChain, unseen, tipOverlap>>

NatNext ==
  \/ TipNext /\ UNCHANGED natVars
  \/ \E c \in NatCalls :
       \/ Begin(c)
       \/ \E eligible \in BOOLEAN : LegacyGates(c, eligible)
       \/ \E k \in {"noMarket", "buildErr"} : LegFails(c, k)
       \/ OracleSkips(c)
       \/ \E net \in NatNets : LegsQuoted(c, net)
       \/ \E priced \in BOOLEAN : SizeTip(c, priced)
       \/ \E k \in {"buildErr", "sendErr"} : BuildFailsWith(c, k)
       \/ StartSend(c)
       \/ \E taken, answered \in BOOLEAN : SendEnds(c, taken, answered)
       \/ \E landed \in BOOLEAN : StatusPolled(c, landed)
  \/ \E x \in natChain.taken, landed \in BOOLEAN : TxDecided(x, landed)
  \/ AttemptAges
  \/ BalancePolled

NatSpec == NatInit /\ [][NatNext]_<<tipVars, natVars>>

---------------------------------------------------------------------------
CallsCounted ==
  metric["throttle"] + metric["dailyCap"] + metric["notNative"] + metric["noMarket"]
  + metric["belowMin"] + metric["dryRun"] + metric["buildErr"] + metric["sendErr"] + metric["sent"]

\* Every call that ended is in one counter; only the price-oracle guard lets one
\* go uncounted.
NativeLedger == Cardinality(Ended) = CallsCounted + unseen

\* Sixteen runs may read one balance that is five seconds old: the wallet keeps
\* its reserve but for the tips that were past the gate and not in that balance,
\* each at most the ceiling. Before the first poll, and when the wallet is
\* really empty, the gate is open.
TipOvershoot ==
  tipOverlap >= 0 => natChain.lamports >= TipReserve - AtLeast(StaticCeiling, 1) * tipOverlap

\* No transaction leaves with a tip above 90 % of the gain predicted for it,
\* whatever percentiles it read between two stores of the poller.
TipLeavesProfit ==
  \A x \in natChain.taken : x.tip <= TipCap(natNet[x.call])

\* A floor was published for that percentile, not mixed up from two rows.
FloorWasPublished ==
  \A c \in NatCalls : natFloor[c] \in {PercentileOf(row, FloorPct) : row \in published} \cup {SenderMinTip}

\* The tip that leaves, whole: from a published floor, below the gain, and not
\* out of the wallet's reserve but for the overlap.
TipIsSound == TipLeavesProfit /\ FloorWasPublished /\ TipOvershoot

\* The comment on the promoted floor: what tips below the sender's minimum is
\* dropped there, so a call that goes on tips at least the floor it read.
TipMeetsFloor ==
  \A c \in NatCalls : natAt[c] \in {"build", "sending"} => natTip[c] >= natFloor[c]
=============================================================================
