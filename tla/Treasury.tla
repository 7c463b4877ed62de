------------------------------ MODULE Treasury -------------------------------
(* What the bot does with its own money. Three loops of the scout and the     *)
(* chain share one wallet. The accumulator sweeps what USDC and USDT exceed a *)
(* threshold into SOL; the cross-stable worker swaps one stable for another,  *)
(* turn by turn; neither waits until its swap has landed. The watch reads SOL *)
(* and USDC, one after the other, and reports a sudden drop, which is how the *)
(* operator learns of a thief. A read that fails counts as zero.              *)
EXTENDS Integers, Sequences, SequencesExt, FiniteSetsExt

CONSTANTS
  Setups,        \* [enabled, wallet]: loops switched on, and what the wallet starts with
  SweepAbove, MinSweep, SweepEvery, \* SOL_ACCUMULATOR_*
  Directions,    \* [src, dst] of the cross-stable worker, in its order
  StableProbe,   \* CROSS_STABLE_PROBE_USD_BASE
  RealSol,       \* what one SOL is worth
  ApproxSol,     \* what the watch takes it to be worth: 100 dollars
  DropPct, WatchEvery, AlertWindow, \* WALLET_WATCH_*, and its five minutes
  SwapLife,      \* how long a blockhash lasts
  MaxStableSwaps, MaxMisreads, MaxTreasuryTime \* bounds

Loops == {"watch", "sweep", "stable", "thief"}
Coins == {"sol", "usdc", "usdt", "cash"}

ASSUME TreasuryAssumption ==
  /\ Setups \subseteq [enabled : SUBSET Loops, wallet : [Coins -> Nat]]
  /\ Directions \in Seq([src : Coins, dst : Coins]) \ {<<>>}
  /\ {SweepAbove, StableProbe, AlertWindow, SwapLife} \subseteq Nat /\ DropPct \in 1..100
  /\ {MinSweep, RealSol, ApproxSol, SweepEvery, WatchEvery} \subseteq Nat \ {0}

Unseen == -1                        \* no value read, no time known

VARIABLES
  enabled,    \* the loops that are switched on, "watch", "sweep" and "stable",
              \* and "thief" if one comes
  wallet,     \* coin -> amount
  treasuryNow,
  pendingSwaps, \* swaps that were sent and may land
  accum,      \* the accumulator: [phase, todo, excess, alone, at]: the coins
              \* of this round, what it will send, whether nothing has left that
              \* coin since, and its next round
  direction,  \* next direction of the cross-stable worker
  stableSwaps, \* its swaps so far
  watch,      \* the watch: [due, sol], sol Unseen but between its two reads
  samples,    \* its totals of the last five minutes: [at, total]
  alerts,     \* its alerts, oldest first: [at, cause]
  drain,      \* a thief emptied the wallet: [at, shown], at Unseen until then;
              \* shown: what the watch had last seen
  lastCause,  \* history: when the wallet last fell, or a read failed
  misreads

chainState    == <<wallet, pendingSwaps>>
watchState    == <<watch, samples, alerts>>
workerState   == <<accum, direction, stableSwaps>>
treasuryVars  == <<enabled, chainState, treasuryNow, workerState, watchState, drain, lastCause, misreads>>

TreasuryInit ==
  /\ \E s \in Setups : enabled = s.enabled /\ wallet = s.wallet
  /\ treasuryNow = 0 /\ pendingSwaps = {}
  /\ accum = [phase |-> "asleep", todo |-> <<>>, excess |-> 0, alone |-> FALSE, at |-> SweepEvery]
  /\ direction = 1 /\ stableSwaps = 0
  /\ watch = [due |-> WatchEvery, sol |-> Unseen] /\ samples = <<>> /\ alerts = <<>>
  /\ drain = [at |-> Unseen, shown |-> 0] /\ lastCause = Unseen /\ misreads = 0

---------------------------------------------------------------------------
\* A swap dies with its blockhash. The reads of the watch end before its interval
\* does.
TreasuryTick ==
  /\ treasuryNow < MaxTreasuryTime /\ ("watch" \in enabled => treasuryNow <= watch.due)
  /\ treasuryNow' = treasuryNow + 1
  /\ pendingSwaps' = {swap \in pendingSwaps : treasuryNow' - swap.at <= SwapLife}
  /\ UNCHANGED <<wallet, workerState, watchState, drain, lastCause, misreads>>

\* Something left the wallet in these coins since a balance of theirs was read.
Left(swaps, coins) ==
  {[swap EXCEPT !.alone = @ /\ swap.src \notin coins] : swap \in swaps}
LeftUnread(coins) ==
  IF accum.todo # <<>> /\ Head(accum.todo) \in coins THEN [accum EXCEPT !.alone = FALSE] ELSE accum

\* A swap lands once, if what it spends is there, or never.
SwapLands(swap) ==
  /\ wallet[swap.src] >= swap.amount
  /\ LET gets  == IF swap.dst = "sol" THEN swap.amount \div RealSol ELSE swap.amount
         spent == [wallet EXCEPT ![swap.src] = @ - swap.amount]
     IN  wallet' = [spent EXCEPT ![swap.dst] = @ + gets]
  /\ pendingSwaps' = Left(pendingSwaps \ {swap}, {swap.src}) /\ lastCause' = treasuryNow
  /\ accum' = LeftUnread({swap.src})
  /\ UNCHANGED <<treasuryNow, direction, stableSwaps, watchState, drain, misreads>>

Drained ==
  /\ drain.at = Unseen /\ lastCause' = treasuryNow
  /\ drain' = [at |-> treasuryNow, shown |-> IF samples = <<>> THEN 0 ELSE Last(samples).total]
  /\ wallet' = [c \in Coins |-> 0]
  /\ pendingSwaps' = Left(pendingSwaps, Coins) /\ accum' = LeftUnread(Coins)
  /\ UNCHANGED <<treasuryNow, direction, stableSwaps, watchState, misreads>>

\* What a request for the balance of a coin may be taken for.
Reads(coin, seen) ==
  \/ seen = wallet[coin] /\ UNCHANGED <<misreads, lastCause>>
  \/ /\ seen = 0 /\ wallet[coin] > 0
     /\ misreads < MaxMisreads /\ misreads' = misreads + 1 /\ lastCause' = treasuryNow

---------------------------------------------------------------------------
\* run_sol_accumulator
SweepRound ==
  /\ accum.phase = "asleep" /\ treasuryNow >= accum.at
  /\ accum' = [accum EXCEPT !.phase = "reading", !.todo = <<"usdc", "usdt">>]
  /\ UNCHANGED <<chainState, treasuryNow, direction, stableSwaps, watchState, drain,
                 lastCause, misreads>>

NextStable ==
  IF Len(accum.todo) > 1
  THEN [accum EXCEPT !.phase = "reading", !.todo = Tail(@), !.excess = 0]
  ELSE [phase |-> "asleep", todo |-> <<>>, excess |-> 0, alone |-> FALSE, at |-> treasuryNow + SweepEvery]

SweepReads ==
  /\ accum.phase = "reading"
  /\ LET coin == Head(accum.todo) IN
     \E seen \in {wallet[coin], 0} :
       /\ Reads(coin, seen)
       /\ accum' = IF seen <= SweepAbove \/ seen - SweepAbove < MinSweep THEN NextStable
                   ELSE [accum EXCEPT !.phase = "sending",
                           !.excess = seen - SweepAbove, !.alone = TRUE]
  /\ UNCHANGED <<chainState, treasuryNow, direction, stableSwaps, watchState, drain>>

\* execute_jupiter_swap_raw: it returns when the transaction is sent, and any
\* error ends it; an error of the last request does not say it was not sent.
RawSwap(swap) == \/ UNCHANGED pendingSwaps
                 \/ pendingSwaps' = pendingSwaps \cup {swap}

SweepSends ==
  /\ accum.phase = "sending"
  /\ RawSwap([by |-> "sweep", src |-> Head(accum.todo), dst |-> "sol", amount |-> accum.excess,
              at |-> treasuryNow, alone |-> accum.alone])
  /\ accum' = NextStable
  /\ UNCHANGED <<wallet, treasuryNow, direction, stableSwaps, watchState, drain, lastCause,
                 misreads>>

\* run_cross_stable_arb and the one-way trade it asks for, which the gates of
\* the executor, the quote or an error may stop. The next turn is the next
\* direction's, whatever became of this one.
StableTurn ==
  /\ direction' = (direction % Len(Directions)) + 1
  /\ \/ UNCHANGED <<pendingSwaps, stableSwaps>>
     \/ /\ stableSwaps < MaxStableSwaps /\ stableSwaps' = stableSwaps + 1
        /\ pendingSwaps' = pendingSwaps \cup
             {[by |-> "stable", turn |-> stableSwaps, src |-> Directions[direction].src,
               dst |-> Directions[direction].dst, amount |-> StableProbe, at |-> treasuryNow,
               alone |-> FALSE]}
  /\ UNCHANGED <<wallet, treasuryNow, accum, watchState, drain, lastCause, misreads>>

---------------------------------------------------------------------------
\* run_wallet_watch; a mutant alerts again at every reading.
MutNoCooldown == FALSE

WatchReadsSol ==
  /\ watch.sol = Unseen /\ treasuryNow >= watch.due
  /\ \E seen \in {wallet["sol"], 0} :
       Reads("sol", seen) /\ watch' = [watch EXCEPT !.sol = seen]
  /\ UNCHANGED <<chainState, treasuryNow, workerState, samples, alerts, drain>>

\* Samples older than the window go, off the front, up to the first that is not.
Trims(n) ==
  /\ \A i \in 1..n : treasuryNow - samples[i].at > AlertWindow
  /\ n < Len(samples) => treasuryNow - samples[n + 1].at <= AlertWindow

\* The peak is above the last total by that much if any total is.
Dropped(log) ==
  /\ Len(log) >= 2
  /\ \E i \in DOMAIN log :
       log[i].total > 0 /\ (log[i].total - Last(log).total) * 100 >= DropPct * log[i].total
Muted == alerts # <<>> /\ treasuryNow - Last(alerts).at < AlertWindow

WatchReadsUsdc ==
  /\ watch.sol # Unseen
  /\ \E seen \in {wallet["usdc"], 0}, n \in 0..Len(samples) :
       /\ Reads("usdc", seen) /\ Trims(n)
       /\ samples' = Append(SubSeq(samples, n + 1, Len(samples)),
                            [at |-> treasuryNow, total |-> watch.sol * ApproxSol + seen])
       /\ alerts' = IF Dropped(samples') /\ ~Muted
                    THEN Append(alerts, [at |-> treasuryNow, cause |-> lastCause']) ELSE alerts
  /\ watch' = [due |-> watch.due + WatchEvery, sol |-> Unseen]
  /\ UNCHANGED <<chainState, treasuryNow, workerState, drain>>

TreasuryNext ==
  /\ \/ TreasuryTick
     \/ "thief" \in enabled /\ Drained
     \/ \E swap \in pendingSwaps : SwapLands(swap)
     \/ "sweep" \in enabled /\ (SweepRound \/ SweepReads \/ SweepSends)
     \/ "stable" \in enabled /\ StableTurn
     \/ "watch" \in enabled /\ (WatchReadsSol \/ WatchReadsUsdc)
  /\ UNCHANGED enabled

TreasurySpec == TreasuryInit /\ [][TreasuryNext]_treasuryVars

---------------------------------------------------------------------------
\* A thief took what the watch had seen, and it has read all of it again since.
Overdue ==
  /\ "watch" \in enabled /\ drain.at # Unseen
  /\ drain.shown > 0 /\ treasuryNow > drain.at + WatchEvery + 1

\* scout.rs:1992-1993: "if a sweeper drains the wallet, the alert fires within
\* ~30s of the first transfer".
DrainIsAlerted == Overdue => \E i \in DOMAIN alerts : alerts[i].at >= drain.at

\* The sweeps of a stable nothing else has left since they were computed leave
\* the threshold, and no more are under way at once than rounds fit in the life
\* of a blockhash. Every alert follows a loss or a failed read within the window,
\* alerts keep their distance, and a thief goes unnoticed only behind one.
TreasurySound ==
  /\ \A swap \in pendingSwaps :
       swap.alone =>
         wallet[swap.src] >= SweepAbove + swap.amount
  /\ \A coin \in {"usdc", "usdt"} :
       Cardinality({s \in pendingSwaps : s.by = "sweep" /\ s.src = coin})
         <= SwapLife \div SweepEvery + 1
  /\ \A i \in DOMAIN alerts :
       /\ alerts[i].cause # Unseen /\ alerts[i].at - alerts[i].cause <= AlertWindow + 1
       /\ i > 1 => alerts[i].at - alerts[i - 1].at >= AlertWindow
  /\ Overdue => \E i \in DOMAIN alerts : alerts[i].at >= drain.at - AlertWindow
=============================================================================
