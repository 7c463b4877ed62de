--------------------------- MODULE PumpSwapWatcher ---------------------------
(***************************************************************************)
(* The watcher of pump.fun graduations                                     *)
(* (src/crates/arb-scout/src/bin/pumpswap-watcher.rs, with the shred       *)
(* stream of arb-stream/src/shred.rs). Two subscribers put pools into one  *)
(* channel, a consumer starts one task for every pool it sees for the      *)
(* first time, and the task goes from gate to gate until it sends a        *)
(* transaction or gives up. Tasks share the set of dead-lettered mints and *)
(* the cache of token programs.                                            *)
(***************************************************************************)
EXTENDS Integers, Sequences, FiniteSets, SequencesExt

CONSTANTS
  Pools, OldPools,   \* pools, and those that exist when the watcher starts
  TargetMint,        \* pool -> the other mint
  Token2022,         \* mints of the Token-2022 program
  PageReaches,       \* pool -> age of its oldest signature among the newest 1000
  WatchModes,        \* shred feed, autofire, pools with wSOL on one side
  UpdateBuffer,      \* capacity of the channel
  Depths,            \* what the SOL vault of a pool may hold
  FreshMaxAge, MinQuote, ProbeCeiling, ProbePct, MinProbe,
  WatchTip, WatchMinProfit,
  Backs,             \* what the round trip may return beyond the probe
  MaxAlerts          \* bound on shred alerts

ASSUME WatchAssumption ==
  /\ IsFiniteSet(Pools)
  /\ PageReaches \in [Pools -> Int] /\ Depths \subseteq Int
  /\ {FreshMaxAge, MinQuote, ProbeCeiling, ProbePct, MinProbe} \subseteq Int

VARIABLES
  mode, onChain,
  updates,           \* the channel of account updates
  streaming,         \* a LaserStream session is open
  listed,            \* seen of the shred task: pools it has listed
  warmed,            \* warmup_done, and what was listed by then
  pushing,           \* pools of a listing still to be sent
  alerts,            \* alerts handled
  watched,           \* seen of the consumer
  taskAt,             \* pool -> where its task is
  probe,             \* pool -> adaptive_probe
  program,           \* pool -> the token program its transaction names
  owners,            \* MINT_OWNERS
  dead,              \* FAILED_MINTS
  flying,            \* history: mint -> attempts under way when it was dead-lettered
  fired,             \* pools a transaction was sent for
  watchStats

watchVars == <<mode, onChain, updates, streaming, listed, warmed, pushing, alerts, watched,
               taskAt, probe, program, owners, dead, flying, fired, watchStats>>
feedVars  == <<updates, streaming, listed, warmed, pushing, alerts>>
tradeVars == <<probe, program, owners, dead, flying, fired>>

TargetMints == {TargetMint[p] : p \in Pools}

WatchInit ==
  /\ mode \in WatchModes
  /\ onChain = OldPools
  /\ updates = <<>> /\ streaming = FALSE
  /\ listed = {} /\ warmed = [done |-> FALSE, pools |-> {}] /\ pushing = {} /\ alerts = 0
  /\ watched = {}
  /\ taskAt = [p \in Pools |-> "unseen"]
  /\ probe = [p \in Pools |-> 0] /\ program = [p \in Pools |-> "legacy"]
  /\ owners = {} /\ dead = {} /\ flying = [m \in TargetMints |-> {}] /\ fired = {}
  /\ watchStats = [new |-> 0, stale |-> 0, lowQuote |-> 0, noSol |-> 0, candidates |-> 0]

Count(field) == watchStats' = [watchStats EXCEPT ![field] = @ + 1]

---------------------------------------------------------------------------
\* The feeds. Both wait for room in the channel.

PoolCreated(p) ==
  /\ p \notin onChain
  /\ onChain' = onChain \cup {p}
  /\ UNCHANGED <<mode, feedVars, watched, taskAt, tradeVars, watchStats>>

StreamOpens  == ~streaming /\ streaming' = TRUE
                /\ UNCHANGED <<mode, onChain, updates, listed, warmed, pushing, alerts, watched,
                               taskAt, tradeVars, watchStats>>
StreamEnds   == streaming /\ streaming' = FALSE
                /\ UNCHANGED <<mode, onChain, updates, listed, warmed, pushing, alerts, watched,
                               taskAt, tradeVars, watchStats>>

Offer(p) == Len(updates) < UpdateBuffer /\ updates' = Append(updates, p)

\* A pool is written whenever somebody trades: LaserStream brings it.
PoolWritten(p) ==
  /\ streaming /\ p \in onChain
  /\ Offer(p)
  /\ UNCHANGED <<mode, onChain, streaming, listed, warmed, pushing, alerts, watched, taskAt,
                 tradeVars, watchStats>>

\* The shred stream reports a creation at most once per slot, may drop a report
\* when its buffer is full, and reconnects for ever.
AlertArrives == alerts < MaxAlerts

\* An alert lists all pools. Fed by the file bridge, the first listing is only
\* remembered; the native task pushes that one too. A failed request is an
\* alert without effect, since the next one lists everything again.
Alert ==
  /\ pushing = {} /\ AlertArrives
  /\ alerts' = alerts + 1
  /\ listed' = listed \cup onChain
  /\ pushing' = IF mode.native \/ warmed.done THEN onChain \ listed ELSE {}
  /\ warmed' = IF warmed.done THEN warmed ELSE [done |-> TRUE, pools |-> onChain]
  /\ UNCHANGED <<mode, onChain, updates, streaming, watched, taskAt, tradeVars, watchStats>>

Push(p) ==
  /\ p \in pushing
  /\ Offer(p)
  /\ pushing' = pushing \ {p}
  /\ UNCHANGED <<mode, onChain, streaming, listed, warmed, alerts, watched, taskAt, tradeVars,
                 watchStats>>

\* The consumer takes the first update of a pool for its creation.
Consume ==
  /\ updates # <<>>
  /\ updates' = Tail(updates)
  /\ watched' = watched \cup {Head(updates)}
  /\ LET p == Head(updates)
     IN  IF p \in watched THEN UNCHANGED <<taskAt, watchStats>>
         ELSE /\ taskAt' = [taskAt EXCEPT ![p] = IF p \in mode.sol THEN "age" ELSE "noSol"]
              /\ watchStats' = [watchStats EXCEPT !.new = @ + 1,
                                                  !.noSol = @ + (IF p \in mode.sol THEN 0 ELSE 1)]
  /\ UNCHANGED <<mode, onChain, streaming, listed, warmed, pushing, alerts, tradeVars>>

---------------------------------------------------------------------------
\* The task of a pool.

Move(p, s) == taskAt' = [taskAt EXCEPT ![p] = s]
Trading == {"owner", "quote", "swap", "sim", "send"}

\* oldest_sig_age_seconds: the oldest of one page of signatures.
MutNewestSignature(p) == 0

PageAge(p) == PageReaches[p]

ProbeAge(p) ==
  /\ taskAt[p] = "age"
  /\ \/ Move(p, "failed") /\ UNCHANGED watchStats
     \/ PageAge(p) > FreshMaxAge /\ Move(p, "stale") /\ Count("stale")
     \/ PageAge(p) <= FreshMaxAge /\ Move(p, "depth") /\ UNCHANGED watchStats
  /\ UNCHANGED <<mode, onChain, feedVars, watched, tradeVars>>

\* The vault's depth decides on the size; then the attempt starts, with the
\* look at the dead letters.
AdaptiveProbe(depth) ==
  IF (depth * ProbePct) \div 100 < ProbeCeiling THEN (depth * ProbePct) \div 100 ELSE ProbeCeiling

ProbeDepth(p) ==
  /\ taskAt[p] = "depth"
  /\ \/ Move(p, "failed") /\ UNCHANGED <<watchStats, probe>>
     \/ \E d \in Depths :
          IF d < MinQuote \/ AdaptiveProbe(d) < MinProbe
          THEN Move(p, "shallow") /\ Count("lowQuote") /\ UNCHANGED probe
          ELSE /\ Count("candidates")
               /\ probe' = [probe EXCEPT ![p] = AdaptiveProbe(d)]
               /\ Move(p, IF TargetMint[p] \in dead THEN "given up" ELSE "owner")
  /\ UNCHANGED <<mode, onChain, feedVars, watched, program, owners, dead, flying, fired>>

\* mint_token_program: cached, asked for, or taken for legacy.
TokenProgram(m) == IF m \in Token2022 THEN "2022" ELSE "legacy"

FindOwner(p) ==
  LET m == TargetMint[p]
      knows == program' = [program EXCEPT ![p] = TokenProgram(m)] /\ owners' = owners \cup {m}
  IN  /\ taskAt[p] = "owner"
      /\ \/ knows
         \/ m \notin owners /\ UNCHANGED <<program, owners>>
      /\ Move(p, "quote")
      /\ UNCHANGED <<mode, onChain, feedVars, watched, probe, dead, flying, fired, watchStats>>

\* Both directions are quoted, each may fail; the better one must pay for the
\* tip and the minimum.
NoQuote == -1
Better(fwd, rev) == IF fwd >= rev THEN fwd ELSE rev

Quote(p) ==
  /\ taskAt[p] = "quote"
  /\ \E fwd, rev \in Backs \cup {NoQuote} :
       LET net == Better(fwd, rev)
       IN  Move(p, IF net # NoQuote /\ net - WatchTip >= WatchMinProfit THEN "swap" ELSE "given up")
  /\ UNCHANGED <<mode, onChain, feedVars, watched, tradeVars, watchStats>>

\* Swap instructions, lookup tables, blockhash: any may fail, and without a
\* table the transaction may be too long.
Build(p) ==
  /\ taskAt[p] = "swap"
  /\ \/ Move(p, "given up")
     \/ Move(p, "sim")
  /\ UNCHANGED <<mode, onChain, feedVars, watched, tradeVars, watchStats>>

\* A simulation that fails, for the token program or because prices moved,
\* dead-letters the mint.
Simulate(p) ==
  /\ taskAt[p] = "sim"
  /\ \/ /\ Move(p, "given up") /\ UNCHANGED <<dead, flying>>
     \/ /\ Move(p, "given up")
        /\ dead' = dead \cup {TargetMint[p]}
        /\ flying' = IF TargetMint[p] \in dead THEN flying
                     ELSE [flying EXCEPT ![TargetMint[p]] =
                             {q \in Pools \ {p} : taskAt[q] \in Trading /\ TargetMint[q] = TargetMint[p]}]
     \/ /\ program[p] = TokenProgram(TargetMint[p])
        /\ Move(p, IF mode.autofire THEN "send" ELSE "dry run")
        /\ UNCHANGED <<dead, flying>>
  /\ UNCHANGED <<mode, onChain, feedVars, watched, probe, program, owners, fired, watchStats>>

\* To the leaders if there is a TPU sender and a slot, else to Helius, whose
\* reply may say or may hide that it was sent.
Send(p) ==
  /\ taskAt[p] = "send"
  /\ \/ fired' = fired \cup {p}
     \/ UNCHANGED fired
  /\ Move(p, "done")
  /\ UNCHANGED <<mode, onChain, feedVars, watched, probe, program, owners, dead, flying, watchStats>>

WatchNext ==
  \/ \E p \in Pools : PoolCreated(p) \/ PoolWritten(p) \/ Push(p)
  \/ StreamOpens \/ StreamEnds \/ Alert \/ Consume
  \/ \E p \in Pools : ProbeAge(p) \/ ProbeDepth(p) \/ FindOwner(p) \/ Quote(p) \/ Build(p)
                        \/ Simulate(p) \/ Send(p)

WatchSpec == WatchInit /\ [][WatchNext]_watchVars

---------------------------------------------------------------------------
\* pumpswap-watcher.rs:8-10, 46, 281, 687: only graduations are traded, whoever
\* reported the pool, apart from pools so busy that a page of signatures spans
\* less than the limit; what is sent names the mint's own token program; a mint
\* that was dead-lettered is sent for only by attempts already under way; no
\* pool gets lost between a listing and the consumer; the file bridge reports
\* no pool of its first listing; and the counters account for every pool.
WatchSound ==
  /\ fired \cap {p \in OldPools : PageReaches[p] > FreshMaxAge} = {}
  /\ \A p \in fired : program[p] = TokenProgram(TargetMint[p]) /\ probe[p] \in MinProbe..ProbeCeiling
  /\ \A p \in Pools : taskAt[p] \in Trading /\ TargetMint[p] \in dead => p \in flying[TargetMint[p]]
  /\ listed \subseteq (IF mode.native THEN {} ELSE warmed.pools) \cup pushing \cup Range(updates) \cup watched
  /\ ~mode.native => pushing \cap warmed.pools = {}
  /\ watchStats.new = watchStats.noSol + watchStats.stale + watchStats.lowQuote + watchStats.candidates
                        + Cardinality({p \in Pools : taskAt[p] \in {"age", "depth", "failed"}})
=============================================================================
