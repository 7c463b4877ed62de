---------------------------- MODULE NativeWorker ----------------------------
(***************************************************************************)
(* The worker of the native executor (spawn_worker in                      *)
(* src/crates/arb-scout/src/native_executor.rs): on every tick of a tokio  *)
(* interval with MissedTickBehavior::Skip it picks from the buffer and     *)
(* runs the opportunity to the end before it waits for the next tick.      *)
(***************************************************************************)
EXTENDS OpportunityBuffer

CONSTANT Interval   \* min_interval

ASSUME WorkerAssumption == Interval \in Nat \ {0}

VARIABLES
  deadline,   \* when the interval fires next
  busy,       \* is maybe_execute running?
  passedOver, \* history: offers that stayed behind at some pick
  lastPick,   \* history: when the worker picked last (-1: never)
  late        \* history: did a run outlast the next tick?

workerVars == <<deadline, busy, passedOver, lastPick, late>>

WorkerInit ==
  /\ BufInit
  /\ deadline = 0
  /\ busy = FALSE
  /\ passedOver = {}
  /\ lastPick = -1
  /\ late = FALSE

\* Mutant: make up for missed ticks.
MutBurst == deadline + Interval

\* Skip: the first multiple of the period after now.
NextDeadline == deadline + Interval * ((now - deadline) \div Interval + 1)

Enqueue(net) == Submit(net) /\ UNCHANGED workerVars

Due == ~busy /\ now >= deadline

Work(o) ==
  /\ Due
  /\ PickBest(o)
  /\ busy' = TRUE
  /\ deadline' = NextDeadline
  /\ passedOver' = passedOver \cup buf'
  /\ lastPick' = now
  /\ UNCHANGED late

Idle ==
  /\ Due
  /\ PickNone
  /\ deadline' = NextDeadline
  /\ UNCHANGED <<busy, passedOver, lastPick, late>>

\* maybe_execute returns, with an error or without: the loop goes on.
RunEnds ==
  /\ busy
  /\ busy' = FALSE
  /\ UNCHANGED <<bufVars, deadline, passedOver, lastPick, late>>

\* Time passes; a due worker that is not busy is not kept waiting.
Elapse ==
  /\ Pass
  /\ ~Due
  /\ late' = (late \/ (busy /\ now' >= deadline))
  /\ UNCHANGED <<deadline, busy, passedOver, lastPick>>

WorkerNext ==
  \/ \E net \in Nets : Enqueue(net)
  \/ \E o \in buf : Work(o)
  \/ Idle
  \/ RunEnds
  \/ Elapse

WorkerSpec == WorkerInit /\ [][WorkerNext]_<<bufVars, workerVars>>

---------------------------------------------------------------------------
\* The worker fires at most once in each period of its interval, though after
\* a slow run two picks may follow each other at once: missed ticks are
\* skipped and never made up for. With the default max_age of one interval
\* (native_executor.rs:346), and as long as no run outlasted a tick, an
\* opportunity competes once: it wins the first pick after its submission, or
\* no pick ever returns it.
PicksSound ==
  [][/\ lastPick' # lastPick => lastPick < 0 \/ now \div Interval > lastPick \div Interval
     /\ ~late /\ selected' = selected + 1
          => (buf \ buf') \cap FreshOffers \cap passedOver = {}]_<<lastPick, bufVars>>
=============================================================================
