------------------------------ MODULE Executor ------------------------------
(***************************************************************************)
(* The gates of the Jupiter executor: maybe_execute_inner (the round trip) *)
(* and maybe_execute_one_way in src/crates/arb-scout/src/executor.rs.      *)
(*                                                                         *)
(* Calls come from several tasks (the update handler, the polling workers, *)
(* the pump.fun executor).  Each gate reads shared state once and the call *)
(* then awaits quotes, the in_flight mutex, the transaction and the send;  *)
(* meanwhile other calls send, back-offs are recorded, and the pollers of  *)
(* earlier bundles book what landed.                                       *)
(***************************************************************************)
EXTENDS Integers, FiniteSets

CONSTANTS
  Tasks, NoTask,
  Kinds,          \* subset of {"round_trip", "one_way"}
  Nets,           \* net results a quote may promise
  MinProfit,      \* EXECUTOR_MIN_PROFIT_USDC
  SkipGate,       \* EXECUTOR_SKIP_PROFIT_GATE
  LossCap,        \* EXECUTOR_MAX_DAILY_LOSS_USDC
  MinInterval,    \* EXECUTOR_MIN_INTERVAL_MS, in ticks
  Configs,        \* the configurations an instance covers: EXECUTOR_LIVE and
                  \* EXECUTOR_SAMPLE_ONE_IN_N
  Retries,        \* lengths of the back-offs Jito asks for, in ticks
  UseJito,        \* EXECUTOR_USE_JITO
  MaxCalls        \* bound on the number of calls considered

ASSUME ExecutorAssumption ==
  /\ IsFiniteSet(Tasks) /\ Tasks # {} /\ NoTask \notin Tasks
  /\ Kinds \subseteq {"round_trip", "one_way"}
  /\ Nets \subseteq Int /\ MinProfit \in Nat /\ LossCap \in Nat
  /\ MinInterval \in Nat
  /\ Configs \subseteq [live : BOOLEAN, oneInN : Nat \ {0}]
  /\ Retries \subseteq Nat \ {0}
  /\ {SkipGate, UseJito} \subseteq BOOLEAN
  /\ MaxCalls \in Nat

VARIABLES
  config,      \* the configuration, read once at the start
  at,          \* where each task is suspended
  kind, net,   \* the call it runs, and the net result it was quoted
  inFlight,    \* holder of the in_flight mutex
  since,       \* ticks since *last_attempt was set, up to MinInterval
  backOff,     \* ticks until back_off_until (None and past deadlines: 0)
  runningNet,  \* running_net_usdc
  considered, sent, \* the metrics
  skipped,     \* the metrics of the ways a call is skipped, by name
  pending,     \* sent bundles somebody still polls: number and net
  early,       \* history: calls dropped before they were considered
  failed,      \* history: calls that ended in an error nothing counts
  lateBackOff, \* history: requests sent since the back-off in force began
  lateLoss     \* history: bundles sent since runningNet fell below -LossCap

counters == <<considered, sent, skipped, early, failed>>
money    == <<runningNet, pending>>
lates    == <<lateBackOff, lateLoss>>
execVars == <<config, at, kind, net, inFlight, since, backOff, counters, money, lates>>

Places  == {"idle", "throttle", "gate", "quote", "lock", "build", "send"}
Reasons == {"sample", "throttle", "daily_cap", "quote", "below_min", "dry_run"}

ExecInit ==
  /\ config \in Configs
  /\ at = [t \in Tasks |-> "idle"]
  /\ kind = [t \in Tasks |-> "round_trip"]
  /\ net = [t \in Tasks |-> 0]
  /\ inFlight = NoTask
  /\ since = MinInterval /\ backOff = 0 /\ runningNet = 0
  /\ considered = 0 /\ sent = 0 /\ skipped = [r \in Reasons |-> 0]
  /\ pending = {}
  /\ early = 0 /\ failed = 0
  /\ lateBackOff = 0 /\ lateLoss = 0

---------------------------------------------------------------------------
MutUncounted(t, reason) ==
  at' = [at EXCEPT ![t] = "idle"] /\ UNCHANGED skipped

Goto(t, place) == at' = [at EXCEPT ![t] = place]
Skip(t, reason) ==
  /\ Goto(t, "idle")
  /\ skipped' = [skipped EXCEPT ![reason] = @ + 1]

Consider == considered < MaxCalls /\ considered' = considered + 1

\* An attempt that is not a multiple of N is dropped.
Sampled == considered % config.oneInN = 0

MutForget == FALSE
BackedOff == backOff > 0

\* The round trip is counted and sampled first and then looks at the back-off.
EnterRoundTrip(t) ==
  /\ at[t] = "idle"
  /\ Consider
  /\ kind' = [kind EXCEPT ![t] = "round_trip"]
  /\ \/ ~Sampled /\ Skip(t, "sample")
     \/ Sampled /\ BackedOff /\ Skip(t, "throttle")
     \/ Sampled /\ ~BackedOff /\ Goto(t, "throttle") /\ UNCHANGED skipped
  /\ UNCHANGED <<net, inFlight, since, backOff, sent, early, failed, money, lates>>

\* One way looks at the back-off first, and is not counted when it is dropped.
EnterOneWay(t) ==
  /\ at[t] = "idle"
  /\ kind' = [kind EXCEPT ![t] = "one_way"]
  /\ \/ /\ BackedOff /\ early < MaxCalls
        /\ Skip(t, "throttle")
        /\ early' = early + 1
        /\ UNCHANGED considered
     \/ /\ ~BackedOff
        /\ Consider
        /\ IF Sampled THEN Goto(t, "throttle") /\ UNCHANGED skipped
                      ELSE Skip(t, "sample")
        /\ UNCHANGED early
  /\ UNCHANGED <<net, inFlight, since, backOff, sent, failed, money, lates>>

\* Checked and stamped under the last_attempt mutex.
Throttle(t) ==
  /\ at[t] = "throttle"
  /\ IF since < MinInterval
       THEN Skip(t, "throttle") /\ UNCHANGED since
       ELSE Goto(t, "gate") /\ since' = 0 /\ UNCHANGED skipped
  /\ UNCHANGED <<kind, net, inFlight, backOff, considered, sent, early, failed, money, lates>>

BelowCap == runningNet < -LossCap

CapReached == BelowCap

LossGate(t) ==
  /\ at[t] = "gate"
  /\ IF CapReached THEN Skip(t, "daily_cap") ELSE Goto(t, "quote") /\ UNCHANGED skipped
  /\ UNCHANGED <<kind, net, inFlight, since, backOff, considered, sent, early, failed, money, lates>>

QuoteError(t) ==
  /\ at[t] = "quote"
  /\ Skip(t, "quote")
  /\ UNCHANGED <<kind, net, inFlight, since, backOff, considered, sent, early, failed, money, lates>>

\* Only the round trip knows EXECUTOR_SKIP_PROFIT_GATE.
Quoted(t, q) ==
  /\ at[t] = "quote"
  /\ IF q >= MinProfit \/ (SkipGate /\ kind[t] = "round_trip")
       THEN Goto(t, "lock") /\ net' = [net EXCEPT ![t] = q] /\ UNCHANGED skipped
       ELSE Skip(t, "below_min") /\ UNCHANGED net
  /\ UNCHANGED <<kind, inFlight, since, backOff, considered, sent, early, failed, money, lates>>

MutNoLock == TRUE
LockFree == inFlight = NoTask

\* The in_flight mutex; a dry run ends here.
TakeLock(t) ==
  /\ at[t] = "lock" /\ LockFree
  /\ IF config.live THEN Goto(t, "build") /\ inFlight' = t /\ UNCHANGED skipped
             ELSE Skip(t, "dry_run") /\ UNCHANGED inFlight
  /\ UNCHANGED <<kind, net, since, backOff, considered, sent, early, failed, money, lates>>

Built(t) ==
  /\ at[t] = "build"
  /\ Goto(t, "send")
  /\ UNCHANGED <<kind, net, inFlight, since, backOff, counters, money, lates>>

\* A leg, the blockhash, the signature or the sender's settings are missing.
BuildError(t) ==
  /\ at[t] = "build"
  /\ Goto(t, "idle") /\ inFlight' = NoTask
  /\ failed' = failed + 1
  /\ UNCHANGED <<kind, net, since, backOff, considered, sent, skipped, early, money, lates>>

CountLate(counter, when) == IF when THEN counter + 1 ELSE counter

\* The bundle or transaction is taken; a poller is spawned and the guard
\* dropped, long before the outcome is known.
SendOk(t) ==
  /\ at[t] = "send"
  /\ Goto(t, "idle") /\ inFlight' = NoTask
  /\ sent' = sent + 1
  /\ pending' = pending \cup {[id |-> sent, net |-> net[t]]}
  /\ lateBackOff' = CountLate(lateBackOff, backOff > 0)
  /\ lateLoss' = CountLate(lateLoss, BelowCap)
  /\ UNCHANGED <<kind, net, since, backOff, considered, skipped, early, failed,
                 runningNet>>

SendError(t) ==
  /\ at[t] = "send"
  /\ Goto(t, "idle") /\ inFlight' = NoTask
  /\ failed' = failed + 1
  /\ lateBackOff' = CountLate(lateBackOff, backOff > 0)
  /\ UNCHANGED <<kind, net, since, backOff, considered, sent, skipped, early, money, lateLoss>>

\* Jito answers "Retry after": the deadline is overwritten, also by an
\* earlier one.
RateLimited(t, r) ==
  /\ at[t] = "send" /\ UseJito /\ kind[t] = "round_trip"
  /\ Goto(t, "idle") /\ inFlight' = NoTask
  /\ failed' = failed + 1
  /\ backOff' = r
  /\ lateBackOff' = CountLate(lateBackOff, backOff > 0)
  /\ UNCHANGED <<kind, net, since, considered, sent, skipped, early, money, lateLoss>>

\* A poller sees the bundle land and books the promised net.
Land(b) ==
  LET total == runningNet + b.net
  IN  /\ b \in pending
      /\ pending' = pending \ {b}
      /\ runningNet' = total
      /\ lateLoss' = IF total < -LossCap THEN lateLoss ELSE 0
      /\ UNCHANGED <<at, kind, net, inFlight, since, backOff, counters, lateBackOff>>

\* The last poll finds nothing, or the transaction failed on chain.
Drop(b) ==
  /\ b \in pending
  /\ pending' = pending \ {b}
  /\ UNCHANGED <<at, kind, net, inFlight, since, backOff, counters, runningNet, lates>>

Cooled(ticks) == IF ticks > 0 THEN ticks - 1 ELSE 0

Tick ==
  /\ since < MinInterval \/ backOff > 0
  /\ since' = IF since < MinInterval THEN since + 1 ELSE since
  /\ backOff' = Cooled(backOff)
  /\ lateBackOff' = IF backOff > 1 THEN lateBackOff ELSE 0
  /\ UNCHANGED <<at, kind, net, inFlight, counters, money, lateLoss>>

TaskStep(t) ==
  \/ "round_trip" \in Kinds /\ EnterRoundTrip(t)
  \/ "one_way" \in Kinds /\ EnterOneWay(t)
  \/ Throttle(t) \/ LossGate(t)
  \/ QuoteError(t) \/ \E q \in Nets : Quoted(t, q)
  \/ TakeLock(t) \/ Built(t) \/ BuildError(t)
  \/ SendOk(t) \/ SendError(t) \/ \E r \in Retries : RateLimited(t, r)

ExecNext ==
  /\ UNCHANGED config
  /\ \/ \E t \in Tasks : TaskStep(t)
     \/ \E b \in pending : Land(b) \/ Drop(b)
     \/ Tick

ExecSpec == ExecInit /\ [][ExecNext]_execVars

---------------------------------------------------------------------------
\* Types of the gates, the mutex, the pollers and the metrics of the executor.
ExecTypeOK ==
  /\ config \in Configs
  /\ at \in [Tasks -> Places] /\ kind \in [Tasks -> {"round_trip", "one_way"}]
  /\ net \in [Tasks -> Nets \cup {0}]
  /\ inFlight \in Tasks \cup {NoTask}
  /\ since \in 0 .. MinInterval /\ backOff \in Nat
  /\ skipped \in [Reasons -> Nat] /\ pending \subseteq [id : Nat, net : Nets \cup {0}]
  /\ runningNet \in Int
  /\ {considered, sent, early, failed, lateBackOff, lateLoss} \subseteq Nat

\* Building and sending happen under the in_flight mutex, by one call at a
\* time, and every way out of them, errors included, gives the mutex back.
SendersSerialised ==
  \A t \in Tasks : at[t] \in {"build", "send"} <=> inFlight = t

Active == {t \in Tasks : at[t] # "idle"}
Skips  == skipped["sample"] + skipped["throttle"] + skipped["daily_cap"]
          + skipped["quote"] + skipped["below_min"] + skipped["dry_run"]

\* The metrics account for every call: it is still running, or it was skipped
\* for one counted reason, or sent once, or ended in an error; only the calls
\* one_way drops before counting them appear under a reason and nowhere else.
CallLedger ==
  considered + early = Skips + sent + failed + Cardinality(Active)

\* Once Jito asked for a back-off, only calls that were past the gate by then
\* can still reach it: as long as the back-off lasts, renewed or not, fewer
\* requests than there are tasks.
BackOffOvershoot == lateBackOff <= Cardinality(Tasks) - 1

\* Once the booked result is below the loss cap, only calls past the loss gate
\* still send: at most one for each task.
LossOvershoot == lateLoss <= Cardinality(Tasks)
=============================================================================
