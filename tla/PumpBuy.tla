------------------------------ MODULE PumpBuy ------------------------------
(***************************************************************************)
(* The three budgeted pump.fun buys of Executor (executor.rs): buy_only,   *)
(* buy_then_sell and the buy+sell bundle.  Every call runs in a task of    *)
(* its own: reserve in the budget, read the bonding curve, build and sign, *)
(* queue on the shared throttle mutex, send, and then return, poll for the *)
(* sell, or hand the reservation back.                                     *)
(*                                                                         *)
(* The module composes the budget object (SnipeBudget) with its callers.   *)
(* The HTTP reply of a send can get lost: the request may have been        *)
(* accepted although the caller sees an error.                             *)
(***************************************************************************)
EXTENDS SnipeBudget

CONSTANTS
  Kinds,      \* subset of AllKinds the configuration enables
  NoTask,     \* the throttle mutex is free
  Interval    \* PUMP_FUN_BUY_MIN_INTERVAL_MS, in ticks

AllKinds == {"buy_only", "buy_then_sell", "bundle"}

ASSUME BuyAssumption ==
  /\ Kinds \in SUBSET AllKinds /\ NoTask \notin Tasks /\ Interval \in Nat

VARIABLES
  at,         \* the await point each call is suspended at
  kind,       \* which of the three functions each task runs
  throttle,   \* holder of pump_buy_last_send
  stamp,      \* ticks since *last_guard was set, up to Interval (None: Interval)
  gap,        \* history: ticks since the last request left, up to Interval
  lastOk      \* history: did that request succeed?

buyVars == <<at, kind, throttle, stamp, gap, lastOk>>
allVars == <<vars, buyVars>>

Places == {"none", "curve", "build", "queue", "throttle", "sending", "poll", "sell"}

BuyInit ==
  /\ Init
  /\ at = [t \in Tasks |-> "none"]
  /\ kind = [t \in Tasks |-> "none"]
  /\ throttle = NoTask
  /\ stamp = Interval
  /\ gap = Interval
  /\ lastOk = FALSE

---------------------------------------------------------------------------
Goto(t, place) == at' = [at EXCEPT ![t] = place]

\* Return to the caller with the reservation booked.
ReturnKeeping(t) == Finish(t) /\ Goto(t, "none")

\* A detector spawns a buy and try_reserve lets it pass.
Call(t, m, k) ==
  /\ at[t] = "none"
  /\ TryReserve(t, m)
  /\ Goto(t, "curve")
  /\ kind' = [kind EXCEPT ![t] = k]
  /\ UNCHANGED <<throttle, stamp, gap, lastOk>>

\* The file writes inside try_reserve and release_reservation.
BudgetIO(t) ==
  /\ OpenFile(t) \/ WriteFile(t) \/ WriteFails(t)
  /\ UNCHANGED buyVars

\* A mayhem curve, or no answer from the RPC: hand the reservation back.
MayhemSkip(t) ==
  /\ at[t] = "curve"
  /\ Release(t)
  /\ Goto(t, "none")
  /\ UNCHANGED <<kind, throttle, stamp, gap, lastOk>>

CurveRead(t) ==
  /\ at[t] = "curve" /\ pc[t] = "held"
  /\ Goto(t, "build")
  /\ UNCHANGED <<vars, kind, throttle, stamp, gap, lastOk>>

\* The buy computes to zero tokens, or there is no blockhash, or signing fails.
BuildFails(t) ==
  /\ at[t] \in {"curve", "build"}
  /\ ReturnKeeping(t)
  /\ UNCHANGED <<kind, throttle, stamp, gap, lastOk>>

\* Signed, with whatever token program the simulation pointed to.
Built(t) ==
  /\ at[t] = "build"
  /\ Goto(t, "queue")
  /\ UNCHANGED <<vars, kind, throttle, stamp, gap, lastOk>>

LockThrottle(t) ==
  /\ at[t] = "queue"
  /\ throttle = NoTask
  /\ throttle' = t
  /\ Goto(t, "throttle")
  /\ UNCHANGED <<vars, kind, stamp, gap, lastOk>>

\* The holder has slept the remainder of the interval.
MutNoSleep(t) == at[t] = "throttle"
Slept(t) == at[t] = "throttle" /\ stamp >= Interval

MutGuardLeaks(t) ==
  /\ Slept(t) /\ kind[t] # "bundle"
  /\ ReturnKeeping(t)
  /\ UNCHANGED <<kind, throttle, stamp, gap, lastOk>>

\* HELIUS_SENDER_URL or HELIUS_API_KEY is missing; the guard is dropped.
SenderMissing(t) ==
  /\ Slept(t) /\ kind[t] # "bundle"
  /\ ReturnKeeping(t)
  /\ throttle' = NoTask
  /\ UNCHANGED <<kind, stamp, gap, lastOk>>

\* The request leaves, the throttle mutex still held.
Dispatch(t) ==
  /\ Slept(t)
  /\ Goto(t, "sending")
  /\ gap' = 0
  /\ UNCHANGED <<vars, kind, throttle, stamp, lastOk>>

\* The sender (or a block engine) takes the request.
Accept(t) ==
  /\ at[t] = "sending"
  /\ Spend(t)
  /\ UNCHANGED buyVars

\* A signature or a bundle id came back: stamp the throttle and drop it.
ReplyOk(t) ==
  /\ at[t] = "sending" /\ pc[t] = "sent"
  /\ throttle' = NoTask
  /\ stamp' = 0
  /\ lastOk' = TRUE
  /\ IF kind[t] = "buy_then_sell"
       THEN Goto(t, "poll") /\ UNCHANGED vars
       ELSE ReturnKeeping(t)
  /\ UNCHANGED <<kind, gap>>

\* Only the bundle path releases its reservation after a failed send.
MutAlwaysRefund(t) == Release(t)
FailedSend(t) == IF kind[t] = "bundle" THEN Release(t) ELSE Finish(t)

\* An error came back, or none at all within the client's timeout.  The guard
\* is dropped without a stamp.
ReplyError(t) ==
  /\ at[t] = "sending"
  /\ throttle' = NoTask
  /\ FailedSend(t)
  /\ Goto(t, "none")
  /\ lastOk' = FALSE
  /\ UNCHANGED <<kind, stamp, gap>>

\* buy_then_sell: the buy is confirmed within 20 polls ...
BuyConfirmed(t) ==
  /\ at[t] = "poll"
  /\ Goto(t, "sell")
  /\ UNCHANGED <<vars, kind, throttle, stamp, gap, lastOk>>

\* ... or it failed on chain, or no status arrived: no sell.
BuyNotConfirmed(t) ==
  /\ at[t] = "poll"
  /\ ReturnKeeping(t)
  /\ UNCHANGED <<kind, throttle, stamp, gap, lastOk>>

\* The sell goes out, unthrottled, or fails; either way the call is over.
SellDone(t) ==
  /\ at[t] = "sell"
  /\ ReturnKeeping(t)
  /\ UNCHANGED <<kind, throttle, stamp, gap, lastOk>>

Older(age) == IF age < Interval THEN age + 1 ELSE age

Tick ==
  /\ stamp < Interval \/ gap < Interval
  /\ stamp' = Older(stamp)
  /\ gap' = Older(gap)
  /\ UNCHANGED <<vars, at, kind, throttle, lastOk>>

BuyRestart ==
  /\ Restart
  /\ at' = [t \in Tasks |-> "none"]
  /\ kind' = [t \in Tasks |-> "none"]
  /\ throttle' = NoTask
  /\ stamp' = Interval
  /\ lastOk' = FALSE
  /\ UNCHANGED gap

\* The steps of a call while it holds the throttle mutex.
HolderStep(t) ==
  SenderMissing(t) \/ Dispatch(t) \/ ReplyOk(t) \/ ReplyError(t)

BuyNext ==
  \/ \E t \in Tasks :
       \/ \E m \in Mints, k \in Kinds : Call(t, m, k)
       \/ BudgetIO(t)
       \/ MayhemSkip(t) \/ CurveRead(t) \/ BuildFails(t) \/ Built(t)
       \/ LockThrottle(t) \/ HolderStep(t) \/ Accept(t)
       \/ BuyConfirmed(t) \/ BuyNotConfirmed(t) \/ SellDone(t)
  \/ Tick
  \/ BuyRestart

BuySpec == BuyInit /\ [][BuyNext]_allVars

\* A sleeping task wakes up, the client that sends has a timeout of 15 s
\* (bundle_client.rs:76), and tokio's Mutex queues in FIFO order, so that a
\* waiter is not overtaken for ever.  The RPC client (rpc.rs:78) has no
\* timeout: nothing is assumed of the awaits before and after.
FairBuySpec ==
  /\ BuySpec
  /\ WF_allVars(Tick)
  /\ \A t \in Tasks : WF_allVars(HolderStep(t)) /\ SF_allVars(LockThrottle(t))

---------------------------------------------------------------------------
BuyTypeOK ==
  /\ TypeOK
  /\ at \in [Tasks -> Places]
  /\ kind \in [Tasks -> AllKinds \cup {"none"}]
  /\ throttle \in Tasks \cup {NoTask}
  /\ stamp \in 0 .. Interval
  /\ gap \in 0 .. Interval
  /\ lastOk \in BOOLEAN

\* A call and its reservation move together: a call past try_reserve holds a
\* live reservation until it returns, one that polls or sells has sent, and
\* whoever sleeps or sends holds the throttle mutex, alone.
CallHoldsReservation ==
  \A t \in Tasks :
    /\ at[t] # "none" => Live(t)
    /\ at[t] \in {"build", "queue", "throttle"} => pc[t] = "held"
    /\ at[t] \in {"poll", "sell"} => pc[t] = "sent"
    /\ at[t] = "none" => pc[t] \in {"idle", "released", "rewriting"}
    /\ at[t] \in {"throttle", "sending"} <=> throttle = t

\* The calls, whole: types, and what each await point implies.
CallsSound == BuyTypeOK /\ CallHoldsReservation

\* executor.rs:269: at least the configured interval passes between the moment a
\* successful send left and the moment the next request leaves, over all
\* tasks and all three kinds (the stamp is taken only when the reply is in).
SuccessfulSendsSpaced ==
  [][\A t \in Tasks : at[t] = "throttle" /\ at'[t] = "sending" /\ lastOk
                        => gap >= Interval]_allVars

\* Every call that queues on the throttle gets to send, or gives up for want
\* of a sender: nobody leaks the guard, on any error path, and a call whose
\* other awaits hang for ever does not hold it.
QueuedCallsSend ==
  \A t \in Tasks :
    at[t] = "queue" ~> at[t] \notin {"queue", "throttle", "sending"}

\* executor.rs:1339: a reservation is handed back after a failed sendBundle
\* because no SOL went out.
RefundedNeverWentOut ==
  [][\A t \in Tasks : pc'[t] = "released" => pc[t] # "sent"]_allVars

=============================================================================
