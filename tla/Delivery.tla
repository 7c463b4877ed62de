------------------------------ MODULE Delivery ------------------------------
(***************************************************************************)
(* How a signed transaction leaves the Jupiter executor and what is booked *)
(* of it (src/crates/arb-scout/src/executor.rs): a bundle, Helius Sender   *)
(* with the RPC node as a fallback, both lanes at once, and the task that  *)
(* is spawned to poll for the result. A lane may deliver a transaction and *)
(* lose its answer. The chain runs a transaction once, whichever lane      *)
(* brought it; two signatures over the same plan are two transactions.     *)
(***************************************************************************)
EXTENDS Integers, FiniteSets, FiniteSetsExt

CONSTANTS
  Sends,      \* the executor's attempts
  Modes,      \* how it may be configured to send
  SendNets,   \* net results an attempt may expect
  PollTries   \* polls before the task gives up (6 or 15)

VARIABLES
  mode,       \* attempt -> how it is sent
  expects,    \* attempt -> its net result
  step,       \* attempt -> where the call is
  copy,       \* attempt -> which signature it sends
  side,       \* attempt -> the lane served by a spawned task
  delivered,  \* [send, copy, lane]: what the lanes passed on
  ran,        \* [send, copy, lane, ok]: what the chain executed
  poller,     \* attempt -> polls left, 0 when nobody polls
  sentCount, landedCount, bookedNet,  \* sent_bundles, landed_bundles, running_net_usdc
  books,      \* history: attempts booked as landed
  gaveUp      \* history: attempts whose polls ran out

delVars == <<mode, expects, step, copy, side, delivered, ran, poller,
             sentCount, landedCount, bookedNet, books, gaveUp>>

ASSUME DelAssumption ==
  /\ IsFiniteSet(Sends) /\ SendNets \subseteq Int /\ PollTries \in Nat \ {0}
  /\ Modes \subseteq {"pair", "atomic", "atomic_rpc", "flash_sender", "flash_bundle",
                      "liquidation", "liquidation_bundle", "swap"}

\* The lane the call awaits, the lane beside it, and what the poller asks for.
Awaited(m) ==
  CASE m \in {"pair", "flash_bundle", "liquidation_bundle"} -> "bundle"
    [] m \in {"atomic", "flash_sender", "swap"}             -> "sender"
    [] m \in {"atomic_rpc", "liquidation"}                  -> "rpc"
Beside(m) ==
  CASE m = "flash_bundle"       -> "sender"
    [] m = "liquidation_bundle" -> "rpc"
    [] OTHER                    -> "none"
PollsBundle(m) == m \in {"pair", "flash_bundle"}
Polls(m)       == m # "swap"
\* A landed liquidation is only logged.
IsBooked(m)    == m \notin {"liquidation", "liquidation_bundle", "swap"}
\* Every accepted send counts, a liquidation only by its bundle.
Counts(m, lane) == m \notin {"liquidation", "liquidation_bundle"} \/ lane = "bundle"

DelInit ==
  /\ mode \in [Sends -> Modes]
  /\ expects \in [Sends -> SendNets]
  /\ step = [s \in Sends |-> "ready"]
  /\ copy = [s \in Sends |-> 1]
  /\ side = [s \in Sends |-> "none"]
  /\ delivered = {} /\ ran = {}
  /\ poller = [s \in Sends |-> 0]
  /\ sentCount = 0 /\ landedCount = 0 /\ bookedNet = 0
  /\ books = {} /\ gaveUp = {}

\* in_flight is held from the build to the end of the call; liquidations do not
\* take it.
GuardFree(s) ==
  \/ ~IsBooked(mode[s])
  \/ \A r \in Sends \ {s} : IsBooked(mode[r]) => step[r] \in {"ready", "done", "error"}

SendStarts(s) ==
  /\ step[s] = "ready" /\ GuardFree(s)
  /\ step' = [step EXCEPT ![s] = Awaited(mode[s])]
  /\ side' = [side EXCEPT ![s] = Beside(mode[s])]
  /\ UNCHANGED <<mode, expects, copy, delivered, ran, poller, sentCount, landedCount, bookedNet, books, gaveUp>>

\* A liquidation is simulated first; one that fails is not sent.
SimulationFails(s) ==
  /\ step[s] = "ready" /\ mode[s] \in {"liquidation", "liquidation_bundle"}
  /\ step' = [step EXCEPT ![s] = "done"]
  /\ UNCHANGED <<mode, expects, copy, side, delivered, ran, poller, sentCount, landedCount, bookedNet, books, gaveUp>>

\* A lane's request ends: an accepted transaction was passed on, one whose
\* request failed may have been.
Passed(s, lane, ok) ==
  \E through \in IF ok THEN {TRUE} ELSE BOOLEAN :
    delivered' = IF through THEN delivered \cup {[send |-> s, copy |-> copy[s], lane |-> lane]}
                 ELSE delivered

\* The call returns, with or without a poller behind it.
Returns(s, how) ==
  /\ step' = [step EXCEPT ![s] = how]
  /\ poller' = IF how = "done" /\ Polls(mode[s]) THEN [poller EXCEPT ![s] = PollTries] ELSE poller

AwaitsTask(s) == step' = [step EXCEPT ![s] = "join"] /\ UNCHANGED poller

Accepted(s) ==
  /\ step[s] = Awaited(mode[s]) \/ (mode[s] = "atomic" /\ step[s] = "rpc")
  /\ Passed(s, step[s], TRUE)
  /\ sentCount' = sentCount + (IF Counts(mode[s], step[s]) THEN 1 ELSE 0)
  /\ IF mode[s] = "liquidation_bundle" THEN AwaitsTask(s) ELSE Returns(s, "done")
  /\ UNCHANGED <<mode, expects, copy, side, ran, landedCount, bookedNet, books, gaveUp>>

MutSignsAgain(s) ==
  /\ step' = [step EXCEPT ![s] = "rpc"]
  /\ copy' = [copy EXCEPT ![s] = 2]
  /\ UNCHANGED poller

\* Sender did not answer: the same signed bytes go to the RPC node.
FallsBack(s) ==
  /\ step' = [step EXCEPT ![s] = "rpc"]
  /\ UNCHANGED <<copy, poller>>

Refused(s) ==
  /\ step[s] = Awaited(mode[s]) \/ (mode[s] = "atomic" /\ step[s] = "rpc")
  /\ Passed(s, step[s], FALSE)
  /\ CASE mode[s] = "atomic" /\ step[s] = "sender" -> FallsBack(s)
       [] mode[s] = "liquidation_bundle" -> AwaitsTask(s) /\ UNCHANGED copy
       [] OTHER -> Returns(s, "error") /\ UNCHANGED copy
  /\ UNCHANGED <<mode, expects, side, ran, sentCount, landedCount, bookedNet, books, gaveUp>>

\* The spawned task's request ends, before or after the call's own.
SideEnds(s, ok) ==
  /\ side[s] \in {"sender", "rpc"}
  /\ Passed(s, side[s], ok)
  /\ side' = [side EXCEPT ![s] = IF ok THEN "accepted" ELSE "refused"]
  /\ sentCount' = sentCount + (IF ok /\ Counts(mode[s], side[s]) THEN 1 ELSE 0)
  /\ UNCHANGED <<mode, expects, step, copy, ran, poller, landedCount, bookedNet, books, gaveUp>>

\* A liquidation awaits its task and polls for the signature it answered,
\* whatever became of the bundle.
Joins(s) ==
  /\ step[s] = "join" /\ side[s] \in {"accepted", "refused"}
  /\ Returns(s, IF side[s] = "accepted" THEN "done" ELSE "error")
  /\ UNCHANGED <<mode, expects, copy, side, delivered, ran, sentCount, landedCount, bookedNet, books, gaveUp>>

\* External: a block includes what a lane brought, once per signature. A bundle
\* with a failing transaction is not included.
Executes(d, ok) ==
  /\ \A r \in ran : r.send # d.send \/ r.copy # d.copy
  /\ ok \/ d.lane # "bundle"
  /\ ran' = ran \cup {[send |-> d.send, copy |-> d.copy, lane |-> d.lane, ok |-> ok]}
  /\ UNCHANGED <<mode, expects, step, copy, side, delivered, poller, sentCount, landedCount, bookedNet, books, gaveUp>>

\* bundle_status knows what landed as part of the bundle, signature_status what
\* was executed at all.
Seen(s) == {r \in ran : /\ r.send = s /\ r.copy = copy[s]
                        /\ PollsBundle(mode[s]) => r.lane = "bundle"}

MutGainsOnly(s) == IF expects[s] > 0 THEN expects[s] ELSE 0

\* What is added to the running net the loss cap is compared with.
Result(s) == expects[s]

PollSees(s) ==
  /\ poller[s] > 0
  /\ \E r \in Seen(s) :
       /\ poller' = [poller EXCEPT ![s] = 0]
       /\ IF r.ok /\ IsBooked(mode[s])
          THEN /\ landedCount' = landedCount + 1
               /\ bookedNet' = bookedNet + Result(s)
               /\ books' = books \cup {s}
          ELSE UNCHANGED <<landedCount, bookedNet, books>>
  /\ UNCHANGED <<mode, expects, step, copy, side, delivered, ran, sentCount, gaveUp>>

\* Nothing there yet, or the poll failed; after the last one the task ends.
PollBlank(s) ==
  /\ poller[s] > 0
  /\ poller' = [poller EXCEPT ![s] = @ - 1]
  /\ gaveUp' = IF poller[s] = 1 THEN gaveUp \cup {s} ELSE gaveUp
  /\ UNCHANGED <<mode, expects, step, copy, side, delivered, ran, sentCount, landedCount, bookedNet, books>>

DelNext ==
  \/ \E s \in Sends : \/ SimulationFails(s) \/ SendStarts(s) \/ Accepted(s) \/ Refused(s)
                      \/ Joins(s) \/ PollSees(s) \/ PollBlank(s)
  \/ \E s \in Sends, ok \in BOOLEAN : SideEnds(s, ok)
  \/ \E d \in delivered, ok \in BOOLEAN : Executes(d, ok)

DelSpec == DelInit /\ [][DelNext]_delVars

---------------------------------------------------------------------------
Succeeded(s) == {r \in ran : r.send = s /\ r.ok}

\* Why a transaction that succeeded may never be booked: it is not to be, its
\* answer was lost, or the polls ran out (also because only the lane nobody polls
\* brought it).
Unseen(s) == ~IsBooked(mode[s]) \/ step[s] = "error" \/ s \in gaveUp

\* Whichever lanes carry it and whichever answers are lost, an attempt succeeds
\* on chain at most once; what is booked did succeed and is booked once; and what
\* succeeded and is not booked is still polled for, still on its way through the
\* call, or unseen for one of those reasons.
DeliverySound ==
  /\ \A s \in Sends : Cardinality(Succeeded(s)) <= 1
  /\ \A s \in books : Succeeded(s) # {}
  /\ landedCount = Cardinality(books)
  /\ landedCount <= sentCount
  /\ \A s \in Sends : Succeeded(s) # {} /\ s \notin books =>
       poller[s] > 0 \/ step[s] \notin {"done", "error"} \/ Unseen(s)

\* The sum of f over a set.
SumOf(f, S) == MapThenSumSet(LAMBDA s : f[s], S)

\* The running net, which the loss cap stops the bot by, is the sum of the
\* results of the attempts booked, losses too, whatever order their pollers end in.
BookedNetAddsUp == bookedNet = SumOf(expects, books)
=============================================================================
