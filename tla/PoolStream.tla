----------------------------- MODULE PoolStream -----------------------------
(***************************************************************************)
(* How the cached state of a pool follows the chain: the reconnect loop    *)
(* run_enhanced_websocket of src/crates/arb-scout/src/scout.rs with its    *)
(* bootstrap, the session tasks of src/crates/arb-stream/src/wss.rs and    *)
(* laserstream.rs, the task that turns transactions into predicted         *)
(* updates, and the channels between them.                                 *)
(*                                                                         *)
(* One pool stands for all of them.  A state of its account is the slot it *)
(* was written in and the slots of its last price and liquidity changes.   *)
(* Channels close as tokio's do: recv returns None once the queue is empty *)
(* and every sender is dropped.                                            *)
(***************************************************************************)
EXTENDS Integers, Sequences

CONSTANTS
  Configs,       \* the configurations an instance covers, each with the
                 \* backend and YELLOWSTONE_TX_STREAM_ENABLED
  RxCapacity,    \* capacity of the update channel
  TxCapacity,    \* capacity of the transaction channel
  BackoffCap,    \* doublings from the first back-off to the largest one
  MaxWrites,     \* bound on the writes to the pool
  MaxSessions    \* bound on the bootstraps

ASSUME StreamAssumption ==
  /\ Configs \subseteq [backend : {"wss", "laserstream"}, tx : BOOLEAN]
  /\ {RxCapacity, TxCapacity} \subseteq Nat \ {0}
  /\ {BackoffCap, MaxWrites, MaxSessions} \subseteq Nat

VARIABLES
  config,         \* the configuration, read once at the start
  chain, prior,   \* the account on chain, and before its last write
  store,          \* the entry in PoolStateStore
  phase,          \* where the reconnect loop stands
  wire,           \* what the server sent and the session has not read
  rx,             \* the update channel of this session
  txq,            \* its transaction channel
  consumer,       \* does the transaction consumer (a sender of rx) run?
  backoff,        \* doublings of the back-off
  ended,          \* how the last session ended
  sessions        \* bounded count of bootstraps

chainVars   == <<chain, prior>>
sessionVars == <<config, phase, backoff, ended, sessions>>
streamVars  == <<chainVars, store, wire, rx, txq, consumer, sessionVars>>

Account == [price : Nat, liquidity : Nat, slot : Nat]
Genesis == [price |-> 0, liquidity |-> 0, slot |-> 0]

StreamInit ==
  /\ config \in Configs
  /\ chain = Genesis /\ prior = Genesis /\ store = Genesis
  /\ phase = "boot" /\ consumer = FALSE
  /\ wire = <<>> /\ rx = <<>> /\ txq = <<>>
  /\ backoff = 0 /\ ended = "closed" /\ sessions = 0

---------------------------------------------------------------------------
\* Mutants: a channel that hands out the newest first, and the bugs named at the operators they replace.
MutNewestFirst(q, x) == <<x>> \o q

Double(b) == IF b < BackoffCap THEN b + 1 ELSE b

\* Only LaserStream subscribes to transactions.
TxSubscribed == config.tx /\ config.backend = "laserstream"

\* A swap (its transaction is announced ahead of the account) or a change of
\* the liquidity writes the account; who is subscribed hears of it.
WriteAccount(written, announced) ==
  /\ chain.slot < MaxWrites
  /\ prior' = chain
  /\ chain' = written
  /\ wire' = IF phase # "open" THEN wire
             ELSE wire \o announced \o <<[kind |-> "account", state |-> written]>>
  /\ UNCHANGED <<store, rx, txq, consumer, sessionVars>>

Swap ==
  LET slot == chain.slot + 1
  IN  WriteAccount([chain EXCEPT !.price = slot, !.slot = slot],
                   IF TxSubscribed
                     THEN <<[kind |-> "tx", state |-> [chain EXCEPT !.price = slot, !.slot = slot]]>>
                     ELSE <<>>)

ChangeLiquidity ==
  LET slot == chain.slot + 1
  IN  WriteAccount([chain EXCEPT !.liquidity = slot, !.slot = slot], <<>>)

Sent(q, x) == Append(q, x)

\* The transaction consumer is spawned when the stream is enabled.
ConsumerStarts == config.tx

\* bootstrap: the snapshot goes to the store; the node that answers may be a
\* slot behind.  With the transaction stream enabled, its consumer starts and
\* keeps a sender of the update channel.
BootOk ==
  /\ phase = "boot" /\ sessions < MaxSessions
  /\ store' \in {chain, prior}
  /\ phase' = "dial"
  /\ backoff' = 0
  /\ consumer' = ConsumerStarts
  /\ rx' = <<>> /\ txq' = <<>> /\ wire' = <<>>
  /\ sessions' = sessions + 1
  /\ UNCHANGED <<config, chainVars, ended>>

\* An RPC call fails, the first one or a later one, when the pools are stored.
BootFails ==
  /\ phase = "boot"
  /\ store' \in {store, chain, prior}
  /\ backoff' = Double(backoff)
  /\ UNCHANGED <<config, chainVars, wire, rx, txq, consumer, phase, ended, sessions>>

Connect ==
  /\ phase = "dial"
  /\ phase' = "open"
  /\ UNCHANGED <<config, chainVars, store, wire, rx, txq, consumer, backoff, ended,
                 sessions>>

\* The session task returns and drops its senders; what was on the wire is lost.
SessionOver(how) ==
  /\ phase \in {"dial", "open"} /\ (phase = "dial" => how = "errored")
  /\ phase' = "over"
  /\ ended' = how
  /\ wire' = <<>>
  /\ UNCHANGED <<config, chainVars, store, rx, txq, consumer, backoff, sessions>>

\* The session forwards an account (waiting for room) ...
ForwardAccount ==
  /\ phase = "open" /\ wire # <<>> /\ Head(wire).kind = "account"
  /\ Len(rx) < RxCapacity
  /\ rx' = Sent(rx, Head(wire).state)
  /\ wire' = Tail(wire)
  /\ UNCHANGED <<chainVars, store, txq, consumer, sessionVars>>

\* ... or a transaction (dropped when there is no room).
ForwardTx ==
  /\ phase = "open" /\ wire # <<>> /\ Head(wire).kind = "tx"
  /\ txq' = IF Len(txq) < TxCapacity THEN Sent(txq, Head(wire).state) ELSE txq
  /\ wire' = Tail(wire)
  /\ UNCHANGED <<chainVars, store, rx, consumer, sessionVars>>

\* The consumer splices the price of a swap into the bytes the store holds by
\* now and sends the result as an update (dropped when there is no room).
Predict ==
  LET t     == Head(txq)
      synth == [store EXCEPT !.price = t.price, !.slot = t.slot]
  IN  /\ consumer /\ txq # <<>>
      /\ rx' = IF Len(rx) < RxCapacity THEN Sent(rx, synth) ELSE rx
      /\ txq' = Tail(txq)
      /\ UNCHANGED <<chainVars, store, wire, consumer, sessionVars>>

\* The transaction sender lives in the LaserStream session; with WSS it stays
\* in the body of the reconnect loop until that iteration is over.
MutSenderKept == FALSE
TxSenderDropped == config.backend = "laserstream" /\ phase = "over"

ConsumerEnds ==
  /\ consumer /\ txq = <<>> /\ TxSenderDropped
  /\ consumer' = FALSE
  /\ UNCHANGED <<chainVars, store, wire, rx, txq, sessionVars>>

\* handle_update: upsert without a look at the slots.
Handle ==
  /\ phase \in {"dial", "open", "over"} /\ rx # <<>>
  /\ store' = Head(rx)
  /\ rx' = Tail(rx)
  /\ UNCHANGED <<chainVars, wire, txq, consumer, sessionVars>>

\* recv returns None once the queue is empty and all senders are gone: the
\* session's and the transaction consumer's clone.
MutIgnoresClone == rx = <<>>
AllSendersGone == rx = <<>> /\ ~consumer

\* recv returned None: sleep after an error, then bootstrap again.
Reconnect ==
  /\ phase = "over" /\ AllSendersGone
  /\ phase' = "boot"
  /\ backoff' = IF ended = "errored" THEN Double(backoff) ELSE backoff
  /\ UNCHANGED <<config, chainVars, store, wire, rx, txq, consumer, ended, sessions>>

StreamNext ==
  \/ Swap \/ ChangeLiquidity
  \/ BootOk \/ BootFails \/ Connect
  \/ \E how \in {"closed", "errored"} : SessionOver(how)
  \/ ForwardAccount \/ ForwardTx
  \/ Predict \/ ConsumerEnds
  \/ Handle \/ Reconnect

StreamSpec == StreamInit /\ [][StreamNext]_streamVars

\* The tasks of the process run; nothing is assumed of the network.
FairStreamSpec ==
  /\ StreamSpec
  /\ WF_streamVars(Handle) /\ WF_streamVars(Reconnect)
  /\ WF_streamVars(Predict) /\ WF_streamVars(ConsumerEnds)

---------------------------------------------------------------------------
StreamTypeOK ==
  /\ config \in Configs
  /\ {chain, prior, store} \subseteq Account
  /\ phase \in {"boot", "dial", "open", "over"} /\ ended \in {"closed", "errored"}
  /\ rx \in Seq(Account) /\ Len(rx) <= RxCapacity
  /\ txq \in Seq(Account) /\ Len(txq) <= TxCapacity
  /\ consumer \in BOOLEAN
  /\ wire \in Seq([kind : {"account", "tx"}, state : Account])
  /\ backoff \in 0 .. BackoffCap /\ sessions \in Nat

\* No task, transaction or update of a session is left when the next bootstrap
\* starts: everything the session put in a channel was handled before it.
NothingOutlivesItsSession ==
  phase = "boot" => ~consumer /\ rx = <<>> /\ txq = <<>> /\ wire = <<>>

\* The sessions, whole: types, and nothing left behind.
SessionsSound == StreamTypeOK /\ NothingOutlivesItsSession

\* Without predicted updates a cached pool never goes back: between two
\* bootstraps every handled update is newer than what it replaces, and none
\* of an earlier session is handled after a bootstrap.
StoreNeverGoesBack ==
  [][phase # "boot" /\ ~config.tx => store'.slot >= store.slot]_streamVars

\* scout.rs:590, bootstrap -> subscribe -> handle updates -> reconnect: a
\* session that is over is followed by a new bootstrap.
SessionsReconnect == phase = "over" ~> phase = "boot"
=============================================================================
