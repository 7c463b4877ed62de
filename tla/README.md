# Verification of xyk-arbitrage

The repository holds a Solana arbitrage bot: one process (`crates/arb-bot`) that
follows pool accounts, searches routes, sends transactions and bundles, and snipes
pump.fun launches, with stand-alone hunters for liquidations and graduations
beside it. This directory models the parts of it whose correctness
depends on interleavings, lost replies, restarts, time or arithmetic, checks the models
with TLC on small instances and proves their main properties with TLAPS for all
instances. Paths below are relative to `src/`; `scout.rs`, `executor.rs` and
other bare file names are in `crates/arb-scout/src/`.

## 1. Inventory

`main.rs` starts fifteen `run_*` loops of the scout in one `tokio::try_join!`; the
first that returns an error ends the process. They share the objects below through
`Arc`s, mutexes, atomics and channels.

| part | state | operations | hard behaviour | what makes it correct |
|---|---|---|---|---|
| pump.fun buy budget (`pump_sniper_budget.rs`) | lamport counter and mint set under one mutex; a JSON file | `try_reserve`, `release_reservation`, `load_or_default` | file written after the mutex is dropped; truncate then write; restarts | counter = price of the mints; cap; one buy per mint; a restart forgets nothing |
| pump.fun buys (`executor.rs` 600-1350) | throttle mutex with a time stamp; a call's await point | `buy_only`, `buy_then_sell`, buy+sell bundle | guard kept over sleep and send; lost replies; a dozen error exits | nobody leaks the guard; spacing; refunds only of what did not go out |
| opportunity buffer (`native_buffer.rs`) | ring and metrics under a mutex | `submit`, `pick_best` | full ring, expiry at the pick, removal from the middle | nothing lost uncounted; order of submission; fresh offers stay |
| native worker and executor (`native_executor.rs`) | interval; permits; cached balance, tips, lookup tables | `spawn_worker`, `maybe_execute` | runs longer than the interval; concurrent runs on cached values; a torn tip row | no burst after a slow run; tip below the gain and off the reserve; counters account for every run |
| Jupiter executor (`executor.rs` 1400-3150) | `in_flight`, `last_attempt`, `back_off_until`, running net, metrics | `maybe_execute_inner`, `_one_way`, flash and atomic variants, pollers | gates read once, then awaits; two lanes; lost answers; pollers book later | senders serialised; overshoot of a gate bounded; a booking is a landing |
| account stream (`scout.rs` 409-663, 1194-1598; `crates/arb-stream`) | pool, vault and oracle stores; two channels; session task, transaction consumer; back-off | `bootstrap`, sessions of WSS and LaserStream, `handle_update`, reconnect | channel closes when the last sender goes; snapshot before subscription; predicted updates | sessions end and reconnect; nothing outlives its session; store does not go back |
| routes and quotes (`crates/arb-pathfinder`, `crates/arb-dex-*`, `scout.rs` 1600-2110) | the two stores, tallies | parsers, path enumeration, quoting, size search, dispatch | mixed states of two vaults; rounding; truncation; account types told apart by size | a quote promises no more than the pool's curve; every cycle evaluated and dispatched once |
| transaction assembly (`raw_tx.rs`, `v0_tx.rs`, `alt.rs`, `signing.rs`, `bin/alt-deploy.rs`) | caches of tables and blockhash; the table being filled | compile, serialise, sign; extend a table | a table grows while transactions refer to it; batches sent twice | the validator reads the instructions that were meant |
| Jito client, tip floor, correlator (`crates/arb-jito`, `jito_correlator.rs`) | block engines; five atomics; pending and logged items | `send_bundle` with failover, `bundle_status`, `apply`; record, judge | a lost reply and a second engine; torn reads; late blocks | one taker per answered bundle; a tip from a published row; nothing lost between queue and file |
| TPU sender (`tpu_send.rs`) | node addresses, leader schedule | refresher, send | two requests around an epoch's end | packets go to coming leaders |
| position monitors, detectors (`scout.rs` 1357-1492, 2115-3065) | held positions; open positions of the Jupiter sniper; marks | trending and copy-trade detectors, take-profit/timeout monitor, graduation trade, launch sniper | list locked over RPC calls; failed reads taken for zero; check before spawn | one entry per mint; floor and limits hold; what was bought is sold |
| Solend scan (`scout.rs`, `solend_liq.rs`) | set of obligations under water, a `Notify` | wait, fetch, attempt, roll forward | pings while it scans | no update missed; one attempt per crossing |
| Kamino hunter (`bin/kamino-hunter.rs`, `kamino_liq.rs`, `kamino_scope.rs`) | prices, overrides, obligation vector and its index, queue | tick, fire workers, rebuild | vector and index replaced under two locks; a full queue; four price conversions | the newest price, every obligation of the reserve; verdicts are the program's |
| MarginFi hunter (`bin/marginfi-hunter.rs`, `marginfi_liq.rs`) | bank cache, accounts, index, prices, marks: five fair `RwLock`s | two feeds, tick, workers, refresh | a read lock held over the network; writers that wait | nobody waits in a circle |
| flash loans (`crates/arb-flashloan` and five callers) | none | lay out a transaction around a loan | the index of the other half, computed by hand | the envelope closes whatever the options |
| PumpSwap watcher (`bin/pumpswap-watcher.rs`, `arb-stream/src/shred.rs`) | marks, channel, dead letters, program cache | two feeds, consumer, task per pool | bounded channel; concurrent tasks of one mint | only graduations traded; no pool lost before the consumer |
| treasury (`scout.rs`) | one wallet, peak, last alert | wallet watch, SOL accumulator, cross-stable worker | reads that are not atomic; swaps not awaited | a sweep leaves its threshold; alerts have a cause; a drain is seen |
| Telegram commands (`telegram_commands.rs`) | offset | poll, handle | failed requests, restarts | no command skipped or repeated in a run |
| shred observer, statistics, configuration, on-chain `assert-min-profit`, one-shot tools in `bin/` | little or none | texts, I/O, one transaction | - | - |

Interactions: the stream handler evaluates routes and submits them to the buffer, the
worker picks one and runs the native executor; the handler, the polling
workers and the Jupiter sniper call the Jupiter executor; both executors assemble, sign and send
through the shared clients; the transaction consumer
spawns pump.fun buys, each a task of its own, and the position monitor sells. The
hunters and the watcher are processes of their own which share the libraries and the wallet.

`PROJECT.json` lists every part with its status, and every hazard at the
line where it bites, with the properties that cover it.

## 2. Modules

| module | models | composed from |
|---|---|---|
| `SnipeBudget` | the budget object, its file, its callers reduced to reserve, send, release, return | - |
| `BuyLedger` | abstract: a set of booked mints under a cap, and the bought ones among them | - |
| `PumpBuy` | the three budgeted buys with the shared throttle, lost replies, restarts | extends `SnipeBudget` |
| `OpportunityBuffer` | the ring, its order, expiry and metrics | - |
| `NativeWorker` | the interval loop that picks and runs | extends `OpportunityBuffer` |
| `TipFloor` | the five atomics of the tip percentiles and their poller | - |
| `NativeExecutor` | concurrent runs of the native executor: permits, gates, tip, send paths, pollers | extends `TipFloor` |
| `Executor` | the gates, mutex, back-off, pollers and metrics of the Jupiter executor | - |
| `Delivery` | the lanes a signed transaction leaves by, and what is booked of it | - |
| `TxAssembly` | compilation, bytes and signatures; lookup tables that grow meanwhile; the validator's reading | - |
| `FlashTx` | every layout of a flash loan, run instruction by instruction | - |
| `PoolStream` | reconnect loop, bootstrap, sessions, channels, transaction consumer, one pool | - |
| `Quoters` | what each of eight kinds of pool pays; no state | - |
| `Evaluation` | the scout's main task: stores, cycles, size search, tallies, dispatch | extends `Quoters` |
| `BundleClient`, `BundleCorrelator`, `TpuSender` | the three clients | - |
| `PumpPositions` | two detectors, their buy tasks, the position monitor | - |
| `GraduationTrade`, `LaunchSniper` | the trade after a graduation; the Jupiter-routed sniper | - |
| `SolendScan`, `CommandPoll` | the scan loop; the command listener | - |
| `KaminoHunter`, `KaminoHealth` | the hunter's order of events; its verdicts against the program's | - |
| `MarginFiHunter` | prices, index, marks, locks and attempts of the MarginFi hunter | - |
| `PumpSwapWatcher` | both feeds, the consumer, the gates of a pool's task | - |
| `Treasury` | three loops and a thief over one wallet | - |
| `Money_proofs` | theorems and proofs | `SnipeBudget`, `PumpBuy`, `Treasury` |
| `Native_proofs` | the same | `OpportunityBuffer`, `NativeWorker`, `TipFloor`, `NativeExecutor` |
| `Executor_proofs` | the same | `Executor`, `Delivery` |
| `FlashTx_proofs` | the same | `FlashTx` |
| `Quoters_proofs` | the same | `Quoters`, `Evaluation` |
| `Clients_proofs` | the same | `BundleClient`, `TpuSender`, `BundleCorrelator`, `CommandPoll`, `PoolStream`, `TxAssembly` |
| `PumpTraders_proofs` | the same | `LaunchSniper`, `PumpPositions`, `PumpSwapWatcher` |
| `Hunters_proofs` | the same | `SolendScan`, `MarginFiHunter`, `KaminoHunter` |
| `MC*` | constants for TLC, and the composition of the parts one run explores | |

How state and actions correspond to the code:

* **SnipeBudget.** `mem` is `PersistedState`; `TryReserve` and `Release` are what
  the two functions do under the mutex, `snap` the string they serialise there.
  `OpenFile` and `WriteFile` are the two effects of `std::fs::write`: the file is
  the snapshot at its start and its length, so that a shorter text written over
  a longer one is unreadable, as it is for `serde_json`. `Load` is `load_or_default`:
  what cannot be parsed is a fresh start. `Weight` gives a set of mints its price in
  lamports; it is a constant so that theorems hold for every price.
* **PumpBuy.** `at[t]` is the await point at which the call of task `t` is suspended:
  curve, build, queue and throttle (the mutex `pump_buy_last_send`), sending, poll,
  sell. `Accept` is the remote side taking the request; `ReplyError` may follow it
  (the reply was lost) or not. `stamp` is the age of `*last_guard`, `gap` the true time since
  the last request left.
* **OpportunityBuffer, NativeWorker.** A call under the buffer's mutex is one
  action. Offers carry a number in order of submission, which stands for their place
  in the `VecDeque`. `NextDeadline` is tokio's interval with
  `MissedTickBehavior::Skip`. Ties of `max_by_key` go to the later offer.
* **TipFloor, NativeExecutor.** `tipFloor` is the array of atomics, stored one per step;
  `SizeTip` reads them at any point of that. A call moves through its await points by one action
  each (`LegacyGates`, `LegsQuoted`, `SizeTip`, `StartSend`, `SendEnds`, `StatusPolled`), or leaves
  by `Leave`, which counts it. `BalancePolled` is the cache of the wallet's balance; the wallet itself
  pays tips when a transaction lands.
* **Executor.** One action per gate, so that others run between any two of them.
  `since` and `backOff` are ages and remaining times of the instants in the code.
  `pending` holds the bundles whose pollers run; `Land` books the promised net result
  in `running_net_usdc` as the code does, in one sum for all tokens.
* **Delivery.** `mode` is how an attempt is configured to send; `step` where its call is, `side` the lane
  of a spawned task, `poller` the polls left. `delivered` is what a lane passed on, answered or not;
  `ran` what the chain executed: one signature once. Two signatures over one plan are two transactions.
* **TxAssembly.** `Compile` is the account ordering of the three layouts, `Serialize` and `FromJupiter`
  the bytes with their compact lengths, `SignOwn` and `SignSlot` the two ways to sign; `Parse` is the
  validator. A key, a signature and the blockhash are one element of the wire each. The caches keep what
  they once read; `DeploySend`, `ExtendLands` and the rest are the tool that fills a table, with
  confirmations it missed.
* **FlashTx.** `LayOut` is what each caller pushes, in its order; an action runs the next instruction as
  its program would, as far as the code relies on it: the index in the data must name the other half,
  reserves and obligations must be refreshed, balances must be there. A swap pays its minimum or more.
* **PoolStream.** An account state is the slot it was written in and the slots of
  its last price and liquidity change, enough to tell a stale, a mixed and a current
  state apart. `AllSendersGone` is `rx.recv()` returning `None`: the queue is
  empty and neither the session task nor the transaction consumer holds a sender.
  `config` is read once at the start, as the environment is.
* **Quoters, Evaluation.** One quoter per venue, with and without price impact; prices are
  fractions, and a quote is rounded down where the code converts to `u64`. Account parsers try the venues in
  the code's order and go by size and discriminator (`ParseOrder`, `Claims`). `TakePool` and `TakeVault` store
  an update; `TakePool` also finds the cycles through the pool (`job`), and `EvaluateRoute` prices, records and
  dispatches them one by one. The next update waits for that; the chain (`Swap`) and the price of SOL do not, and
  the two vaults of a pool arrive one after the other.
* **BundleClient.** `engine` is the one being asked; an engine may take the bundle and lose its reply.
  **TpuSender.** `getEpochInfo` and `getLeaderSchedule` are two steps of the refresher; slots pass between
  them. **BundleCorrelator.** Push, take the due ones, judge each by its block, write.
* **PumpPositions.** A buy task's await points are the states of `Outstanding` jobs; the monitor
  holds the list from `Wake` to the end of its pass, over every read and sale, as the code does.
  The wallet and the curve are the chain's: buys and sales land or die later.
* **LaunchSniper, GraduationTrade, SolendScan, CommandPoll.** One action per await of the loop; a launch
  stands for its signature and its mint, an obligation for its side of the water, an update for its number.
* **KaminoHunter.** `universe` is the vector, `indexed` the one the index was built from: a rebuild
  replaces one and then the other. `Picks` is the selection of a tick, `Queued` what `try_send` took.
  **KaminoHealth.** `Refreshed` and `ChainVerdict` are the program (external); `ViaCachedRatios` is the scan's
  and the hunter's estimate from the values the program cached.
* **MarginFiHunter.** Every `RwLock` is fair: `MayReadCache` says a reader waits behind a waiting writer. A
  worker keeps the bank cache from `WorkerReadsCache` to the end of its attempt. `HealthOf` is
  `compute_health`, which skips balances it has no price for.
* **PumpSwapWatcher.** A pool's task goes gate by gate (`ProbeAge`, `ProbeDepth`, `FindOwner`, `Quote`,
  `Build`, `Simulate`, `Send`); dead letters and the cache of token programs are shared by tasks.
* **Treasury.** `WatchReadsSol` and `WatchReadsUsdc` are the two reads of a round; a read that fails is
  zero. A swap that was sent lands at any time of its blockhash's life, or never.

Operators named `Mut...` are plausible bugs (a dropped guard, a wrapped sum, a
kept sender). They are used by no specification: each replaces the operator
below it to show that a property would notice.

## 3. Runs

All passing runs join parts that share no state: `part` names the component a behaviour is
about and the others keep their initial state, so that one run explores each of them
without their product.

Passing runs:

| run | bounds | shows |
|---|---|---|
| `Trade_run` | budget: 2 tasks, 3 mints of 1, 2, 3 lamports, cap 4, 64-bit maximum 5, 1 restart at any step, failing disk, crash between truncating and writing. Evaluation: 2 markets of 4 pools, 8 venues, 2 swaps, sizes 4..60. Assembly: 5 jobs over the three layouts, 2 tables, a tool with 2 tries | `LedgerBalanced`, `OneHolderPerMint`, `SpentWithinCap`, `NeverBoughtTwice`; implements `BuyLedger`; `EvaluationSound`; `AssemblySound` |
| `Money_run` | buys: 2 tasks, 2 mints, interval 2, 1 restart, failing disk, the two kinds that use Helius Sender. Treasury: 3 setups of loops and wallet, thief, 1 misread, 1 stable swap, time 10 | call, reservation and throttle move together (`CallsSound`); successful sends spaced; `ImplementsLedger` still holds though replies get lost; `TreasurySound`: sweeps leave the threshold, every alert has a cause, a thief goes unnoticed only behind another alert |
| `Progress_run` | buys: 2 tasks, all three kinds, interval 1. Stream: WSS, LaserStream with and without transactions, 3 sessions, 3 writes, channels of 2 | under fairness every queued call gets its turn and the stream reconnects; nothing outlives its session; the store does not go back |
| `Executor_gates` | gates: 2 tasks, both kinds, live unsampled, live and dry with 1-in-2 sampling, 4 calls, back-offs of 1 and 2 ticks. Delivery: 2 attempts, 8 modes, 1 poll. MarginFi: 2 accounts, 3 banks, a price that falls and recovers, 1 refresh, 1 refetch | serialised senders, bounded overshoot of back-off and loss cap, counters; `DeliverySound`, and `BookedNetAddsUp` for the sum it books; `NobodyStandsStill` |
| `Loops_run` | positions: 2 mints, 2 KOLs, 3 buys seen, time 2. Graduation: 2 polls to the index, 3 to the exit. Sniper: 3 launches of 2 creators, limit 1. Solend: 2 obligations, 4 scans. Commands: 3 updates, 1 restart. Watcher: 3 pools, channel of 1, 3 modes | `EntriesTracked` (floor, one entry per mint, monitor), `BoughtIsSold`, `SniperBounds`, `ScanSound`, `CommandsOnce`, `WatchSound` |
| `Engine_run` | worker: ring of 2, 5 submissions, time 7, interval = age limit = 2. Executor: 2 calls, 1 or 2 permits, fast and legacy. 3 block engines; 3 correlated items; epochs of 4 slots, fanout 2; Kamino: 2 reserves and obligations, 1 rebuild, and a verdict over 3 reserves; every flash layout with up to 2 setup and 1 cleanup instructions; 1,077,380 states | `RingSound`, `FreshOnesStay`, `PicksSound`, `NativeLedger`, `TipIsSound`, `OneTakerPerReply`, `CorrelatorLedger`, `SendsToLeaders`, `HunterSound`, `VerdictsSound`, `EnvelopesClose` |

Why the bounds are enough: two tasks make every pair of steps interleave, and the
overshoot bounds are attained with two; the third mint is what the cap of 4 refuses after a
release; the maximum of 5 is passed by a saturating sum; a ring of two has a
middle that a pick can empty while it is full; five submissions fill it twice; interval 2
and times to 7 leave room for a run over two missed ticks; three writes and three sessions
put an update of one session behind the snapshot of the next; three engines let a refusal follow a
lost reply and another engine follow both; four-slot epochs end inside a refresh; two tables share a
key, so that a second batch moves what a cached table says; four pools close cycles of two and three hops
through each other; a channel of one is full while a task lists; one rebuild replaces the vector while
a tick is at work; a lock needs two holders and a waiter to close a circle, and the MarginFi part has
tick, worker, refresh and both feeds.
`CHECK_DEADLOCK FALSE` is set everywhere because the counters, clocks and numbers of sessions are
bounded and the bounded system stops.

Runs that find a disagreement between the code and what it says of itself (one
property each, listed with quotations under `findings`):

| run | what happens |
|---|---|
| `SnipeBudget_reorder` | two snapshots are written in the wrong order; the file misses a buy that was sent, and a restart forgets it. With `CrashMidWrite = TRUE` one task suffices: a stop between truncating and writing leaves an empty file |
| `PumpBuy_refund` | a bundle whose reply is lost is refunded although it was taken |
| `PoolStream_wss_tx` | with WSS and the transaction stream enabled the loop never reconnects |
| `NativeExecutor_sender` | with Helius Sender the static ceiling takes the tip below the minimum the floor was just raised to |
| `KaminoHealth_pyth` | a price that came by Pyth is divided by the mint's decimals once too often, so that a tick's verdict is not the program's |
| `Treasury_drain` | a false alert, raised by a failed read or by a swap of the bot itself, mutes the watch for as long as it remembers the peak; a thief who comes then is never reported |

Smaller disagreements seen while modelling and not given a run:

* Budget and executor: the cap counts reservations, while a buy may cost 120 % of its own
  (`pump_sniper_budget.rs:4`); the daily loss cap is never reset, and in the native executor only gains are
  booked against it; the safety notes of `executor.rs` speak of one bundle in flight, the mutex covers the send only;
  the flash-bundle path counts two sends for one transaction and never books a landing that came by Sender
  (`executor.rs:3066-3081`); Solend liquidations are never booked as landed; the atomic pump.fun path sells
  80 % of the tokens for at least 151 % of the SOL in the transaction that bought them (`executor.rs:516,528`).
* Buffer and stream: the header of `native_buffer.rs` says a pick discards the rest, the code keeps the fresh ones (and
  the module does); a capacity of 0, which the configuration accepts, makes the ring hold one offer;
  the reconnect back-off is reset by every bootstrap; a write between the snapshot and the
  subscription is missed (`wss.rs:11`).
* Clients: `bundle_client.rs:141-142` says any other error fails fast, the code below tries the next engine;
  `shred.rs:94-105` never resets its back-off.
* Quotes: `quote_via_pyth` divides before it scales (Obric `quoter.rs:277-286`), though its comment promises no loss of
  precision; `quote_pmm_swap` computes K where its comment says it reads it (342-346);
  the search of `find_optimal_size` (`scout.rs:1829-1834`) may miss a range that pays, and a route whose search fails is
  skipped where the comment at 1676-1679 says it falls back to the probe; the AMM v4 and CLMM
  parsers go by size only; the native smart probe ignores the rate of AMM legs (`native_executor.rs:1061`); the ungated
  mode can dispatch a route twice.
* Liquidations: the native Solend envelope hard-codes borrow index 6 (`native_executor.rs:1304`), right for one
  token between; the executor's hard-codes 3 (`executor.rs:1978`), wrong when no price instruction is pushed;
  `executor.rs:2094` swaps collateral into the debt mint, which need not be the flash mint; the MarginFi
  plan repays by a deposit (`marginfi_liq.rs:602`) which `marginfi.rs:706-711` says reverts (`EnvelopesClose`
  names these three and the refresh below); only 90 % of the estimated seizure is swapped back;
  `attempt_liquidation` sizes by the whole debt but repays one bank (`marginfi_liq.rs:750`); `compute_health` skips balances without
  a price; Solend's `live_ratio` compares with prices of the start.
* Kamino hunter: a comment has it drop the oldest when the queue is full (`kamino-hunter.rs:410`); it drops the newest, which it
  has marked as tried by then (395-406), so that nobody tries it for 30 s; the comment at 96-98 says the fire worker reads the overrides, it does
  not; `active_oracle` does not know the "nu11…" sentinel
  (`kamino_liq.rs:284-294`); legs are picked by raw amounts (799-803); the refresh of
  an obligation names reserves that were not refreshed when the cache lacks them (938-960).
* MarginFi hunter: a refetched oracle carries the slot of the shred and may overwrite a newer price
  (`marginfi-hunter.rs:229`); a refresh installs prices older than the ticks it overtook (413, 434).
* PumpSwap watcher: the native shred task has no warm-up though the comment has one (`pumpswap-watcher.rs:346-348`);
  the age of a pool looks at one page of 1000 signatures (428-447); a transient failure of a simulation or an owner
  probe bars a mint for ever (885-892), and one of an age or depth request its pool.
* Wallet: the watch counts neither USDT nor CASH, takes SOL at $100, reads twice, and counts a failed read as
  zero; a position whose balance could not be read is given up as sold (`scout.rs:2205-2210`); sweeps are not awaited, so that a slow one can be
  repeated and take a stable below its threshold.
* `alt-deploy` may append a batch twice, and `ALT_SKIP_BATCHES` assumes the chunking of the run before.

## 4. Fairness

* `FairBuySpec`: time passes (`WF Tick`); the holder of the throttle goes on (`WF
  HolderStep`), because a sleeping task wakes up and the sending client has a
  timeout of 15 s (`crates/arb-jito/src/bundle_client.rs:76`); a queued task is not overtaken for
  ever (`SF LockThrottle`), because tokio's mutex is FIFO. Nothing is assumed of the awaits on
  the RPC client, which has no timeout.
* `FairStreamSpec`: the consumer of updates, the transaction consumer and the
  reconnect loop are scheduled. Nothing is assumed of the network: sessions need not
  open, end or fail. `handle_update` is taken to return.
* `Progress_run` gives each of its parts the fairness of that part's own specification.
* `GradFairness` in `Loops_run`: the quotes of the graduation monitor end, by the timeout of their client (`jupiter.rs:71`), and
  the attempt to sell begins. The quotes may fail for ever, and nothing is assumed of the buy, whose requests have no timeout.

All other runs are about safety and assume none. `NobodyStandsStill` is the safety form of progress for the MarginFi
hunter: whoever waits for a lock waits for somebody who runs. What runs may still be a request to the RPC
node, which has no timeout.

## 5. Proofs

52 theorems in 8 modules, 50 of them listed in `PROJECT.json` (the other two are the invariant of `Executor` and its
types). They hold for every value of the constants that meets the `ASSUME` of the module; what is assumed beyond that is said below. In each
part the invariant was checked by TLC first, then proved as: it holds at the start, every action keeps it, it gives the properties.

* **SnipeBudget** (`Money_proofs`): the invariant joins the types, `LedgerBalanced` (which needs that
  `Weight` is additive and that a live reservation's mint is in the set, so that the saturating
  subtraction never saturates), `OneHolderPerMint` and `SpentWithinCap`'s
  strengthening: the booked price is within the cap and, if no reservation is handed back after its buy was
  sent (`RefundsUnsent`), every mint sent in this run is still booked (`SentStaysBooked`). From
  it: the dedup, the cap, `NeverBoughtTwice`, and that the specification implements
  `BuyLedger` (each action is a ledger step or a stutter). The last three assume `~RefundAfterSend`.
* **PumpBuy** (`Money_proofs`): `BuyInv` adds to that invariant `CallsSound` (what each await point implies), the order of the
  calls past the throttle, and that the stamp is no older than the last send.
  Every step of a call is a step of the budget or a stutter, so the budget's lemmas carry over and the buys
  implement `BuyLedger`. `CallsImplementLedger` and `RefundsAreSafe` assume that no call takes the
  bundle path; with it `PumpBuy_refund` is the counterexample.
* **Treasury** (`Money_proofs`): `MoneyIsWatched` proves `TreasurySound` if the alert window spans two rounds of the watch and a tick
  (`AlertWindow >= 2 * WatchEvery + 1`; the defaults are 300 s and 30 s, `scout.rs:2035,2064`). `MoneyInv`: the wallet covers a
  sweep under way beside its threshold, unless another swap was sent meanwhile; two sweeps of a coin are an interval apart, so that
  the life of a blockhash bounds their number (`FewSweeps`). `WatchInv`: the watch is never late; what it remembers of the wallet was
  true at the reading, or something happened to the wallet since that reading was due (`SamplesTrue`), which is what an alert can be traced
  to; and after a drain either there is an alert no older than a window before it, which is what may mute the watch, or the watch still holds a sample from before it and its
  next round, or the one after, will compare with it (`DrainNoticed`). The bound on the window is needed there: that sample must not
  leave the window before.
* **OpportunityBuffer, NativeWorker** (`Native_proofs`), for a capacity of at least one: order and types are inductive together; `OldestExists` (a ring that is
  not empty has an oldest offer, by well-foundedness) gives the size after an eviction. `FreshOnesStay` is
  proved as an action property. `PicksHold`, for an age limit up to the interval: the deadline is a multiple of the interval, the last pick lies
  before it, and while no run is late the clock has not passed it; every offer a pick passed over is
  then an interval older than the next deadline, so it has expired when the next pick comes. The ring's invariant is
  kept because a pick of the worker is a pick of the buffer.
* **TipFloor, NativeExecutor** (`Native_proofs`): `FloorInv` says that each stored percentile comes from some published row, though not all from
  one: enough for the tip. `CallInv` follows the money. A tip past the gate is below the gain and the ceiling (`TipsSized`); what the polled balance does not show yet
  is pending or was decided since the poll (`UnaccountedInv`), so that the wallet lost at most one ceiling for each such call (`PolledInv`); and the tips outstanding
  leave the reserve, less a ceiling for each call that overlapped (`ReserveInv`); the module assumes a wallet that starts with its reserve. It is inductive in the form `Covered`, where one tip is known exactly and the
  others by the ceiling, because the gate compared only one of them with the balance. `LedgerBalances` counts calls by place.
* **Executor** (`Executor_proofs`): `IInv` joins types and `SendersSerialised` with the inductive forms of the
  two overshoot bounds: while a gate is shut, what was sent since and the calls still past it
  are together at most the tasks; while it is open, nothing counts as late. The bound on `lateLoss`
  alone is not inductive, because nothing would stop further calls past the
  gate. `CallLedger` is inductive with the types: `Moves` counts tasks by place
  as one of them moves, and every action either skips, goes on or ends a call.
* **Delivery** (`Executor_proofs`): `SentOnce` proves `DeliverySound` for any number of attempts and any mix of modes. `DelInv` says that one signature runs once
  (`RunOnce`); what the place of a call, of its side lane and of its poller say of what was delivered, run and booked (`DelStage`); and that
  the counters are the sizes of the books, and of a part of the sends. `NetAddsUp` proves `BookedNetAddsUp`: the sum of the nets over a
  finite set does not depend on the order in which it is taken, by induction over the number of members (`NatInSet`: a set of numbers that
  holds 0 and the successor of each member holds them all), so booking one attempt adds its net and nothing else.
* **FlashTx** (`FlashTx_proofs`): `FlashLoansClose` proves `EnvelopesClose` for every job (any lists of setup, cleanup and hop instructions, any
  set of mints, any amounts): a transaction fails by slippage, for lack of money only where a swap paid less than quoted or at the repayment, or in one of
  the four layouts known to fail, which `EnvelopesClose` names. First the shape, layout by layout (`NativeShaped` ... `SandwichShaped`, joined in
  `LayOutShaped`): A, the halves of the loan, C between them, E; the index in one half names the other, though it was patched after C was known.
  Then the run. `FlashInv` says that the transaction has such a shape and that, until it fails: MarginFi knows where its end is while the loan is open
  (`FlashKept`); nobody but the MarginFi plan owes more than the loan (`DebtKept`); what was refreshed is fresh (`FreshKept`); no account is overdrawn
  and the next instruction to spend finds what it spends, unless something paid less than was quoted (`WalletKept`, `Fed`).
* **PoolStream** (`Clients_proofs`): `SendersInOrder` ties the phase of the loop to who holds a sender, and with it nothing is left
  when a bootstrap starts. Where no prediction is written, the store is no newer than the queue, the queue no newer
  than the wire, the wire no newer than the chain, each in the order of slots (`Pipeline`).
* **TxAssembly** (`Clients_proofs`): `MessagesMeanWhatTheySay` proves `AssemblySound` for every job, table and batch. A job is assumed to fit in a packet
  (`JobsAssumption`: the callers skip what is over 1232 bytes, `pumpswap-watcher.rs:864`), so that its lengths fit in two bytes of the compact form. Three steps. What `Serialize` writes,
  `Parse` reads back: `Stands` says that a list is at a place of the wire, and each reader stops where its list ends (`VecAt`, `AllIxAt`, `AllLookupAt`,
  `ParseBack`); the slot of Jupiter's own message becomes the same wire (`SlotIsOwn`). The order in which `Compile` numbers the accounts is the order in which
  the runtime loads them: groups and tables list each key once (`Enumerates`, `OrderIs`), and the group decides the rights (`RightsOfGroups`). And `AsmInv`
  carries it from the reading of a table to the landing: a table still begins with what any cache holds of it (`ViewsBegin`) and with what the signed
  transaction was compiled against (`SignedBegins`), because it only grows at its end. `BatchesLand`: every batch before the tool's is in the table.
* **Clients** (`Clients_proofs`): an engine that took the bundle and is not the one that answered is one whose reply was lost, for any number of engines;
  packets go to leaders of the slots asked for, for every schedule and length of epoch, unless a refresh straddled an epoch's end; the correlator
  loses nothing between its queue and its file (`EachJudgedOnce`: what was submitted is queued, due, dropped or logged, in numbers, for any delay and capacity); the listener
  runs each command once, because its batches are an interval of numbers that starts after the offset.
* **Traders** (`PumpTraders_proofs`): the sniper's two bounds (every task under way was counted when it passed the check). `EntriesCorrect`: if every outstanding buy landed, the
  wallet would keep its floor but for the overlap (`FloorInv`); a mint is booked before its position is on its way to the list, and is on its way
  or in the list once (`EntryInv`). `WatcherSound`: what the place of a task says of the gates it passed (`GatesPassed`); who still trades a mint that became a
  dead letter was under way then (`DeadLetters`); a listed pool is in the snapshot, pushing, queued or watched (`Listings`); and a pool is in one
  counter or undecided (`PoolsCounted`).
* **Hunters** (`Hunters_proofs`): the scan's two promises, inductive with what the last scan saw. `HunterNeverStuck`: the readers of the bank cache are exactly the tick
  and the workers past their lock (`ReadersKnown`), and whoever holds it can step, for any number of workers. `KaminoSound`: the effective price
  is the newest of override and cache; the slots of a tick are those the present index gives unless a rebuild came
  between (`SlotsInv`); a queued obligation was marked as fired no earlier (`FiredInv`). `SetToSeqs` enters by what it is, the orders of a set,
  so the proof covers ties in any order.
* **Quoters** (`Quoters_proofs`): results about the quotes themselves, for every reserve, fee and amount. A swap there and back never gains
  (`NoVenuePaysItsReturn`), and a larger input never pays less (`MoreInMoreOutAnywhere`), at any of the eight venues. For the pools whose quote takes
  no power (`NoGainThereAndBack`, `MoreInMoreOut`, `ReservesKeepTheirProduct`) both come from `Worth`: a quote is below its input at the spot
  price, the two directions of which are inverse. DLMM joins them because a power of its step is positive and its two directions are
  inverse; `Power` is a recursive function, whose values are found by induction over a set of numbers. Obric subtracts one rounded share of its
  constant from another and may pay a unit too much; that a unit less, sold back, fetches no gain follows from the convexity of the curve (`CurveSlope`, `CurveBack`).
  The proof showed that the unit is needed only on what is sold back, and `QuoteHolds` asks for that much. The quote with price impact is below the one
  without, so the native executor never expects more than the scout ranked by (`ImpactOnlyLowers`); an input that `max_safe_input` lets through
  stays in the window of prices the quote is trusted in, whatever the two roundings did (`SafeInputStays`).
* **Evaluation** (`Quoters_proofs`): `TaskIsSound` proves `EvaluationSound` for every market, history, hop limit, size range and fee, and
  `QuotesAlwaysHold` its part on quotes at every step instead of only when nothing is outstanding. Assumed is what the parsers guarantee
  (`WorldsAssumption`: types, two mints and two vaults per pool, a venue and vaults that a swap does not change, no account of two pools) and a fee unit above one.
  `EvInv`: the last update queued for an account says what the chain says, and an account with none queued is known as the chain has it
  (`NewestIsCurrent`, with `ChainKnown`, `UpdatesKnown`, `StoreKnown`, `VaultsKnown`, `FeesKnown` for who may be in which map), which is `CaughtUp` once the queues
  are empty; what the task still has to evaluate are routes of the store (`JobKnown`), so that a route's pools can be looked up; the counters are numbers
  that add up (`EachCounted`); and the last record pays (`RecordsPay`). For that, an evaluation that ends in a profit had every quote `Worth` its input, so that the
  product of the edge prices along the route is above one, and the size search never leaves its range. `WalkFindsCycles`: the walk hop by hop gives
  the cycles `IsCycle` writes down, by induction over the length of a walk.

Only model-checked, and why:

* Liveness (`QueuedCallsSend`, `SessionsReconnect`, `BoughtIsSold`) is out of the prover's reach.
* The library's induction rules take a predicate as a parameter and cannot be used; sets of numbers take their place (`NatInSet`), at the
  price of one such set per recursive definition. Not done that way: `VerdictsSound`
  (folds over the slots of an obligation; it holds up to roundings that the instance is too small to show).

## 6. Not modelled

* Byte offsets of account layouts, instruction discriminators, derived addresses, base64, logging, Telegram texts: no
  state and no order of events to get wrong.
* `f64`: a price is an exact fraction until the code converts to an integer, so that errors of the last bit are not seen. The OpenBook store
  is left out, and the gain of a record is not claimed for routes over Obric, whose curve is an estimate.
* Kamino: debt interest between two refreshes; more than one elevation group. The composite ratio is exact only when all
  collaterals share a threshold, and the model gives them one.
* Sizing and quoting inside an attempt of the Jupiter executor; the unbudgeted `pump_fun_buy` and the atomic
  pump.fun path; the oracle store and the whale branch of the stream; the one-shot liquidation tools of Solend and Kamino.
* `assert-min-profit` compares two numbers on chain; the configuration is read once and is the modules' constants;
  the one-shot tools in `bin/` send one transaction and exit.
* The chain and the services: only what the code sees of them (a request taken, a reply, a write, a landing).

## 7. Plan

In this order:

1. The one-shot liquidations of Solend and Kamino: which leg they pick, how much they repay, and what the program allows
   (`close factor`, caps, dust), on top of `KaminoHealth` and `FlashTx`.
2. The attempt of the Jupiter executor: two quotes, the sized probe, the tip taken from the gain, joined with `Executor`
   and `Delivery` in one specification.
3. The atomic and unbudgeted pump.fun paths in `PumpBuy`; the oracle store and the whale branch in `PoolStream`.
4. Proofs: a refinement of `Delivery` to a ledger of sends that land at most once; `VerdictsSound` with its roundings as bounds.
