---------------------------- MODULE PumpPositions ----------------------------
(***************************************************************************)
(* Positions in pump.fun tokens, from the transaction that makes a mint    *)
(* interesting to the sale (src/crates/arb-scout/src/scout.rs): the        *)
(* transaction consumer feeds two detectors, copy-trade and trending; each *)
(* spawns buy tasks that check the wallet, call pump_fun_buy_only and push *)
(* a position; run_pump_fun_tp_sl walks the list under its mutex, over     *)
(* every RPC call it makes, and sells at a target or after a timeout.      *)
(*                                                                         *)
(* The chain is what the code sees of it: requests are taken or not, land  *)
(* or die later, and replies get lost. Prices are free.                    *)
(***************************************************************************)
EXTENDS Integers, FiniteSets, Sequences

CONSTANTS
  PosMints, Kols, NoKol,
  MinBuys, TrendWindow, Cooldown,    \* AXIOM_TRENDING_*
  MinKols, KolWindow,                \* COPY_TRADE_*
  EstCost, MinReserve, WalletStarts,  \* lamports of a buy with fees, the floor, what the wallet may start with
  HoldTimeout,                       \* PUMP_FUN_TIMEOUT_SECS
  Bags,                              \* mints the wallet has accounts of at the start
  BootScan,                          \* SELL_ALL_PUMP_ON_BOOT
  MaxBuysSeen, MaxPosTime            \* bounds: transactions and clock

\* The floor is about a wallet that starts with its reserve; from one that does
\* not, nothing is ever bought.
ASSUME PositionAssumption ==
  /\ EstCost \in Nat \ {0} /\ {MinReserve, HoldTimeout} \subseteq Nat
  /\ WalletStarts \subseteq Nat /\ \A n \in WalletStarts : n >= MinReserve
  /\ IsFiniteSet(PosMints) /\ Bags \subseteq PosMints

VARIABLES
  clock,
  recentBuys,  \* trending_state: mint -> times of the buys in the window
  lastSnipe,   \* already_sniped: mint -> time of the last trending snipe (-1: none)
  kolBuys,     \* copy_trade_signals: mint -> signals
  copied,      \* copy_trade_sniped
  jobs,        \* the spawned buy tasks, in order
  booked,      \* mints pump_fun_buy_only has reserved and sent (the budget's set)
  held,        \* held_pump_positions
  monitor,     \* the TP/SL loop: where it is and which position it looks at
  wallet, tokens,     \* the chain: lamports and mints owned
  buysOut, salesOut,  \* the chain: transactions taken and not yet decided
  buysSeen,    \* bound
  untracked,   \* history: mints whose buy was taken and whose reply was lost
  overlap      \* history: most buys outstanding when a balance check passed

detectVars == <<recentBuys, lastSnipe, kolBuys, copied, buysSeen>>
jobVars    == <<jobs, booked, untracked, overlap>>
chainVars  == <<wallet, tokens, buysOut, salesOut>>
posVars    == <<clock, detectVars, jobVars, held, monitor, chainVars>>

Job      == [mint : PosMints, at : {"check", "buy", "push", "done"}]
Position == [mint : PosMints, boughtAt : Int, sold : BOOLEAN, seeded : BOOLEAN]

PosInit ==
  /\ clock = 0 /\ buysSeen = 0
  /\ recentBuys = [m \in PosMints |-> <<>>]
  /\ lastSnipe = [m \in PosMints |-> -1]
  /\ kolBuys = [m \in PosMints |-> {}]
  /\ copied = {} /\ jobs = <<>> /\ booked = {}
  /\ held = <<>>
  /\ monitor = [at |-> "boot", pos |-> 0]
  /\ wallet \in WalletStarts /\ tokens = Bags
  /\ buysOut = {} /\ salesOut = {} /\ untracked = {} /\ overlap = 0

---------------------------------------------------------------------------
\* Detection: one transaction of the stream, a pump.fun buy of mint m, signed
\* by the followed wallet k or by nobody followed. Copy-trade looks first.

\* A wallet already among the signals does not renew its time.
Signals(m, k) ==
  LET kept == {s \in kolBuys[m] : clock - s.time < KolWindow}
  IN  IF k = NoKol THEN kolBuys[m]
      ELSE IF \E s \in kept : s.kol = k THEN kept
      ELSE kept \cup {[kol |-> k, time |-> clock]}

Confluence(m, k) ==
  /\ k # NoKol
  /\ Cardinality({s.kol : s \in Signals(m, k)}) >= MinKols
  /\ m \notin copied

Window(m) == Append(SelectSeq(recentBuys[m], LAMBDA t : clock - t <= TrendWindow), clock)

Trending(m) ==
  /\ Len(Window(m)) >= MinBuys
  /\ lastSnipe[m] < 0 \/ clock - lastSnipe[m] > Cooldown

NewJob(m) == [mint |-> m, at |-> "check"]

SeeBuy(m, k) ==
  /\ buysSeen < MaxBuysSeen
  /\ buysSeen' = buysSeen + 1
  /\ kolBuys' = [kolBuys EXCEPT ![m] = Signals(m, k)]
  /\ copied' = IF Confluence(m, k) THEN copied \cup {m} ELSE copied
  /\ recentBuys' = [recentBuys EXCEPT ![m] = Window(m)]
  /\ lastSnipe' = IF Trending(m) THEN [lastSnipe EXCEPT ![m] = clock] ELSE lastSnipe
  /\ jobs' = jobs \o (IF Confluence(m, k) THEN <<NewJob(m)>> ELSE <<>>)
                  \o (IF Trending(m) THEN <<NewJob(m)>> ELSE <<>>)
  /\ UNCHANGED <<clock, booked, untracked, overlap, held, monitor, chainVars>>

---------------------------------------------------------------------------
\* A buy task.

JobGoes(j, where) == jobs' = [jobs EXCEPT ![j].at = where]

Outstanding ==
  Cardinality({j \in DOMAIN jobs : jobs[j].at = "buy"}) + Cardinality(buysOut)

AboveFloor(bal) == bal >= EstCost + MinReserve

\* get_balance(..).unwrap_or(0): a balance that cannot be read is no balance.
CheckReserve(j, bal) ==
  /\ jobs[j].at = "check"
  /\ IF AboveFloor(bal)
     THEN /\ JobGoes(j, "buy")
          /\ overlap' = IF Outstanding > overlap THEN Outstanding ELSE overlap
     ELSE JobGoes(j, "done") /\ UNCHANGED overlap
  /\ UNCHANGED <<clock, detectVars, booked, untracked, held, monitor, chainVars>>

\* Ok(None), or an error before the request left: nothing booked, nothing held.
BuySkipped(j) ==
  /\ jobs[j].at = "buy"
  /\ JobGoes(j, "done")
  /\ UNCHANGED <<clock, detectVars, booked, untracked, overlap, held, monitor, chainVars>>

MutNoDedup(m) == TRUE

MayBook(m) == m \notin booked

\* The request was made: taken or refused, answered or not. Once it has left,
\* pump_fun_buy_only keeps its reservation.
BuySends(j, taken, answered) ==
  LET m == jobs[j].mint IN
  /\ jobs[j].at = "buy"
  /\ MayBook(m)
  /\ booked' = booked \cup {m}
  /\ buysOut' = IF taken THEN buysOut \cup {m} ELSE buysOut
  /\ untracked' = IF taken /\ ~answered THEN untracked \cup {m} ELSE untracked
  /\ JobGoes(j, IF taken /\ answered THEN "push" ELSE "done")
  /\ UNCHANGED <<clock, detectVars, overlap, held, monitor, wallet, tokens, salesOut>>

Locked == monitor.at \notin {"boot", "sleep"}

Bought(j) == [mint |-> jobs[j].mint, boughtAt |-> clock, sold |-> FALSE, seeded |-> FALSE]

\* held.lock().await.push(..): waits while the monitor walks the list.
LockAndPush(j) == ~Locked /\ held' = Append(held, Bought(j))

PushPosition(j) ==
  /\ jobs[j].at = "push"
  /\ JobGoes(j, "done")
  /\ LockAndPush(j)
  /\ UNCHANGED <<clock, detectVars, booked, untracked, overlap, monitor, chainVars>>

---------------------------------------------------------------------------
\* The take-profit and timeout monitor.

Seed(m) == [mint |-> m, boughtAt |-> clock - (HoldTimeout + 1), sold |-> FALSE, seeded |-> TRUE]

\* One position for every token account whose mint is not in the list yet.
BootScanned(found) ==
  LET new == {m \in found : \A i \in DOMAIN held : held[i].mint # m}
  IN  CHOOSE s \in [1..Cardinality(new) -> {Seed(m) : m \in new}] :
        {s[i] : i \in DOMAIN s} = {Seed(m) : m \in new}

BootScanStep(found) ==
  /\ monitor.at = "boot"
  /\ monitor' = [monitor EXCEPT !.at = "sleep"]
  /\ held' = IF BootScan THEN held \o BootScanned(found) ELSE held
  /\ UNCHANGED <<clock, detectVars, jobVars, chainVars>>

Wake ==
  /\ monitor.at = "sleep" /\ held # <<>>
  /\ monitor' = [at |-> "curve", pos |-> 1]
  /\ UNCHANGED <<clock, detectVars, jobVars, held, chainVars>>

NextPosition ==
  IF monitor.pos < Len(held) THEN [at |-> "curve", pos |-> monitor.pos + 1]
                             ELSE [at |-> "sleep", pos |-> 0]

Open == held[monitor.pos]

\* A sold position is passed over, and so is one whose curve cannot be read.
ReadCurve(readable) ==
  /\ monitor.at = "curve"
  /\ monitor' = IF ~Open.sold /\ readable THEN [monitor EXCEPT !.at = "balance"]
                                          ELSE NextPosition
  /\ UNCHANGED <<clock, detectVars, jobVars, held, chainVars>>

Marked == [held EXCEPT ![monitor.pos].sold = TRUE]

\* get_token_account_balance(..).unwrap_or(0): a failed read shows none.
SeesNone(read) == ~read \/ Open.mint \notin tokens

Overdue == clock - Open.boughtAt > HoldTimeout

\* The price is free, so the target may or may not be reached.
ReadTokens(read, target) ==
  /\ monitor.at = "balance"
  /\ IF SeesNone(read)
     THEN held' = Marked /\ monitor' = NextPosition
     ELSE /\ held' = held
          /\ monitor' = IF target \/ Overdue THEN [monitor EXCEPT !.at = "sell"]
                                             ELSE NextPosition
  /\ UNCHANGED <<clock, detectVars, jobVars, chainVars>>

\* pump_fun_sell: an Ok marks the position, an Err is tried again next round.
Sell(taken, answered) ==
  /\ monitor.at = "sell"
  /\ held' = IF taken /\ answered THEN Marked ELSE held
  /\ salesOut' = IF taken THEN salesOut \cup {Open.mint} ELSE salesOut
  /\ monitor' = NextPosition
  /\ UNCHANGED <<clock, detectVars, jobVars, wallet, tokens, buysOut>>

---------------------------------------------------------------------------
\* The chain decides what it has taken.

BuyLands(m) ==
  /\ m \in buysOut
  /\ buysOut' = buysOut \ {m}
  /\ wallet' = wallet - EstCost
  /\ tokens' = tokens \cup {m}
  /\ UNCHANGED <<clock, detectVars, jobVars, held, monitor, salesOut>>

BuyDies(m) ==
  /\ m \in buysOut
  /\ buysOut' = buysOut \ {m}
  /\ UNCHANGED <<clock, detectVars, jobVars, held, monitor, wallet, tokens, salesOut>>

SaleDecided(m, landed) ==
  /\ m \in salesOut
  /\ salesOut' = salesOut \ {m}
  /\ tokens' = IF landed THEN tokens \ {m} ELSE tokens
  /\ UNCHANGED <<clock, detectVars, jobVars, held, monitor, wallet, buysOut>>

PosTick ==
  /\ clock < MaxPosTime
  /\ clock' = clock + 1
  /\ UNCHANGED <<detectVars, jobVars, held, monitor, chainVars>>

PosNext ==
  \/ \E m \in PosMints, k \in Kols \cup {NoKol} : SeeBuy(m, k)
  \/ \E j \in DOMAIN jobs :
       \/ \E bal \in {wallet, 0} : CheckReserve(j, bal)
       \/ BuySkipped(j)
       \/ \E taken, answered \in BOOLEAN : BuySends(j, taken, answered)
       \/ PushPosition(j)
  \/ \E found \in {tokens, {}} : BootScanStep(found)
  \/ Wake
  \/ \E readable \in BOOLEAN : ReadCurve(readable)
  \/ \E read, target \in BOOLEAN : ReadTokens(read, target)
  \/ \E taken, answered \in BOOLEAN : Sell(taken, answered)
  \/ \E m \in PosMints : BuyLands(m) \/ BuyDies(m)
  \/ \E m \in PosMints, landed \in BOOLEAN : SaleDecided(m, landed)
  \/ PosTick

PosSpec == PosInit /\ [][PosNext]_posVars

---------------------------------------------------------------------------
PosTypeOK ==
  /\ clock \in 0..MaxPosTime
  /\ recentBuys \in [PosMints -> Seq(Nat)] /\ lastSnipe \in [PosMints -> Int]
  /\ copied \subseteq PosMints /\ booked \subseteq PosMints /\ untracked \subseteq PosMints
  /\ jobs \in Seq(Job) /\ held \in Seq(Position)
  /\ Locked => monitor.pos \in DOMAIN held
  /\ wallet \in Int /\ tokens \subseteq PosMints
  /\ buysOut \subseteq PosMints /\ salesOut \subseteq PosMints

\* The SOL reserve is a floor except for buys that overlap: each balance check
\* leaves out at most the buys outstanding when it was made, and only they
\* take the wallet below the reserve, by one price each.
FloorOvershoot == wallet >= MinReserve - EstCost * overlap

\* However many tasks the two detectors spawn for one mint, over cooldowns and
\* restarts of windows, one of them at most enters a position.
OneEntryPerMint ==
  \A i, j \in DOMAIN held :
    held[i].mint = held[j].mint /\ ~held[i].seeded /\ ~held[j].seeded => i = j

\* A token bought in this run is on the list the monitor walks, or its task is
\* about to put it there: no buy whose reply arrived is forgotten, though the
\* list is locked over the monitor's RPC calls.
BuysAreTracked ==
  \A m \in (tokens \cup buysOut) \ (Bags \cup untracked) :
    \/ \E i \in DOMAIN held : held[i].mint = m
    \/ \E j \in DOMAIN jobs : jobs[j].mint = m /\ jobs[j].at = "push"

\* Entering a position, whole: above the floor, once per mint, and under the
\* monitor's eye.
EntriesTracked == FloorOvershoot /\ OneEntryPerMint /\ BuysAreTracked
=============================================================================
