------------------------------ MODULE TipFloor ------------------------------
(***************************************************************************)
(* The poller of Jito's tip percentiles and the tip computed from them     *)
(* (src/crates/arb-jito/src/tip_floor.rs). apply() stores the percentiles  *)
(* one by one with relaxed ordering while executors read them; a failed    *)
(* poll keeps what is there.                                               *)
(***************************************************************************)
EXTENDS Integers, Sequences

CONSTANTS
  Percentiles,  \* the published ones, a sequence in the order of the stores
  FallbackPct,  \* p75, taken for an unknown percentile
  StarterRow,   \* values before the first poll
  PolledRows,   \* rows Jito may answer: functions from percentile to lamports
  MaxTipPolls   \* bound

VARIABLES
  tipFloor,   \* the atomics: percentile -> lamports
  tipRow,     \* the row being applied
  tipStored,  \* how many of its percentiles are stored
  tipPolls,   \* bound
  published   \* history: rows applied so far, the starter row among them

tipVars == <<tipFloor, tipRow, tipStored, tipPolls, published>>

AllStored == Len(Percentiles)

ASSUME TipAssumption ==
  /\ {StarterRow} \cup PolledRows \subseteq [DOMAIN StarterRow -> Nat]
  /\ Percentiles \in Seq(DOMAIN StarterRow)
  /\ FallbackPct \in DOMAIN StarterRow

TipInit ==
  /\ tipFloor = StarterRow /\ tipRow = StarterRow
  /\ tipStored = AllStored
  /\ tipPolls = 0
  /\ published = {StarterRow}

\* One poll at a time: the loop waits for the tick, the answer and apply().
PollAnswered(row) ==
  /\ tipStored = AllStored
  /\ tipPolls < MaxTipPolls
  /\ tipPolls' = tipPolls + 1
  /\ tipRow' = row
  /\ tipStored' = 0
  /\ published' = published \cup {row}
  /\ UNCHANGED tipFloor

SourceOf(k) == Percentiles[k]

StorePercentile ==
  /\ tipStored < AllStored
  /\ tipStored' = tipStored + 1
  /\ tipFloor' = [tipFloor EXCEPT ![Percentiles[tipStored']] = tipRow[SourceOf(tipStored')]]
  /\ UNCHANGED <<tipRow, tipPolls, published>>

TipNext == (\E row \in PolledRows : PollAnswered(row)) \/ StorePercentile

---------------------------------------------------------------------------
\* The tip.

AtMost(a, b)  == IF a <= b THEN a ELSE b
AtLeast(a, b) == IF a >= b THEN a ELSE b

PercentileOf(row, pct) == row[IF pct \in DOMAIN row THEN pct ELSE FallbackPct]

PercentileLamports(pct) == PercentileOf(tipFloor, pct)

TipCap(profit) == (profit * 90) \div 100

NoTip == -1

MutFloorWins(profit, pct, floor) ==
  IF profit = 0 THEN NoTip ELSE AtLeast((profit * pct) \div 100, floor)

DynamicTip(profit, pct, floor) ==
  IF profit = 0 \/ floor > TipCap(profit) THEN NoTip
  ELSE AtMost(AtLeast((profit * pct) \div 100, floor), TipCap(profit))
=============================================================================
