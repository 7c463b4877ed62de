-------------------------- MODULE BundleCorrelator --------------------------
(***************************************************************************)
(* The correlator of logged opportunities with the blocks they were seen   *)
(* in (src/crates/arb-scout/src/jito_correlator.rs): a queue of pending    *)
(* items, a loop that takes the ones older than its delay and judges each  *)
(* by the transactions of its block, a log file and four counters.         *)
(***************************************************************************)
EXTENDS Integers, Sequences, FiniteSets, FiniteSetsExt

CONSTANTS
  Blocks,        \* blocks getBlock may answer: sets of transactions
  CorrDelay,     \* delay (30 s), in polls of the loop
  MaxCorrItems,  \* bound: opportunities
  MaxCorrTime    \* bound

VARIABLES
  corrNow, corrPending, corrReady, \* clock; queue of submit times; the batch taken from it
  corrLog,       \* outcomes written to the file
  corrMetrics,   \* opps_correlated_total, opps_lost_to_competitor, opps_uncontested, tips
  corrSubmitted, \* bound
  corrDropped    \* history: items whose record could not be written

corrVars == <<corrNow, corrPending, corrReady, corrLog, corrMetrics, corrSubmitted, corrDropped>>

\* A transaction: does it touch one of our pools, the tips it transfers to Jito
\* tip accounts, does it name Jupiter, did it fail?
BlockTx == [ours : BOOLEAN, tips : SUBSET (0..2), jupiter : BOOLEAN, failed : BOOLEAN]

ASSUME CorrAssumption == Blocks \subseteq SUBSET BlockTx /\ CorrDelay \in Nat

Largest(S) == IF S = {} THEN 0 ELSE Max(S)

Competes(tx) == ~tx.failed /\ tx.ours /\ Largest(tx.tips) > 0

BlockScan(block) ==
  LET rivals == {tx \in block : Competes(tx)}
  IN  [maxTip |-> Largest({Largest(tx.tips) : tx \in rivals}),
       bundles |-> Cardinality(rivals),
       viaJupiter |-> Cardinality({tx \in rivals : tx.jupiter})]

Outcomes == {"lost", "uncontested", "skipped"}

CorrInit ==
  /\ corrNow = 0 /\ corrPending = <<>> /\ corrReady = <<>>
  /\ corrLog = [o \in Outcomes |-> 0]
  /\ corrMetrics = [total |-> 0, lost |-> 0, uncontested |-> 0, tips |-> 0]
  /\ corrSubmitted = 0 /\ corrDropped = 0

CorrSubmit ==
  /\ corrSubmitted < MaxCorrItems
  /\ corrSubmitted' = corrSubmitted + 1
  /\ corrPending' = Append(corrPending, corrNow)
  /\ UNCHANGED <<corrNow, corrReady, corrLog, corrMetrics, corrDropped>>

Aged(t) == corrNow - t >= CorrDelay

\* The loop wakes and takes the aged items off the front of the queue, up to the
\* first that is not.
CorrWake ==
  /\ corrReady = <<>>
  /\ \E n \in DOMAIN corrPending :
       /\ \A i \in 1..n : Aged(corrPending[i])
       /\ n < Len(corrPending) => ~Aged(corrPending[n + 1])
       /\ corrReady' = SubSeq(corrPending, 1, n)
       /\ corrPending' = SubSeq(corrPending, n + 1, Len(corrPending))
  /\ UNCHANGED <<corrNow, corrLog, corrMetrics, corrSubmitted, corrDropped>>

Take ==
  /\ corrReady # <<>>
  /\ corrReady' = Tail(corrReady)
  /\ UNCHANGED <<corrNow, corrPending, corrSubmitted>>

\* A block that is missing or cannot be fetched is written as skipped and not counted.
CorrSkip(written) ==
  /\ Take
  /\ corrLog' = IF written THEN [corrLog EXCEPT !["skipped"] = @ + 1] ELSE corrLog
  /\ corrDropped' = IF written THEN corrDropped ELSE corrDropped + 1
  /\ UNCHANGED corrMetrics

Verdict(scan) == IF scan.maxTip > 0 THEN "lost" ELSE "uncontested"

MutCountsFirst(written, scan) ==
  [corrMetrics EXCEPT !.total = @ + 1, ![Verdict(scan)] = @ + 1, !.tips = @ + scan.maxTip]

\* A record that cannot be written ends the item before the counters.
CountersAfter(written, scan) ==
  IF written
  THEN [corrMetrics EXCEPT !.total = @ + 1, ![Verdict(scan)] = @ + 1, !.tips = @ + scan.maxTip]
  ELSE corrMetrics

CorrJudge(block, written) ==
  LET scan == BlockScan(block) IN
  /\ Take
  /\ corrMetrics' = CountersAfter(written, scan)
  /\ corrLog' = IF written THEN [corrLog EXCEPT ![Verdict(scan)] = @ + 1] ELSE corrLog
  /\ corrDropped' = IF written THEN corrDropped ELSE corrDropped + 1

CorrTick ==
  /\ corrNow < MaxCorrTime
  /\ corrReady = <<>> /\ corrPending # <<>> => ~Aged(Head(corrPending))
  /\ corrNow' = corrNow + 1
  /\ UNCHANGED <<corrPending, corrReady, corrLog, corrMetrics, corrSubmitted, corrDropped>>

CorrNext ==
  \/ CorrSubmit
  \/ CorrWake
  \/ \E written \in BOOLEAN : CorrSkip(written)
  \/ \E block \in Blocks, written \in BOOLEAN : CorrJudge(block, written)
  \/ CorrTick

CorrSpec == CorrInit /\ [][CorrNext]_corrVars

---------------------------------------------------------------------------
\* The report divides the counters by each other: they agree with the file and
\* with each other, whatever records could not be written.
CountersMatchLog ==
  /\ corrMetrics.total = corrMetrics.lost + corrMetrics.uncontested
  /\ corrMetrics.lost = corrLog["lost"] /\ corrMetrics.uncontested = corrLog["uncontested"]
  /\ corrMetrics.tips >= corrMetrics.lost

\* No opportunity disappears: it waits, is being judged, is in the file, or its
\* record could not be written; and none is judged before its block is old enough.
EachJudgedOnce ==
  /\ corrSubmitted = Len(corrPending) + Len(corrReady) + corrDropped
                     + corrLog["lost"] + corrLog["uncontested"] + corrLog["skipped"]
  /\ \A i \in DOMAIN corrReady : corrNow - corrReady[i] >= CorrDelay

\* The books of the correlator, whole.
CorrelatorLedger == CountersMatchLog /\ EachJudgedOnce
=============================================================================
