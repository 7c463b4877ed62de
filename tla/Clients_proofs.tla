---------------------------- MODULE Clients_proofs ----------------------------
(***************************************************************************)
(* What the clients at the edge of the bot promise, for any number of      *)
(* block engines, any schedule of leaders, any blocks and messages: the    *)
(* Jito bundle client, the TPU sender, the correlator of what was logged   *)
(* with the blocks it was seen in, and the poller of Telegram commands;    *)
(* and the account stream, for every backend, every capacity of its        *)
(* channels and any number of sessions: they leave nothing behind, and     *)
(* without predicted updates a cached pool follows the chain forward.      *)
(*                                                                         *)
(* And the assembly of transactions, for every job that fits in a packet,  *)
(* every set of lookup tables and every way they grow: first that what     *)
(* Serialize writes, Parse reads back; then that the order of the accounts *)
(* Compile numbers is the order in which the runtime loads them; then that *)
(* a table still begins with what was read of it.                          *)
(***************************************************************************)
EXTENDS BundleClient, TpuSender, BundleCorrelator, CommandPoll, PoolStream, TxAssembly,
  FiniteSetTheorems, SequenceTheorems, NaturalsInduction, WellFoundedInduction, TLAPS

\* While send_bundle walks the list, only lost replies hide a bundle that was
\* taken; when it is over, so does at most the one engine that ended it.
BundleInv ==
  /\ engine \in Engines /\ takenBy \subseteq Engines
  /\ bundleAt = "sending" => takenBy \subseteq lostReplies
  /\ bundleAt = "refused" /\ lastReply \in {"limited", "error"} => takenBy \subseteq lostReplies
  /\ \E e \in Engines : takenBy \ lostReplies \subseteq {e}

\* It holds before the first engine is asked.
LEMMA BundleInitInv == BundleInit => BundleInv
  BY EnginesAssumption DEF BundleInit, BundleInv, Engines

\* Whatever an engine does with the bundle and its reply.
LEMMA PostBundleInv ==
  ASSUME BundleInv,
         NEW reply \in {"ok", "limited", "lost", "error", "garbled"}, NEW taken \in BOOLEAN,
         PostBundle(reply, taken)
  PROVE  BundleInv'
<1>1. engine \in Engines /\ engine' \in Engines
  BY EnginesAssumption DEF BundleInv, PostBundle, NextEngine, Engines
<1>2. takenBy' \subseteq takenBy \cup {engine} /\ takenBy \subseteq lostReplies
      /\ lostReplies \subseteq lostReplies'
  BY DEF BundleInv, PostBundle
<1>3. reply \in {"limited", "lost", "error"} => takenBy' \subseteq lostReplies'
  BY <1>2 DEF PostBundle
<1>4. bundleAt' = "sending" => reply \in {"limited", "lost"}
  BY DEF PostBundle, FailsOver
<1>5. lastReply' = reply
  BY DEF PostBundle
<1>6. takenBy' \ lostReplies' \subseteq {engine}
  BY <1>2
<1>7. takenBy' \subseteq Engines
  BY <1>1, <1>2 DEF BundleInv
<1> QED  BY <1>1, <1>3, <1>4, <1>5, <1>6, <1>7 DEF BundleInv

\* Every step keeps it.
LEMMA BundleNextInv == BundleInv /\ [BundleNext]_bundleVars => BundleInv'
<1> SUFFICES ASSUME BundleInv, [BundleNext]_bundleVars PROVE BundleInv'
  OBVIOUS
<1>1. CASE BundleLands
  BY <1>1 DEF BundleLands, BundleInv
<1>2. CASE AskStatus
  BY <1>2, EnginesAssumption DEF AskStatus, BundleInv, Engines
<1>3. ASSUME NEW reply \in {"ok", "lost"}, NEW sees \in BOOLEAN, StatusReply(reply, sees)
      PROVE  BundleInv'
  <2>1. engine' \in Engines
    BY <1>3, EnginesAssumption DEF StatusReply, NextEngine, BundleInv, Engines
  <2>2. bundleAt' \in {"asking", "known", "unknown"}
    BY <1>3 DEF StatusReply, NextEngine
  <2>3. UNCHANGED <<takenBy, lostReplies>>
    BY <1>3 DEF StatusReply
  <2> QED  BY <2>1, <2>2, <2>3 DEF BundleInv
<1>4. CASE UNCHANGED bundleVars
  BY <1>4 DEF bundleVars, BundleInv
<1> QED  BY <1>1, <1>2, <1>3, <1>4, PostBundleInv DEF BundleNext

\* bundle_client.rs, send_bundle: whatever engines refuse, lose or garble, a
\* bundle is taken twice only through a reply that got lost, for any number of
\* engines; and a clean refusal means that nobody else has it.
THEOREM OneTaker == BundleSpec => []OneTakerPerReply
<1>1. BundleInv => OneTakerPerReply
  <2> SUFFICES ASSUME BundleInv PROVE Cardinality(takenBy \ lostReplies) <= 1
    BY DEF BundleInv, OneTakerPerReply
  <2>1. PICK e \in Engines : takenBy \ lostReplies \subseteq {e}
    BY DEF BundleInv
  <2>2. IsFiniteSet({e}) /\ Cardinality({e}) = 1
    BY FS_Singleton
  <2>3. Cardinality(takenBy \ lostReplies) <= Cardinality({e})
    BY <2>1, <2>2, FS_Subset
  <2> QED  BY <2>2, <2>3
<1> QED  BY <1>1, BundleInitInv, BundleNextInv, PTL DEF BundleSpec

---------------------------------------------------------------------------
\* The caches of the TPU sender: what is known of nodes is true, a schedule is
\* true unless one was read across the end of an epoch, and the slot it will be
\* laid out from is the start of the epoch it was learnt in.
TpuInv ==
  /\ slot \in Nat /\ shifted \in BOOLEAN
  /\ refresher.first = refresher.epoch /\ refresher.first \in Int
  /\ \A l \in DOMAIN nodes : nodes[l] = TpuAddress[l]
  /\ ~shifted => \A s \in DOMAIN schedule : s \in Int /\ schedule[s] = LeaderAt[s]
  /\ refresher \in [at : {"nodes", "epoch", "schedule"}, first : Int, epoch : Int]

\* It holds before the first refresh.
LEMMA TpuInitInv == TpuInit => TpuInv
<1> SUFFICES ASSUME TpuInit PROVE TpuInv
  OBVIOUS
<1>1. DOMAIN NoEntries = {}
  BY DEF NoEntries
<1>2. slot \in Nat /\ shifted \in BOOLEAN
  BY DEF TpuInit
<1>3. /\ refresher.first = refresher.epoch /\ refresher.first \in Int
      /\ refresher \in [at : {"nodes", "epoch", "schedule"}, first : Int, epoch : Int]
  BY DEF TpuInit
<1> QED  BY <1>1, <1>2, <1>3 DEF TpuInit, TpuInv

\* Every step keeps it: only the refresher touches the schedule.
LEMMA TpuNextInv == TpuInv /\ [TpuNext]_tpuVars => TpuInv'
<1> SUFFICES ASSUME TpuInv, [TpuNext]_tpuVars PROVE TpuInv'
  OBVIOUS
<1>1. ASSUME NEW ok \in BOOLEAN, NEW known \in SUBSET DOMAIN TpuAddress, RefreshNodes(ok, known)
      PROVE  TpuInv'
  BY <1>1 DEF RefreshNodes, TpuInv
<1>2. ASSUME NEW ok \in BOOLEAN, RefreshEpoch(ok) PROVE TpuInv'
  <2>1. FirstSlot(slot) \in Int /\ FirstSlot(slot) = EpochStart(slot)
    BY TpuAssumption DEF TpuInv, FirstSlot, EpochStart
  <2> QED  BY <1>2, <2>1 DEF RefreshEpoch, TpuInv
<1>3. ASSUME NEW ok \in BOOLEAN, RefreshSchedule(ok) PROVE TpuInv'
  <2>1. /\ refresher'.first = refresher'.epoch /\ refresher'.first \in Int
        /\ refresher' \in [at : {"nodes", "epoch", "schedule"}, first : Int, epoch : Int]
    BY <1>3 DEF RefreshSchedule, TpuInv
  <2>2. slot' \in Nat /\ nodes' = nodes /\ shifted' \in BOOLEAN
    BY <1>3 DEF RefreshSchedule, TpuInv
  <2>3. ASSUME ~shifted' PROVE \A s \in DOMAIN schedule' : s \in Int /\ schedule'[s] = LeaderAt[s]
    <3>1. CASE ok
      <4>1. EpochStart(slot) = Base /\ Base \in Int
        BY <1>3, <2>3, <3>1 DEF RefreshSchedule, TpuInv, Base
      <4>2. schedule' = [s \in Base..(Base + EpochSlots - 1) |-> LeaderAt[EpochStart(slot) + s - Base]]
        BY <1>3, <3>1 DEF RefreshSchedule
      <4> HIDE DEF Base, EpochStart
      <4>3. ASSUME NEW s \in Base..(Base + EpochSlots - 1) PROVE EpochStart(slot) + s - Base = s
        BY <4>1, TpuAssumption
      <4> QED  BY <4>1, <4>2, <4>3, TpuAssumption
    <3>2. CASE ~ok
      BY <1>3, <2>3, <3>2 DEF RefreshSchedule, TpuInv
    <3> QED  BY <3>1, <3>2
  <2> QED  BY <2>1, <2>2, <2>3 DEF TpuInv
<1>4. CASE NewSlot
  BY <1>4 DEF NewSlot, TpuInv
<1>5. CASE UNCHANGED tpuVars
  BY <1>5 DEF tpuVars, TpuInv
<1> QED  BY <1>1, <1>2, <1>3, <1>4, <1>5 DEF TpuNext

\* tpu_send.rs: for any chain and any fanout, packets go only to leaders of the
\* slots asked for, unless a refresh straddled the end of an epoch.
THEOREM PacketsReachLeaders == TpuSpec => []SendsToLeaders
<1>1. TpuInv => SendsToLeaders
  BY DEF TpuInv, SendsToLeaders, LeaderTpus, NextLeaders
<1> QED  BY <1>1, TpuInitInv, TpuNextInv, PTL DEF TpuSpec

---------------------------------------------------------------------------
\* Types of the queue, the batch and the counters, with what is promised of them.
CorrInv ==
  /\ corrNow \in Int /\ corrPending \in Seq(Int) /\ corrReady \in Seq(Int)
  /\ corrLog \in [Outcomes -> Int] /\ corrSubmitted \in Int /\ corrDropped \in Int
  /\ corrMetrics \in [total : Int, lost : Int, uncontested : Int, tips : Int]
  /\ CorrelatorLedger

\* The largest of the tips a transaction pays is one of them, or zero.
LEMMA LargestOf ==
  ASSUME NEW S, S \subseteq 0..2
  PROVE  Largest(S) \in 0..2
<1>1. CASE S = {}
  BY <1>1 DEF Largest
<1>2. CASE S # {}
  <2>1. \E x \in S : \A y \in S : x >= y
    <3>1. CASE 2 \in S
      BY <3>1
    <3>2. CASE 2 \notin S /\ 1 \in S
      BY <3>2
    <3>3. CASE 2 \notin S /\ 1 \notin S
      <4>1. \A x \in S : x = 0
        BY <3>3
      <4>2. PICK x \in S : TRUE
        BY <1>2
      <4>3. \A y \in S : x >= y
        BY <4>1, <4>2
      <4> QED  BY <4>3
    <3> QED  BY <3>1, <3>2, <3>3
  <2>2. Max(S) \in S
    BY <2>1 DEF Max
  <2> QED  BY <1>2, <2>2 DEF Largest
<1> QED  BY <1>1, <1>2

\* A block's largest tip; only a tip that was paid makes the opportunity lost.
LEMMA Scanned ==
  ASSUME NEW block \in Blocks
  PROVE  /\ BlockScan(block).maxTip \in Nat
         /\ Verdict(BlockScan(block)) \in {"lost", "uncontested"}
         /\ Verdict(BlockScan(block)) = "lost" => BlockScan(block).maxTip >= 1
<1> DEFINE rivals == {tx \in block : Competes(tx)}
           best == {Largest(tx.tips) : tx \in rivals}
<1>1. best \subseteq 0..2
  <2> SUFFICES ASSUME NEW tx \in block PROVE Largest(tx.tips) \in 0..2
    OBVIOUS
  <2>1. tx.tips \subseteq 0..2
    BY CorrAssumption DEF BlockTx
  <2> QED  BY <2>1, LargestOf
<1>2. BlockScan(block).maxTip = Largest(best)
  BY DEF BlockScan
<1> HIDE DEF best
<1>3. Largest(best) \in 0..2
  BY <1>1, LargestOf
<1> QED  BY <1>2, <1>3 DEF Verdict

\* Nothing is submitted at the start.
LEMMA CorrInitInv == CorrInit => CorrInv
  BY DEF CorrInit, CorrInv, CorrelatorLedger, CountersMatchLog, EachJudgedOnce, Outcomes

\* The batch leaves the front of the queue in its order, aged items only.
LEMMA WakeStep == CorrInv /\ CorrWake => CorrInv'
<1> SUFFICES ASSUME CorrInv, CorrWake PROVE CorrInv'
  OBVIOUS
<1>1. PICK n \in DOMAIN corrPending :
        /\ \A i \in 1..n : Aged(corrPending[i])
        /\ corrReady' = SubSeq(corrPending, 1, n)
        /\ corrPending' = SubSeq(corrPending, n + 1, Len(corrPending))
  BY DEF CorrWake
<1>2. /\ corrPending \in Seq(Int) /\ Len(corrPending) \in Nat /\ n \in 1..Len(corrPending)
      /\ n \in Nat
  BY DEF CorrInv
<1>3. /\ corrReady' \in Seq(Int) /\ corrPending' \in Seq(Int)
      /\ Len(corrReady') = n /\ Len(corrPending') = Len(corrPending) - n
      /\ \A i \in 1..n : corrReady'[i] = corrPending[i]
  <2> DEFINE len == Len(corrPending)
  <2>1. /\ n \in Int /\ len \in Int /\ n + 1 \in Int /\ \A i \in 1..len : corrPending[i] \in Int
        /\ 1..n \subseteq 1..len /\ n + 1..len \subseteq 1..len /\ 1 <= n
        /\ \A i \in 1..n : 1 + i - 1 = i
    BY <1>2
  <2> HIDE DEF len
  <2>2. /\ SubSeq(corrPending, 1, n) \in Seq(Int)
        /\ Len(SubSeq(corrPending, 1, n)) = IF 1 <= n THEN n - 1 + 1 ELSE 0
        /\ \A i \in 1..n - 1 + 1 : SubSeq(corrPending, 1, n)[i] = corrPending[1 + i - 1]
    <3>1. \A i \in 1..n : corrPending[i] \in Int
      BY <2>1
    <3> QED  BY <2>1, <3>1, SubSeqProperties
  <2>3. /\ SubSeq(corrPending, n + 1, len) \in Seq(Int)
        /\ Len(SubSeq(corrPending, n + 1, len)) = IF n + 1 <= len THEN len - (n + 1) + 1 ELSE 0
    <3>1. \A i \in n + 1..len : corrPending[i] \in Int
      BY <2>1
    <3> QED  BY <2>1, <3>1, SubSeqProperties
  <2>4. /\ Len(SubSeq(corrPending, 1, n)) = n
        /\ \A i \in 1..n : SubSeq(corrPending, 1, n)[i] = corrPending[i]
    BY <2>1, <2>2
  <2>5. Len(SubSeq(corrPending, n + 1, len)) = len - n
    BY <1>2, <2>1, <2>3 DEF len
  <2> QED  BY <1>1, <2>2, <2>3, <2>4, <2>5 DEF len
<1>4. corrReady = <<>> /\ UNCHANGED <<corrNow, corrLog, corrMetrics, corrSubmitted, corrDropped>>
  BY DEF CorrWake
<1>5. \A i \in DOMAIN corrReady' : corrNow - corrReady'[i] >= CorrDelay
  <2>1. DOMAIN corrReady' = 1..n
    BY <1>2, <1>3
  <2> QED  BY <1>1, <1>3, <2>1 DEF Aged
<1>6. corrSubmitted = Len(corrPending') + Len(corrReady') + corrDropped
                        + corrLog["lost"] + corrLog["uncontested"] + corrLog["skipped"]
  <2>1. Len(corrReady) = 0
    BY <1>4
  <2>2. {corrDropped, corrLog["lost"], corrLog["uncontested"], corrLog["skipped"]} \subseteq Int
    BY DEF CorrInv, Outcomes
  <2>3. corrSubmitted = Len(corrPending) + Len(corrReady) + corrDropped
                          + corrLog["lost"] + corrLog["uncontested"] + corrLog["skipped"]
    BY DEF CorrInv, CorrelatorLedger, EachJudgedOnce
  <2> QED  BY <1>2, <1>3, <2>1, <2>2, <2>3
<1> QED  BY <1>3, <1>4, <1>5, <1>6 DEF CorrInv, CorrelatorLedger, CountersMatchLog, EachJudgedOnce

\* One item leaves the batch.
LEMMA TakeStep ==
  ASSUME CorrInv, Take
  PROVE  /\ corrReady' \in Seq(Int) /\ Len(corrReady') = Len(corrReady) - 1 /\ Len(corrReady) \in Nat
         /\ Len(corrPending) \in Nat /\ UNCHANGED <<corrNow, corrPending, corrSubmitted>>
         /\ \A i \in DOMAIN corrReady' : corrNow - corrReady'[i] >= CorrDelay
<1>1. corrReady \in Seq(Int) /\ corrReady # <<>> /\ corrReady' = Tail(corrReady)
      /\ corrPending \in Seq(Int)
  BY DEF Take, CorrInv
<1>2. /\ corrReady' \in Seq(Int) /\ Len(corrReady') = Len(corrReady) - 1
      /\ \A i \in DOMAIN corrReady' : i + 1 \in DOMAIN corrReady /\ corrReady'[i] = corrReady[i + 1]
  BY <1>1
<1>3. \A i \in DOMAIN corrReady : corrNow - corrReady[i] >= CorrDelay
  BY DEF CorrInv, CorrelatorLedger, EachJudgedOnce
<1> QED  BY <1>1, <1>2, <1>3 DEF Take

\* One more outcome in the file, or one more record that could not be written.
LEMMA RecordStep ==
  ASSUME CorrInv, Take, NEW o \in Outcomes, NEW written \in BOOLEAN,
         corrLog' = IF written THEN [corrLog EXCEPT ![o] = @ + 1] ELSE corrLog,
         corrDropped' = IF written THEN corrDropped ELSE corrDropped + 1
  PROVE  /\ corrLog' \in [Outcomes -> Int] /\ corrDropped' \in Int /\ EachJudgedOnce'
         /\ corrReady' \in Seq(Int)
<1>1. corrLog \in [Outcomes -> Int] /\ corrDropped \in Int
  BY DEF CorrInv
<1>2. corrLog' \in [Outcomes -> Int] /\ corrDropped' \in Int
  BY <1>1
<1>3. \A l \in Outcomes : corrLog[l] \in Int
         /\ corrLog'[l] = IF written /\ l = o THEN corrLog[l] + 1 ELSE corrLog[l]
  BY <1>1
<1>4. corrDropped' + corrLog'["lost"] + corrLog'["uncontested"] + corrLog'["skipped"]
        = corrDropped + corrLog["lost"] + corrLog["uncontested"] + corrLog["skipped"] + 1
  BY <1>1, <1>3 DEF Outcomes
<1>5. corrSubmitted = Len(corrPending) + Len(corrReady) + corrDropped
                        + corrLog["lost"] + corrLog["uncontested"] + corrLog["skipped"]
  BY DEF CorrInv, CorrelatorLedger, EachJudgedOnce
<1>6. /\ corrLog["lost"] \in Int /\ corrLog["uncontested"] \in Int /\ corrLog["skipped"] \in Int
      /\ corrLog'["lost"] \in Int /\ corrLog'["uncontested"] \in Int /\ corrLog'["skipped"] \in Int
  BY <1>1, <1>2 DEF Outcomes
<1>7. /\ corrReady' \in Seq(Int) /\ Len(corrReady') = Len(corrReady) - 1 /\ Len(corrReady) \in Nat
      /\ Len(corrPending) \in Nat /\ corrPending' = corrPending /\ corrSubmitted' = corrSubmitted
      /\ \A i \in DOMAIN corrReady' : corrNow' - corrReady'[i] >= CorrDelay
  BY TakeStep
<1> DEFINE p == Len(corrPending)
           r == Len(corrReady)
           r1 == Len(corrReady')
           l == corrLog["lost"]
           u == corrLog["uncontested"]
           k == corrLog["skipped"]
           l1 == corrLog'["lost"]
           u1 == corrLog'["uncontested"]
           k1 == corrLog'["skipped"]
<1>8. corrSubmitted' = Len(corrPending') + r1 + corrDropped' + l1 + u1 + k1
  <2>1. p \in Int /\ r \in Int /\ r1 = r - 1
    BY <1>7
  <2>2. l \in Int /\ u \in Int /\ k \in Int /\ l1 \in Int /\ u1 \in Int /\ k1 \in Int
        /\ corrDropped \in Int /\ corrDropped' \in Int
    BY <1>1, <1>2, <1>6
  <2>3. corrSubmitted = p + r + corrDropped + l + u + k
    BY <1>5
  <2>4. corrDropped' + l1 + u1 + k1 = corrDropped + l + u + k + 1
    BY <1>4
  <2>5. Len(corrPending') = p /\ corrSubmitted' = corrSubmitted
    BY <1>7
  <2> HIDE DEF p, r, r1, l, u, k, l1, u1, k1
  <2> QED  BY <2>1, <2>2, <2>3, <2>4, <2>5
<1> QED  BY <1>2, <1>7, <1>8 DEF EachJudgedOnce

\* Three counters of the report move together.
LEMMA ThreeFields ==
  ASSUME NEW m \in [total : Int, lost : Int, uncontested : Int, tips : Int],
         NEW v \in {"lost", "uncontested"}, NEW tip \in Int, NEW after,
         after = [m EXCEPT !.total = @ + 1, ![v] = @ + 1, !.tips = @ + tip]
  PROVE  /\ after.total = m.total + 1 /\ after[v] = m[v] + 1 /\ after.tips = m.tips + tip
         /\ \A w \in {"lost", "uncontested"} \ {v} : after[w] = m[w]
         /\ after \in [total : Int, lost : Int, uncontested : Int, tips : Int]
<1> DEFINE a == [m EXCEPT !.total = @ + 1]
           b == [a EXCEPT ![v] = @ + 1]
<1>1. /\ a \in [total : Int, lost : Int, uncontested : Int, tips : Int]
      /\ a.total = m.total + 1 /\ a.lost = m.lost /\ a.uncontested = m.uncontested
      /\ a.tips = m.tips
  OBVIOUS
<1> HIDE DEF a
<1>2. /\ b \in [total : Int, lost : Int, uncontested : Int, tips : Int]
      /\ b.total = a.total /\ b[v] = a[v] + 1 /\ b.tips = a.tips
      /\ \A w \in {"lost", "uncontested"} \ {v} : b[w] = a[w]
  BY <1>1
<1>3. after = [b EXCEPT !.tips = b.tips + tip]
  <2>1. CASE v = "lost"
    BY <2>1, <1>1 DEF a, b
  <2>2. CASE v = "uncontested"
    BY <2>2, <1>1 DEF a, b
  <2> QED  BY <2>1, <2>2
<1> HIDE DEF b
<1>4. /\ after \in [total : Int, lost : Int, uncontested : Int, tips : Int]
      /\ after.total = b.total /\ after.lost = b.lost /\ after.uncontested = b.uncontested
      /\ after.tips = b.tips + tip
  <2>1. b \in [total : Int, lost : Int, uncontested : Int, tips : Int] /\ b.tips + tip \in Int
    BY <1>2
  <2> QED  BY <2>1, <1>3
<1> QED  BY <1>1, <1>2, <1>4

\* A judged item goes into the file and the counters, or into neither.
LEMMA JudgeStep ==
  ASSUME CorrInv, NEW block \in Blocks, NEW written \in BOOLEAN, CorrJudge(block, written)
  PROVE  CorrInv'
<1> DEFINE scan == BlockScan(block)
           v == Verdict(scan)
           tip == scan.maxTip
<1>1. v \in {"lost", "uncontested"} /\ tip \in Nat /\ (v = "lost" => tip >= 1)
  BY Scanned
<1>2. /\ Take
      /\ corrLog' = IF written THEN [corrLog EXCEPT ![v] = @ + 1] ELSE corrLog
      /\ corrDropped' = IF written THEN corrDropped ELSE corrDropped + 1
      /\ corrMetrics' = IF written
                        THEN [corrMetrics EXCEPT !.total = @ + 1, ![v] = @ + 1, !.tips = @ + tip]
                        ELSE corrMetrics
  BY DEF CorrJudge, CountersAfter
<1> HIDE DEF scan, v, tip
<1>3. /\ corrLog' \in [Outcomes -> Int] /\ corrDropped' \in Int /\ EachJudgedOnce'
      /\ corrReady' \in Seq(Int)
  BY <1>1, <1>2, RecordStep DEF Outcomes
<1>4. /\ corrMetrics \in [total : Int, lost : Int, uncontested : Int, tips : Int]
      /\ corrLog \in [Outcomes -> Int] /\ CountersMatchLog
  BY DEF CorrInv, CorrelatorLedger
<1>5. corrMetrics' \in [total : Int, lost : Int, uncontested : Int, tips : Int] /\ CountersMatchLog'
  <2>1. CASE ~written
    BY <1>2, <1>4, <2>1 DEF CountersMatchLog
  <2>2. CASE written /\ v = "lost"
    <3>1. /\ corrMetrics'.total = corrMetrics.total + 1 /\ corrMetrics'.lost = corrMetrics.lost + 1
          /\ corrMetrics'.uncontested = corrMetrics.uncontested
          /\ corrMetrics'.tips = corrMetrics.tips + tip
          /\ corrMetrics' \in [total : Int, lost : Int, uncontested : Int, tips : Int]
      <4>1. corrMetrics' = [corrMetrics EXCEPT !.total = @ + 1, ![v] = @ + 1, !.tips = @ + tip]
        BY <1>2, <2>2
      <4>2. v \in {"lost", "uncontested"} /\ tip \in Int
        BY <1>1
      <4> QED  BY <1>4, <2>2, <4>1, <4>2, ThreeFields
    <3>2. corrLog'["lost"] = corrLog["lost"] + 1 /\ corrLog'["uncontested"] = corrLog["uncontested"]
      BY <1>2, <1>4, <2>2 DEF Outcomes
    <3>3. /\ corrMetrics.total \in Int /\ corrMetrics.lost \in Int /\ corrMetrics.uncontested \in Int
          /\ corrMetrics.tips \in Int /\ tip >= 1 /\ tip \in Int
      BY <1>1, <1>4, <2>2
    <3> QED  BY <1>4, <3>1, <3>2, <3>3 DEF CountersMatchLog
  <2>3. CASE written /\ v = "uncontested"
    <3>1. /\ corrMetrics'.total = corrMetrics.total + 1 /\ corrMetrics'.lost = corrMetrics.lost
          /\ corrMetrics'.uncontested = corrMetrics.uncontested + 1
          /\ corrMetrics'.tips = corrMetrics.tips + tip
          /\ corrMetrics' \in [total : Int, lost : Int, uncontested : Int, tips : Int]
      <4>1. corrMetrics' = [corrMetrics EXCEPT !.total = @ + 1, ![v] = @ + 1, !.tips = @ + tip]
        BY <1>2, <2>3
      <4>2. v \in {"lost", "uncontested"} /\ tip \in Int
        BY <1>1
      <4> QED  BY <1>4, <2>3, <4>1, <4>2, ThreeFields
    <3>2. corrLog'["lost"] = corrLog["lost"] /\ corrLog'["uncontested"] = corrLog["uncontested"] + 1
      BY <1>2, <1>4, <2>3 DEF Outcomes
    <3>3. /\ corrMetrics.total \in Int /\ corrMetrics.lost \in Int /\ corrMetrics.uncontested \in Int
          /\ corrMetrics.tips \in Int /\ tip >= 0 /\ tip \in Int
      BY <1>1, <1>4
    <3> QED  BY <1>4, <3>1, <3>2, <3>3 DEF CountersMatchLog
  <2> QED  BY <1>1, <2>1, <2>2, <2>3
<1>6. UNCHANGED <<corrNow, corrPending, corrSubmitted>>
  BY <1>2, TakeStep
<1> QED  BY <1>3, <1>5, <1>6 DEF CorrInv, CorrelatorLedger

\* Every step keeps the ledger.
LEMMA CorrNextInv == CorrInv /\ [CorrNext]_corrVars => CorrInv'
<1> SUFFICES ASSUME CorrInv, [CorrNext]_corrVars PROVE CorrInv'
  OBVIOUS
<1>1. CASE CorrSubmit
  <2>1. /\ corrPending \in Seq(Int) /\ corrNow \in Int /\ corrPending' = Append(corrPending, corrNow)
        /\ corrSubmitted' = corrSubmitted + 1
        /\ UNCHANGED <<corrNow, corrReady, corrLog, corrMetrics, corrDropped>>
    BY <1>1 DEF CorrSubmit, CorrInv
  <2>2. corrPending' \in Seq(Int) /\ Len(corrPending') = Len(corrPending) + 1
        /\ Len(corrPending) \in Nat /\ Len(corrReady) \in Nat
    BY <2>1, AppendProperties DEF CorrInv
  <2>3. EachJudgedOnce'
    <3>1. /\ corrSubmitted = Len(corrPending) + Len(corrReady) + corrDropped
                             + corrLog["lost"] + corrLog["uncontested"] + corrLog["skipped"]
          /\ \A i \in DOMAIN corrReady : corrNow - corrReady[i] >= CorrDelay
      BY DEF CorrInv, CorrelatorLedger, EachJudgedOnce
    <3>2. {corrDropped, corrLog["lost"], corrLog["uncontested"], corrLog["skipped"]} \subseteq Int
      BY DEF CorrInv, Outcomes
    <3> DEFINE waits == Len(corrPending)
               ready == Len(corrReady)
               told  == corrLog["lost"] + corrLog["uncontested"] + corrLog["skipped"]
    <3>3. waits \in Int /\ ready \in Int /\ told \in Int /\ corrDropped \in Int
      BY <2>2, <3>2
    <3>4. corrSubmitted = waits + ready + corrDropped + told
      BY <3>1, <3>2, <3>3
    <3>5. /\ Len(corrPending') = waits + 1 /\ Len(corrReady') = ready /\ corrDropped' = corrDropped
          /\ corrLog'["lost"] + corrLog'["uncontested"] + corrLog'["skipped"] = told
          /\ {corrLog'["lost"], corrLog'["uncontested"], corrLog'["skipped"]} \subseteq Int
      BY <2>1, <2>2, <3>2
    <3> HIDE DEF waits, ready, told
    <3>6. corrSubmitted' = Len(corrPending') + Len(corrReady') + corrDropped'
                             + (corrLog'["lost"] + corrLog'["uncontested"] + corrLog'["skipped"])
      BY <2>1, <3>3, <3>4, <3>5
    <3>7. corrSubmitted' = Len(corrPending') + Len(corrReady') + corrDropped'
                             + corrLog'["lost"] + corrLog'["uncontested"] + corrLog'["skipped"]
      BY <3>3, <3>5, <3>6
    <3>8. \A i \in DOMAIN corrReady' : corrNow' - corrReady'[i] >= CorrDelay
      BY <2>1, <3>1
    <3> QED  BY <3>7, <3>8 DEF EachJudgedOnce
  <2>4. CountersMatchLog'
    BY <2>1 DEF CorrInv, CorrelatorLedger, CountersMatchLog
  <2>5. corrSubmitted' \in Int
    BY <2>1 DEF CorrInv
  <2> QED  BY <2>1, <2>2, <2>3, <2>4, <2>5 DEF CorrInv, CorrelatorLedger
<1>2. ASSUME NEW written \in BOOLEAN, CorrSkip(written) PROVE CorrInv'
  <2>1. /\ corrLog' \in [Outcomes -> Int] /\ corrDropped' \in Int /\ EachJudgedOnce'
        /\ corrReady' \in Seq(Int)
    BY <1>2, RecordStep DEF CorrSkip, Outcomes
  <2>2. UNCHANGED <<corrNow, corrPending, corrSubmitted, corrMetrics>>
    BY <1>2, TakeStep DEF CorrSkip
  <2>3. corrLog'["lost"] = corrLog["lost"] /\ corrLog'["uncontested"] = corrLog["uncontested"]
    BY <1>2 DEF CorrSkip, CorrInv, Outcomes
  <2> QED  BY <2>1, <2>2, <2>3 DEF CorrInv, CorrelatorLedger, CountersMatchLog
<1>3. CASE CorrTick
  <2>1. /\ corrNow \in Int /\ corrNow' = corrNow + 1 /\ CorrDelay \in Int
        /\ UNCHANGED <<corrPending, corrReady, corrLog, corrMetrics, corrSubmitted, corrDropped>>
    BY <1>3, CorrAssumption DEF CorrTick, CorrInv
  <2>2. \A i \in DOMAIN corrReady : corrReady[i] \in Int /\ corrNow - corrReady[i] >= CorrDelay
    BY DEF CorrInv, CorrelatorLedger, EachJudgedOnce
  <2>3. \A i \in DOMAIN corrReady : corrNow' - corrReady[i] >= CorrDelay
    BY <2>1, <2>2
  <2> QED  BY <2>1, <2>3 DEF CorrInv, CorrelatorLedger, CountersMatchLog, EachJudgedOnce
<1>4. CASE UNCHANGED corrVars
  BY <1>4 DEF corrVars, CorrInv, CorrelatorLedger, CountersMatchLog, EachJudgedOnce
<1> QED  BY <1>1, <1>2, <1>3, <1>4, WakeStep, JudgeStep DEF CorrNext

\* jito_correlator.rs, run: for any blocks and delay, the counters agree with the
\* file and with each other, and every opportunity submitted waits, is being
\* judged, is in the file, or could not be written; none is judged too early.
THEOREM CorrelatorBalances == CorrSpec => []CorrelatorLedger
<1>1. CorrInv => CorrelatorLedger
  BY DEF CorrInv
<1> QED  BY <1>1, CorrInitInv, CorrNextInv, PTL DEF CorrSpec

---------------------------------------------------------------------------
\* The number the poller looks at next.
NextUp == IF offset = NoOffset THEN confirmed + 1 ELSE offset

\* What is left of the last answer starts there; what this run handled lies
\* below; and an offset says that everything down to what the server has
\* dropped was handled by this run.
PollInv ==
  /\ arrived \in Nat /\ confirmed \in Nat /\ (offset = NoOffset \/ offset \in Nat \ {0})
  /\ \E last \in Int : batch = NextUp .. last
  /\ \A n \in handledRun : n \in Int /\ n < NextUp
  /\ offset = NoOffset => handledRun = {}
  /\ offset # NoOffset => offset > confirmed /\ confirmed + 1 .. offset - 1 \subseteq handledRun
  /\ ~repeated

\* The earliest update of a range is its least number.
LEMMA EarliestIsNext ==
  ASSUME PollInv, batch # {}
  PROVE  Earliest(batch) = NextUp /\ NextUp \in Nat \ {0} /\ NextUp \in batch
<1>1. PICK last \in Int : batch = NextUp .. last
  BY DEF PollInv
<1>2. NextUp \in Nat \ {0}
  BY DEF PollInv, NextUp
<1> HIDE DEF NextUp
<1>3. NextUp \in batch /\ \A k \in batch : NextUp <= k
  BY <1>1, <1>2
<1>4. \A n \in batch : (\A k \in batch : n <= k) => n = NextUp
  BY <1>1, <1>2, <1>3
<1> QED  BY <1>2, <1>3, <1>4 DEF Earliest

\* A poll confirms what was looked at and takes what comes after.
LEMMA PollUpdatesInv ==
  ASSUME PollInv, NEW upTo \in 0..MaxUpdates, NEW answer \in BOOLEAN, PollUpdates(upTo, answer)
  PROVE  /\ PollInv'
         /\ confirmed' > confirmed => confirmed + 1 .. confirmed' \subseteq handledRun
<1>1. /\ confirmed' = Dropped /\ upTo \in Dropped..arrived
      /\ batch' = IF answer THEN Dropped + 1..upTo ELSE {}
      /\ UNCHANGED <<arrived, offset, handledRun, repeated>>
  BY DEF PollUpdates
<1>2. Dropped = NextUp - 1 /\ Dropped \in Nat /\ Dropped >= confirmed
  BY DEF Dropped, NextUp, PollInv
<1>3. NextUp' = NextUp
  BY <1>1, <1>2 DEF NextUp, PollInv
<1>4. NextUp \in Int /\ upTo \in Int
  BY <1>2, PollAssumption DEF NextUp, PollInv
<1>5. \E last \in Int : batch' = NextUp' .. last
  <2> HIDE DEF NextUp
  <2>1. CASE answer
    BY <1>1, <1>2, <1>3, <1>4, <2>1
  <2>2. CASE ~answer
    <3>1. NextUp .. NextUp - 1 = {} /\ NextUp - 1 \in Int
      BY <1>4
    <3>2. batch' = NextUp' .. NextUp - 1
      BY <1>1, <1>3, <2>2, <3>1
    <3> QED  BY <3>1, <3>2
  <2> QED  BY <2>1, <2>2
<1>6. offset # NoOffset => Dropped = offset - 1 /\ offset \in Nat
  BY <1>2 DEF NextUp, PollInv
<1>7. offset = NoOffset => Dropped = confirmed
  BY DEF Dropped
<1>8. confirmed' > confirmed => confirmed + 1 .. confirmed' \subseteq handledRun
  BY <1>1, <1>6, <1>7 DEF PollInv
<1>9. offset # NoOffset => offset > confirmed' /\ confirmed' + 1 .. offset - 1 \subseteq handledRun
  BY <1>1, <1>6
<1>10. PollInv'
  BY <1>1, <1>2, <1>3, <1>5, <1>9 DEF PollInv
<1> QED  BY <1>8, <1>10

\* A handled update is the next one and not handled before.
LEMMA HandleUpdateInv ==
  ASSUME PollInv, NEW replied \in BOOLEAN, HandleUpdate(replied)
  PROVE  PollInv'
<1>1. batch # {}
  BY DEF HandleUpdate
<1>2. Earliest(batch) = NextUp /\ NextUp \in Nat \ {0}
  BY <1>1, EarliestIsNext
<1>3. /\ batch' = batch \ {NextUp} /\ offset' = NextUp + 1
      /\ repeated' = (repeated \/ NextUp \in handledRun)
      /\ handledRun' = handledRun \cup {NextUp}
      /\ UNCHANGED <<arrived, confirmed>>
  BY <1>2 DEF HandleUpdate, NextOffset
<1>4. offset' # NoOffset /\ NextUp' = NextUp + 1
  BY <1>2, <1>3, PollAssumption DEF NextUp
<1>5. ~repeated'
  <2>1. NextUp \notin handledRun
    BY <1>2 DEF PollInv
  <2> QED  BY <1>3, <2>1, Zenon DEF PollInv
<1>6. \E last \in Int : batch' = NextUp' .. last
  <2>1. PICK last \in Int : batch = NextUp .. last
    BY DEF PollInv
  <2> HIDE DEF NextUp
  <2> QED  BY <1>2, <1>3, <1>4, <2>1
<1>7. \A n \in handledRun' : n \in Int /\ n < NextUp'
  <2> HIDE DEF NextUp
  <2> QED  BY <1>2, <1>3, <1>4 DEF PollInv
<1>8. offset' > confirmed' /\ confirmed' + 1 .. offset' - 1 \subseteq handledRun'
  <2>1. confirmed + 1 <= NextUp /\ confirmed + 1 .. NextUp - 1 \subseteq handledRun
    <3>1. CASE offset = NoOffset
      <4>1. NextUp = confirmed + 1 /\ confirmed + 1 .. NextUp - 1 = {}
        BY <3>1 DEF PollInv, NextUp
      <4> QED  BY <4>1 DEF PollInv
    <3>2. CASE offset # NoOffset
      BY <3>2 DEF PollInv, NextUp
    <3> QED  BY <3>1, <3>2
  <2> HIDE DEF NextUp
  <2> QED  BY <1>2, <1>3, <2>1 DEF PollInv
<1>9. /\ arrived' \in Nat /\ confirmed' \in Nat /\ offset' \in Nat \ {0}
  BY <1>2, <1>3 DEF PollInv
<1> QED  BY <1>4, <1>5, <1>6, <1>7, <1>8, <1>9 DEF PollInv

\* Every step keeps it, and nothing is confirmed unseen.
LEMMA CmdNextInv ==
  ASSUME PollInv, [CmdNext]_cmdVars
  PROVE  /\ PollInv'
         /\ confirmed' > confirmed => confirmed + 1 .. confirmed' \subseteq handledRun
<1>1. CASE Arrive
  BY <1>1 DEF Arrive, PollInv, NextUp
<1>2. ASSUME NEW replied \in BOOLEAN, HandleUpdate(replied)
      PROVE  PollInv' /\ confirmed' = confirmed
  BY <1>2, HandleUpdateInv DEF HandleUpdate
<1>3. CASE CmdRestart
  <2>1. /\ offset' = NoOffset /\ batch' = {} /\ handledRun' = {}
        /\ UNCHANGED <<arrived, confirmed, repeated>>
    BY <1>3 DEF CmdRestart
  <2>2. NextUp' = confirmed + 1 /\ confirmed \in Nat
    BY <2>1 DEF NextUp, PollInv
  <2>3. \E last \in Int : batch' = NextUp' .. last
    <3>1. {} = confirmed + 1 .. confirmed
      BY <2>2
    <3> QED  BY <2>1, <2>2, <3>1
  <2> QED  BY <2>1, <2>3 DEF PollInv
<1>4. CASE UNCHANGED cmdVars
  BY <1>4 DEF cmdVars, PollInv, NextUp
<1>5. \A upTo \in 0..MaxUpdates, answer \in BOOLEAN :
        PollUpdates(upTo, answer)
          => PollInv' /\ (confirmed' > confirmed => confirmed + 1 .. confirmed' \subseteq handledRun)
  BY PollUpdatesInv
<1>6. confirmed \in Nat
  BY DEF PollInv
<1> QED  BY <1>1, <1>2, <1>3, <1>4, <1>5, <1>6 DEF CmdNext, Arrive, CmdRestart, cmdVars

\* It holds before the first poll.
LEMMA CmdInitInv == CmdInit => PollInv
<1> SUFFICES ASSUME CmdInit PROVE PollInv
  OBVIOUS
<1>1. {} = 1 .. 0
  OBVIOUS
<1>2. NextUp = 1
  BY DEF CmdInit, NextUp
<1>3. \E last \in Int : batch = NextUp .. last
  BY <1>1, <1>2 DEF CmdInit
<1> QED  BY <1>3 DEF CmdInit, PollInv

\* telegram_commands.rs: for any number of updates, lost answers and restarts,
\* no run handles a command twice, and the server drops nothing that was not
\* looked at.
THEOREM CommandsRunOnce == CmdSpec => CommandsOnce
<1>1. PollInv /\ [CmdNext]_cmdVars
        => PollInv' /\ [confirmed' > confirmed
                          => confirmed + 1 .. confirmed' \subseteq handledRun]_cmdVars
  BY CmdNextInv
<1>2. PollInv => NotTwiceInARun
  BY DEF PollInv, NotTwiceInARun
<1> QED  BY <1>1, <1>2, CmdInitInv, PTL DEF CmdSpec, CommandsOnce, NothingDropped

---------------------------------------------------------------------------
\* What the queue holds.
Message == [kind : {"account", "tx"}, state : Account]

\* Who may hold a sender: the consumer runs in every session that subscribes
\* to transactions, and until the transactions of the session are predicted.
SendersInOrder ==
  /\ phase \in {"dial", "open"} /\ config.tx => consumer
  /\ consumer => config.tx
  /\ phase = "over" /\ ~consumer => txq = <<>>
  /\ ~TxSubscribed => txq = <<>> /\ \A i \in 1 .. Len(wire) : wire[i].kind = "account"
  /\ wire # <<>> => phase = "open"

\* Without predicted updates, what is under way from the chain to the store
\* lies in the order it was written, between the two.
Pipeline ==
  /\ prior.slot <= chain.slot
  /\ ~config.tx =>
       /\ store.slot <= chain.slot
       /\ \A i \in 1 .. Len(rx) : store.slot <= rx[i].slot /\ rx[i].slot <= chain.slot
       /\ \A i, j \in 1 .. Len(rx) : i <= j => rx[i].slot <= rx[j].slot
       /\ \A i \in 1 .. Len(wire) :
            store.slot <= wire[i].state.slot /\ wire[i].state.slot <= chain.slot
       /\ \A i, j \in 1 .. Len(wire) : i <= j => wire[i].state.slot <= wire[j].state.slot
       /\ \A i \in 1 .. Len(rx), j \in 1 .. Len(wire) : rx[i].slot <= wire[j].state.slot

\* The inductive invariant.
StreamInv == SessionsSound /\ SendersInOrder /\ Pipeline

\* It holds before the first bootstrap.
LEMMA StreamInitInv == StreamInit => StreamInv
<1> SUFFICES ASSUME StreamInit PROVE StreamInv
  OBVIOUS
<1>1. Genesis \in Account /\ Genesis.slot <= Genesis.slot
  BY DEF Genesis, Account
<1>2. StreamTypeOK
  <2>1. RxCapacity \in Nat /\ TxCapacity \in Nat /\ BackoffCap \in Nat
    BY StreamAssumption
  <2>2. Len(<<>>) = 0 /\ <<>> \in Seq(Account) /\ <<>> \in Seq(Message)
    OBVIOUS
  <2>3. consumer \in BOOLEAN
    BY DEF StreamInit
  <2>4. config \in Configs /\ {chain, prior, store} \subseteq Account /\ sessions \in Nat
        /\ phase \in {"boot", "dial", "open", "over"} /\ ended \in {"closed", "errored"}
        /\ backoff \in 0 .. BackoffCap
    BY <1>1, <2>1 DEF StreamInit
  <2> QED  BY <2>1, <2>2, <2>3, <2>4 DEF StreamInit, StreamTypeOK, Message
<1>3. NothingOutlivesItsSession /\ SendersInOrder
  BY DEF StreamInit, NothingOutlivesItsSession, SendersInOrder
<1>4. Pipeline
  BY <1>1 DEF StreamInit, Pipeline
<1> QED  BY <1>2, <1>3, <1>4 DEF StreamInv, SessionsSound

---------------------------------------------------------------------------
\* What the channels do to their queues.
LEMMA Appended ==
  ASSUME NEW S, NEW s \in Seq(S), NEW x \in S
  PROVE  /\ s \o <<x>> = Append(s, x) /\ s \o <<>> = s
         /\ Append(s, x) \in Seq(S) /\ Len(Append(s, x)) = Len(s) + 1 /\ Len(s) \in Nat
         /\ \A i \in 1 .. Len(s) : Append(s, x)[i] = s[i] /\ s[i] \in S
         /\ Append(s, x)[Len(s) + 1] = x
  OBVIOUS

\* What is taken from a queue and what stays.
LEMMA Taken ==
  ASSUME NEW S, NEW s \in Seq(S), s # <<>>
  PROVE  /\ Head(s) = s[1] /\ Head(s) \in S /\ Len(s) \in Nat /\ Len(s) > 0
         /\ Tail(s) \in Seq(S) /\ Len(Tail(s)) = Len(s) - 1
         /\ \A i \in 1 .. Len(s) - 1 : Tail(s)[i] = s[i + 1]
  OBVIOUS

\* The types in the form the steps use.
LEMMA Types ==
  ASSUME StreamTypeOK
  PROVE  /\ config \in Configs /\ chain \in Account /\ prior \in Account /\ store \in Account
         /\ chain.slot \in Nat /\ prior.slot \in Nat /\ store.slot \in Nat
         /\ rx \in Seq(Account) /\ wire \in Seq(Message) /\ txq \in Seq(Account)
         /\ \A i \in 1 .. Len(rx) : rx[i] \in Account /\ rx[i].slot \in Nat
         /\ \A i \in 1 .. Len(wire) : wire[i].state \in Account /\ wire[i].state.slot \in Nat
         /\ Len(rx) \in Nat /\ Len(wire) \in Nat /\ Len(txq) \in Nat
<1>1. chain \in Account /\ prior \in Account /\ store \in Account /\ config \in Configs
  BY DEF StreamTypeOK
<1>2. rx \in Seq(Account) /\ wire \in Seq(Message) /\ txq \in Seq(Account)
  BY DEF StreamTypeOK, Message
<1>3. \A a \in Account : a.slot \in Nat
  BY DEF Account
<1>4. \A m \in Message : m.state \in Account
  BY DEF Message
<1>5. /\ \A i \in 1 .. Len(rx) : rx[i] \in Account
      /\ \A i \in 1 .. Len(wire) : wire[i] \in Message
      /\ Len(rx) \in Nat /\ Len(wire) \in Nat /\ Len(txq) \in Nat
  BY <1>2
<1> QED  BY <1>1, <1>2, <1>3, <1>4, <1>5

\* Every slot along the pipeline is a number.
LEMMA SlotTypes ==
  ASSUME StreamTypeOK
  PROVE  /\ store.slot \in Int /\ chain.slot \in Int
         /\ \A i \in 1 .. Len(rx) : rx[i].slot \in Int
         /\ \A i \in 1 .. Len(wire) : wire[i].state.slot \in Int
<1>1. /\ rx \in Seq(Account) /\ wire \in Seq(Message)
      /\ store \in Account /\ chain \in Account
  BY Types
<1>2. \A a \in Account : a.slot \in Int
  BY DEF Account
<1>3. \A i \in 1 .. Len(rx) : rx[i] \in Account
  BY <1>1
<1>4. \A i \in 1 .. Len(wire) : wire[i] \in Message
  BY <1>1
<1>5. \A i \in 1 .. Len(wire) : wire[i].state \in Account
  BY <1>4 DEF Message
<1> QED  BY <1>1, <1>2, <1>3, <1>5

\* A write puts its messages behind the others.
LEMMA WriteAccountInv ==
  ASSUME StreamInv, NEW written \in Account, written.slot = chain.slot + 1,
         NEW announced, announced \in {<<>>, <<[kind |-> "tx", state |-> written]>>},
         ~TxSubscribed => announced = <<>>,
         WriteAccount(written, announced)
  PROVE  StreamInv'
<1> DEFINE x == [kind |-> "account", state |-> written]
           y == [kind |-> "tx", state |-> written]
<1>1. x \in Message /\ y \in Message /\ x.kind = "account" /\ x.state = written
  BY DEF Message
<1>2. StreamTypeOK
  BY DEF StreamInv, SessionsSound
<1>3. chain' = written /\ prior' = chain
      /\ UNCHANGED <<store, rx, txq, consumer, config, phase, backoff, ended, sessions>>
  BY DEF WriteAccount, sessionVars
<1>4. phase # "open" => wire' = wire
  BY DEF WriteAccount
<1>5. ASSUME phase = "open", announced = <<>> PROVE wire' = Append(wire, x)
  BY <1>1, <1>2, <1>5, Types, Appended DEF WriteAccount
<1>6. ASSUME phase = "open", announced = <<y>> PROVE wire' = Append(Append(wire, y), x)
  <2>1. wire \o <<y>> = Append(wire, y) /\ Append(wire, y) \in Seq(Message)
    BY <1>1, <1>2, Types, Appended
  <2>2. Append(wire, y) \o <<x>> = Append(Append(wire, y), x)
    BY <1>1, <2>1, Appended
  <2> QED  BY <1>6, <2>1, <2>2 DEF WriteAccount
<1> HIDE DEF x, y
<1>7. /\ wire \in Seq(Message) /\ Len(wire) \in Nat
      /\ Append(wire, x) \in Seq(Message) /\ Append(Append(wire, y), x) \in Seq(Message)
      /\ Len(Append(wire, x)) = Len(wire) + 1 /\ Append(wire, x)[Len(wire) + 1] = x
      /\ \A i \in 1 .. Len(wire) : Append(wire, x)[i] = wire[i]
  <2>1. wire \in Seq(Message)
    BY <1>2, Types
  <2>2. Append(wire, y) \in Seq(Message)
    BY <1>1, <2>1
  <2> QED  BY <1>1, <2>1, <2>2
<1>8. StreamTypeOK'
  <2>1. announced \in {<<>>, <<y>>}
    BY DEF y
  <2>2. wire' \in Seq(Message)
    BY <1>4, <1>5, <1>6, <1>7, <2>1
  <2> QED  BY <1>2, <1>3, <2>2, Types DEF StreamTypeOK, Message
<1>9. NothingOutlivesItsSession'
  BY <1>3, <1>4 DEF StreamInv, SessionsSound, NothingOutlivesItsSession
<1>10. SendersInOrder'
  <2>1. ASSUME ~TxSubscribed PROVE \A i \in 1 .. Len(wire') : wire'[i].kind = "account"
    <3>1. \A i \in 1 .. Len(wire) : wire[i].kind = "account"
      BY <2>1 DEF StreamInv, SendersInOrder
    <3>2. CASE wire' = wire
      BY <3>1, <3>2
    <3>3. CASE wire' = Append(wire, x)
      <4>1. \A i \in 1 .. Len(wire) + 1 : wire'[i].kind = "account"
        BY <1>1, <1>7, <3>1, <3>3
      <4> QED  BY <1>7, <3>3, <4>1
    <3> QED  BY <2>1, <1>4, <1>5, <3>2, <3>3
  <2> QED  BY <2>1, <1>3, <1>4 DEF StreamInv, SendersInOrder, TxSubscribed
<1>11. Pipeline'
  <2>1. prior'.slot <= chain'.slot /\ chain'.slot = chain.slot + 1
    BY <1>2, <1>3, Types
  <2>2. ASSUME ~config.tx, wire' = wire PROVE Pipeline'
    <3>1. /\ store.slot \in Int /\ chain.slot \in Int
          /\ \A i \in 1 .. Len(rx) : rx[i].slot \in Int
          /\ \A i \in 1 .. Len(wire) : wire[i].state.slot \in Int
      BY <1>2, SlotTypes
    <3> HIDE DEF WriteAccount
    <3>2. Pipeline
      BY DEF StreamInv
    <3>3. /\ store.slot <= chain'.slot
          /\ \A i \in 1 .. Len(rx) : store.slot <= rx[i].slot /\ rx[i].slot <= chain'.slot
          /\ \A i \in 1 .. Len(wire) :
               store.slot <= wire[i].state.slot /\ wire[i].state.slot <= chain'.slot
      BY <2>1, <2>2, <3>1, <3>2 DEF Pipeline
    <3> QED  BY <1>3, <2>1, <2>2, <3>2, <3>3 DEF Pipeline
  <2>3. ASSUME ~config.tx, wire' = Append(wire, x) PROVE Pipeline'
    <3>1. Len(wire') = Len(wire) + 1 /\ wire'[Len(wire) + 1].state.slot = chain'.slot
      BY <1>1, <1>3, <1>7, <2>3
    <3>2. \A i \in 1 .. Len(wire) : wire'[i] = wire[i]
      BY <1>7, <2>3
    <3> HIDE DEF WriteAccount
    <3> DEFINE n == Len(wire) + 1
    <3>3. \A i \in 1 .. n : store.slot <= wire'[i].state.slot /\ wire'[i].state.slot <= chain'.slot
      BY <1>2, <2>1, <2>3, <3>1, <3>2, Types DEF StreamInv, Pipeline
    <3>4. \A i, j \in 1 .. n : i <= j => wire'[i].state.slot <= wire'[j].state.slot
      BY <1>2, <2>1, <2>3, <3>1, <3>2, <3>3, Types DEF StreamInv, Pipeline
    <3>5. \A i \in 1 .. Len(rx), j \in 1 .. n : rx[i].slot <= wire'[j].state.slot
      BY <1>2, <2>1, <2>3, <3>1, <3>2, <3>3, Types DEF StreamInv, Pipeline
    <3>6. /\ store.slot <= chain'.slot
          /\ \A i \in 1 .. Len(rx) : store.slot <= rx[i].slot /\ rx[i].slot <= chain'.slot
          /\ \A i, j \in 1 .. Len(rx) : i <= j => rx[i].slot <= rx[j].slot
      BY <1>2, <2>1, <2>3, Types DEF StreamInv, Pipeline
    <3> QED  BY <1>3, <2>1, <3>1, <3>3, <3>4, <3>5, <3>6 DEF Pipeline
  <2>4. ~config.tx => wire' = wire \/ wire' = Append(wire, x)
    BY <1>4, <1>5 DEF TxSubscribed
  <2>5. config' = config
    BY <1>3
  <2> QED  BY <2>1, <2>2, <2>3, <2>4, <2>5 DEF Pipeline
<1> QED  BY <1>8, <1>9, <1>10, <1>11 DEF StreamInv, SessionsSound

---------------------------------------------------------------------------
\* The steps of the reconnect loop and of the connection: they move no message,
\* and where they empty the channels they start from the chain.
LEMMA LoopInv ==
  ASSUME StreamInv,
         BootOk \/ BootFails \/ Connect \/ Reconnect
           \/ \E how \in {"closed", "errored"} : SessionOver(how)
  PROVE  StreamInv'
<1>1. StreamTypeOK /\ NothingOutlivesItsSession /\ SendersInOrder /\ Pipeline
  BY DEF StreamInv, SessionsSound
<1>2. backoff \in 0 .. BackoffCap /\ BackoffCap \in Nat => Double(backoff) \in 0 .. BackoffCap
  BY DEF Double
<1>3. Len(<<>>) = 0 /\ <<>> \in Seq(Account) /\ <<>> \in Seq(Message)
  OBVIOUS
<1>4. RxCapacity \in Nat /\ TxCapacity \in Nat /\ BackoffCap \in Nat /\ sessions \in Nat
      /\ backoff \in 0 .. BackoffCap /\ Len(rx) <= RxCapacity /\ Len(txq) <= TxCapacity
      /\ consumer \in BOOLEAN /\ ended \in {"closed", "errored"}
  BY <1>1, StreamAssumption DEF StreamTypeOK
<1>5. config.tx \in BOOLEAN
  BY <1>1, StreamAssumption DEF StreamTypeOK
<1>6. CASE BootOk
  <2>1. StreamTypeOK'
    BY <1>1, <1>3, <1>4, <1>5, <1>6, Types
       DEF BootOk, ConsumerStarts, chainVars, StreamTypeOK, Message
  <2>2. NothingOutlivesItsSession'
    BY <1>6 DEF BootOk, NothingOutlivesItsSession
  <2>3. SendersInOrder'
    BY <1>3, <1>6 DEF BootOk, ConsumerStarts, SendersInOrder
  <2>4. Pipeline'
    BY <1>1, <1>3, <1>6, Types DEF BootOk, chainVars, Pipeline
  <2> QED  BY <2>1, <2>2, <2>3, <2>4 DEF StreamInv, SessionsSound
<1>7. CASE BootFails
  <2>1. StreamTypeOK'
    BY <1>1, <1>2, <1>4, <1>7, Types DEF BootFails, chainVars, StreamTypeOK, Message
  <2>2. NothingOutlivesItsSession' /\ SendersInOrder'
    BY <1>1, <1>7 DEF BootFails, NothingOutlivesItsSession, SendersInOrder, TxSubscribed
  <2>3. rx = <<>> /\ wire = <<>>
    BY <1>1, <1>7 DEF BootFails, NothingOutlivesItsSession
  <2>4. Pipeline'
    BY <1>1, <1>3, <1>7, <2>3, Types DEF BootFails, chainVars, Pipeline
  <2> QED  BY <2>1, <2>2, <2>4 DEF StreamInv, SessionsSound
<1>8. CASE Connect
  <2>1. StreamTypeOK'
    BY <1>1, <1>8 DEF Connect, chainVars, StreamTypeOK
  <2>2. NothingOutlivesItsSession' /\ SendersInOrder'
    BY <1>1, <1>8 DEF Connect, NothingOutlivesItsSession, SendersInOrder, TxSubscribed
  <2>3. Pipeline'
    BY <1>1, <1>8 DEF Connect, chainVars, Pipeline
  <2> QED  BY <2>1, <2>2, <2>3 DEF StreamInv, SessionsSound
<1>9. CASE Reconnect
  <2>1. StreamTypeOK'
    BY <1>1, <1>2, <1>4, <1>9 DEF Reconnect, chainVars, StreamTypeOK
  <2>2. NothingOutlivesItsSession' /\ SendersInOrder'
    BY <1>1, <1>9 DEF Reconnect, AllSendersGone, NothingOutlivesItsSession, SendersInOrder,
                      TxSubscribed
  <2>3. Pipeline'
    BY <1>1, <1>9 DEF Reconnect, chainVars, Pipeline
  <2> QED  BY <2>1, <2>2, <2>3 DEF StreamInv, SessionsSound
<1>10. ASSUME NEW how \in {"closed", "errored"}, SessionOver(how) PROVE StreamInv'
  <2>1. StreamTypeOK'
    BY <1>1, <1>3, <1>10 DEF SessionOver, chainVars, StreamTypeOK, Message
  <2>2. NothingOutlivesItsSession' /\ SendersInOrder'
    BY <1>1, <1>3, <1>10 DEF SessionOver, NothingOutlivesItsSession, SendersInOrder, TxSubscribed
  <2>3. Pipeline'
    BY <1>1, <1>3, <1>10 DEF SessionOver, chainVars, Pipeline
  <2> QED  BY <2>1, <2>2, <2>3 DEF StreamInv, SessionsSound
<1> QED  BY <1>6, <1>7, <1>8, <1>9, <1>10

\* The session passes on the message the server sent first.
LEMMA ForwardAccountInv ==
  ASSUME StreamInv, ForwardAccount
  PROVE  StreamInv'
<1>1. StreamTypeOK /\ NothingOutlivesItsSession /\ SendersInOrder /\ Pipeline
  BY DEF StreamInv, SessionsSound
<1> DEFINE a == Head(wire).state
<1>2. /\ Head(wire) = wire[1] /\ Len(wire) > 0 /\ wire' = Tail(wire)
      /\ Tail(wire) \in Seq(Message) /\ Len(Tail(wire)) = Len(wire) - 1
      /\ \A i \in 1 .. Len(wire) - 1 : Tail(wire)[i] = wire[i + 1]
  BY <1>1, Types, Taken DEF ForwardAccount
<1>3. a \in Account /\ a = wire[1].state
  BY <1>1, <1>2, Types
<1> HIDE DEF a
<1>4. rx' = Append(rx, a)
  BY DEF ForwardAccount, Sent, a
<1>5. /\ rx' \in Seq(Account) /\ Len(rx') = Len(rx) + 1 /\ rx'[Len(rx) + 1] = a
      /\ \A i \in 1 .. Len(rx) : rx'[i] = rx[i]
  BY <1>1, <1>3, <1>4, Types
<1>6. phase = "open" /\ Len(rx) < RxCapacity /\ wire # <<>> /\ RxCapacity \in Nat
      /\ UNCHANGED <<chain, prior, store, txq, consumer, config, phase, backoff, ended, sessions>>
  BY StreamAssumption DEF ForwardAccount, chainVars, sessionVars
<1> DEFINE n == Len(rx)
           w == Len(wire)
<1>7. n \in Nat /\ w \in Nat
  BY <1>1, Types
<1>8. Len(rx') = n + 1 /\ Len(wire') = w - 1 /\ w > 0
  BY <1>2, <1>5
<1>9. StreamTypeOK'
  BY <1>1, <1>2, <1>5, <1>6, <1>7 DEF StreamTypeOK, Message
<1>10. NothingOutlivesItsSession'
  BY <1>6 DEF NothingOutlivesItsSession
<1>11. \A j \in 1 .. w - 1 : wire'[j] = wire[j + 1] /\ j + 1 \in 1 .. w
  BY <1>2, <1>7
<1>12. SendersInOrder'
  BY <1>1, <1>6, <1>7, <1>8, <1>11 DEF SendersInOrder, TxSubscribed
<1>13. ASSUME ~config.tx PROVE Pipeline'
  <2>1. 1 \in 1 .. w /\ a.slot \in Nat
    BY <1>7, <1>8, <1>3 DEF Account
  <2>2. /\ \A i \in 1 .. n : rx[i].slot <= a.slot
        /\ store.slot <= a.slot /\ a.slot <= chain.slot
        /\ \A j \in 1 .. w - 1 : a.slot <= wire'[j].state.slot
    <3>1. /\ \A i \in 1 .. n : rx[i].slot <= wire[1].state.slot
          /\ store.slot <= wire[1].state.slot /\ wire[1].state.slot <= chain.slot
      BY <1>1, <1>13, <2>1 DEF Pipeline
    <3>2. \A j \in 1 .. w : wire[1].state.slot <= wire[j].state.slot
      BY <1>1, <1>7, <1>13, <2>1 DEF Pipeline
    <3> QED  BY <1>3, <1>11, <3>1, <3>2
  <2>3. \A i \in 1 .. n + 1 : store.slot <= rx'[i].slot /\ rx'[i].slot <= chain.slot
    BY <1>1, <1>5, <1>7, <1>13, <2>2 DEF Pipeline
  <2>4. \A i, j \in 1 .. n + 1 : i <= j => rx'[i].slot <= rx'[j].slot
    BY <1>1, <1>5, <1>7, <1>13, <2>1, <2>2 DEF Pipeline
  <2>5. \A i \in 1 .. w - 1 : store.slot <= wire'[i].state.slot /\ wire'[i].state.slot <= chain.slot
    BY <1>1, <1>7, <1>11, <1>13 DEF Pipeline
  <2>6. \A i, j \in 1 .. w - 1 : i <= j => wire'[i].state.slot <= wire'[j].state.slot
    BY <1>1, <1>7, <1>11, <1>13 DEF Pipeline
  <2>7. \A i \in 1 .. n + 1, j \in 1 .. w - 1 : rx'[i].slot <= wire'[j].state.slot
    BY <1>1, <1>5, <1>7, <1>11, <1>13, <2>2 DEF Pipeline
  <2> QED  BY <1>1, <1>6, <1>8, <2>3, <2>4, <2>5, <2>6, <2>7 DEF Pipeline
<1>14. Pipeline'
  BY <1>1, <1>6, <1>13 DEF Pipeline
<1> QED  BY <1>9, <1>10, <1>12, <1>14 DEF StreamInv, SessionsSound

\* Without the transaction stream the server announces no transaction.
LEMMA ForwardTxInv ==
  ASSUME StreamInv, ForwardTx
  PROVE  StreamInv'
<1>1. StreamTypeOK /\ NothingOutlivesItsSession /\ SendersInOrder /\ Pipeline
  BY DEF StreamInv, SessionsSound
<1>2. /\ Head(wire) = wire[1] /\ Head(wire) \in Message /\ Len(wire) > 0 /\ Len(wire) \in Nat
      /\ wire' = Tail(wire) /\ wire' \in Seq(Message) /\ Len(wire') = Len(wire) - 1
  BY <1>1, Types, Taken DEF ForwardTx
<1>3. TxSubscribed /\ config.tx
  BY <1>1, <1>2 DEF ForwardTx, SendersInOrder, TxSubscribed
<1>4. txq' \in Seq(Account) /\ Len(txq') <= TxCapacity
  <2>1. Head(wire).state \in Account /\ txq \in Seq(Account) /\ Len(txq) <= TxCapacity
        /\ TxCapacity \in Nat
    BY <1>1, <1>2, StreamAssumption DEF Message, StreamTypeOK
  <2> QED  BY <2>1, Appended DEF ForwardTx, Sent
<1>5. phase = "open" /\ wire # <<>>
      /\ UNCHANGED <<chain, prior, store, rx, consumer, config, phase, backoff, ended, sessions>>
  BY DEF ForwardTx, chainVars, sessionVars
<1>6. StreamTypeOK'
  BY <1>1, <1>2, <1>4, <1>5 DEF StreamTypeOK, Message
<1>7. NothingOutlivesItsSession' /\ SendersInOrder' /\ Pipeline'
  BY <1>1, <1>3, <1>5 DEF NothingOutlivesItsSession, SendersInOrder, TxSubscribed, Pipeline
<1> QED  BY <1>6, <1>7 DEF StreamInv, SessionsSound

\* A predicted update and the end of the transaction consumer keep it.
LEMMA ConsumerInv ==
  ASSUME StreamInv, Predict \/ ConsumerEnds
  PROVE  StreamInv'
<1>1. StreamTypeOK /\ NothingOutlivesItsSession /\ SendersInOrder /\ Pipeline
  BY DEF StreamInv, SessionsSound
<1>2. CASE Predict
  <2> DEFINE t     == Head(txq)
             synth == [store EXCEPT !.price = t.price, !.slot = t.slot]
  <2>1. t \in Account /\ Tail(txq) \in Seq(Account) /\ Len(Tail(txq)) <= TxCapacity
    <3>1. txq \in Seq(Account) /\ txq # <<>> /\ Len(txq) <= TxCapacity /\ TxCapacity \in Nat
      BY <1>1, <1>2, StreamAssumption DEF Predict, StreamTypeOK
    <3> QED  BY <3>1, Taken
  <2>2. synth \in Account
    BY <1>1, <2>1, Types DEF Account
  <2>3. rx' = (IF Len(rx) < RxCapacity THEN Append(rx, synth) ELSE rx) /\ txq' = Tail(txq)
    BY <1>2 DEF Predict, Sent
  <2> HIDE DEF t, synth
  <2>4. rx' \in Seq(Account) /\ Len(rx') <= RxCapacity
    <3>1. rx \in Seq(Account) /\ Len(rx) <= RxCapacity /\ RxCapacity \in Nat
      BY <1>1, StreamAssumption DEF StreamTypeOK
    <3> QED  BY <2>2, <2>3, <3>1, Appended
  <2>5. consumer /\ txq # <<>>
        /\ UNCHANGED <<chain, prior, store, wire, consumer, config, phase, backoff, ended, sessions>>
    BY <1>2 DEF Predict, chainVars, sessionVars
  <2>6. config.tx /\ phase # "boot" /\ TxSubscribed
    BY <1>1, <2>5 DEF SendersInOrder, NothingOutlivesItsSession
  <2>7. StreamTypeOK'
    BY <1>1, <2>1, <2>3, <2>4, <2>5 DEF StreamTypeOK
  <2>8. NothingOutlivesItsSession' /\ SendersInOrder' /\ Pipeline'
    BY <1>1, <2>5, <2>6 DEF NothingOutlivesItsSession, SendersInOrder, TxSubscribed, Pipeline
  <2> QED  BY <2>7, <2>8 DEF StreamInv, SessionsSound
<1>3. CASE ConsumerEnds
  <2>1. consumer /\ txq = <<>> /\ phase = "over" /\ ~consumer'
        /\ UNCHANGED <<chain, prior, store, wire, rx, txq, config, phase, backoff, ended, sessions>>
    BY <1>3 DEF ConsumerEnds, TxSenderDropped, chainVars, sessionVars
  <2>2. consumer' \in BOOLEAN
    BY <1>3 DEF ConsumerEnds
  <2>3. StreamTypeOK'
    BY <1>1, <2>1, <2>2 DEF StreamTypeOK
  <2>4. NothingOutlivesItsSession' /\ SendersInOrder' /\ Pipeline'
    BY <1>1, <2>1 DEF NothingOutlivesItsSession, SendersInOrder, TxSubscribed, Pipeline
  <2> QED  BY <2>3, <2>4 DEF StreamInv, SessionsSound
<1> QED  BY <1>2, <1>3

\* An update that is handled is the oldest under way.
LEMMA HandleInv ==
  ASSUME StreamInv, Handle
  PROVE  StreamInv' /\ (~config.tx => store.slot <= store'.slot)
<1>1. StreamTypeOK /\ NothingOutlivesItsSession /\ SendersInOrder /\ Pipeline
  BY DEF StreamInv, SessionsSound
<1> DEFINE n == Len(rx)
<1>2. /\ store' = rx[1] /\ store' \in Account /\ n > 0 /\ n \in Nat
      /\ rx' = Tail(rx) /\ rx' \in Seq(Account) /\ Len(rx') = n - 1
      /\ \A i \in 1 .. n - 1 : rx'[i] = rx[i + 1] /\ i + 1 \in 1 .. n
  BY <1>1, Types, Taken DEF Handle
<1>3. phase # "boot"
      /\ UNCHANGED <<chain, prior, wire, txq, consumer, config, phase, backoff, ended, sessions>>
  BY DEF Handle, chainVars, sessionVars
<1>4. StreamTypeOK'
  <2>1. n <= RxCapacity /\ RxCapacity \in Nat
    BY <1>1, StreamAssumption DEF StreamTypeOK
  <2> QED  BY <1>1, <1>2, <1>3, <2>1 DEF StreamTypeOK
<1>5. NothingOutlivesItsSession' /\ SendersInOrder'
  BY <1>1, <1>3 DEF NothingOutlivesItsSession, SendersInOrder, TxSubscribed
<1>6. ASSUME ~config.tx PROVE Pipeline' /\ store.slot <= store'.slot
  <2>1. 1 \in 1 .. n
    BY <1>2
  <2>2. /\ store.slot <= rx[1].slot /\ rx[1].slot <= chain.slot
        /\ \A j \in 1 .. Len(wire) : rx[1].slot <= wire[j].state.slot
    BY <1>1, <1>6, <2>1 DEF Pipeline
  <2>3. \A i \in 1 .. n : rx[1].slot <= rx[i].slot
    BY <1>1, <1>2, <1>6, <2>1 DEF Pipeline
  <2>4. \A i \in 1 .. n - 1 : store'.slot <= rx'[i].slot /\ rx'[i].slot <= chain.slot
    BY <1>1, <1>2, <1>6, <2>3 DEF Pipeline
  <2>5. \A i, j \in 1 .. n - 1 : i <= j => rx'[i].slot <= rx'[j].slot
    BY <1>1, <1>2, <1>6 DEF Pipeline
  <2>6. \A i \in 1 .. n - 1, j \in 1 .. Len(wire) : rx'[i].slot <= wire[j].state.slot
    BY <1>1, <1>2, <1>6 DEF Pipeline
  <2>7. /\ prior.slot <= chain.slot
        /\ \A i \in 1 .. Len(wire) : wire[i].state.slot <= chain.slot
        /\ \A i, j \in 1 .. Len(wire) : i <= j => wire[i].state.slot <= wire[j].state.slot
    BY <1>1, <1>6 DEF Pipeline
  <2>8. Pipeline'
    BY <1>2, <1>3, <2>2, <2>4, <2>5, <2>6, <2>7 DEF Pipeline
  <2> QED  BY <1>2, <2>2, <2>8
<1>7. Pipeline'
  BY <1>1, <1>3, <1>6 DEF Pipeline
<1> QED  BY <1>4, <1>5, <1>6, <1>7 DEF StreamInv, SessionsSound

\* An account written at a slot carries it.
LEMMA NewSlotInv ==
  ASSUME NEW acct \in Account, NEW s \in Nat
  PROVE  /\ [acct EXCEPT !.price = s, !.slot = s] \in Account
         /\ [acct EXCEPT !.price = s, !.slot = s].slot = s
         /\ [acct EXCEPT !.liquidity = s, !.slot = s] \in Account
         /\ [acct EXCEPT !.liquidity = s, !.slot = s].slot = s
  BY DEF Account

\* Every step keeps it.
LEMMA StreamNextInv ==
  ASSUME StreamInv, [StreamNext]_streamVars
  PROVE  StreamInv'
<1>1. chain \in Account /\ chain.slot + 1 \in Nat
  BY Types DEF StreamInv, SessionsSound
<1>2. CASE Swap
  <2> DEFINE written == [chain EXCEPT !.price = chain.slot + 1, !.slot = chain.slot + 1]
             announced == IF TxSubscribed THEN <<[kind |-> "tx", state |-> written]>> ELSE <<>>
  <2>1. written \in Account /\ written.slot = chain.slot + 1
    BY <1>1, NewSlotInv
  <2>2. WriteAccount(written, announced)
    BY <1>2 DEF Swap
  <2>3. announced \in {<<>>, <<[kind |-> "tx", state |-> written]>>}
        /\ (~TxSubscribed => announced = <<>>)
    OBVIOUS
  <2> HIDE DEF written
  <2> QED  BY <2>1, <2>2, <2>3, WriteAccountInv
<1>3. CASE ChangeLiquidity
  <2> DEFINE written == [chain EXCEPT !.liquidity = chain.slot + 1, !.slot = chain.slot + 1]
  <2>1. written \in Account /\ written.slot = chain.slot + 1
    BY <1>1, NewSlotInv
  <2>2. WriteAccount(written, <<>>)
    BY <1>3 DEF ChangeLiquidity
  <2> HIDE DEF written
  <2> QED  BY <2>1, <2>2, WriteAccountInv
<1>4. CASE UNCHANGED streamVars
  BY <1>4 DEF streamVars, chainVars, sessionVars, StreamInv, SessionsSound, StreamTypeOK,
              NothingOutlivesItsSession, SendersInOrder, TxSubscribed, Pipeline
<1> QED  BY <1>2, <1>3, <1>4, LoopInv, ForwardAccountInv, ForwardTxInv, ConsumerInv, HandleInv
         DEF StreamNext

---------------------------------------------------------------------------
\* Whatever the network does, no task, transaction or update of a session is left
\* when the next bootstrap starts, and the channels keep to their capacities.
THEOREM SessionsCorrect == StreamSpec => []SessionsSound
<1>1. StreamInv => SessionsSound
  BY DEF StreamInv
<1> QED  BY <1>1, StreamInitInv, StreamNextInv, PTL DEF StreamSpec

\* Without predicted updates handle_update never replaces a newer state of a pool
\* by an older one, though it does not look at the slots (scout.rs:1206): the
\* channels keep the order of the writes, and none survives its session.
THEOREM StoreFollowsChain == StreamSpec => StoreNeverGoesBack
<1>1. StreamInv /\ [StreamNext]_streamVars
        => [phase # "boot" /\ ~config.tx => store'.slot >= store.slot]_streamVars
  <2> SUFFICES ASSUME StreamInv, StreamNext, phase # "boot", ~config.tx
               PROVE  store'.slot >= store.slot
    OBVIOUS
  <2>1. store.slot \in Nat
    BY Types DEF StreamInv, SessionsSound
  <2>2. CASE Handle
    <3>1. store.slot <= store'.slot
      BY <2>2, HandleInv
    <3> QED  BY <3>1
  <2>3. CASE store' = store
    BY <2>1, <2>3
  <2>4. Handle \/ store' = store
    BY DEF StreamNext, Swap, ChangeLiquidity, WriteAccount, BootOk, BootFails, Connect,
           SessionOver, ForwardAccount, ForwardTx, Predict, ConsumerEnds, Reconnect
  <2> QED  BY <2>2, <2>3, <2>4
<1> QED  BY <1>1, StreamInitInv, StreamNextInv, PTL DEF StreamSpec, StoreNeverGoesBack

---------------------------------------------------------------------------
\* T is A followed by B.
Joined(T, A, B, S) ==
  /\ T \in Seq(S) /\ Len(A) \in Nat /\ Len(B) \in Nat /\ Len(T) = Len(A) + Len(B)
  /\ \A i \in 1..Len(A) : T[i] = A[i]
  /\ \A i \in 1..Len(B) : T[Len(A) + i] = B[i]
  /\ \A i \in 1..Len(T) : i > Len(A) => i - Len(A) \in 1..Len(B) /\ T[i] = B[i - Len(A)]

\* What \o joins.
LEMMA Cat ==
  ASSUME NEW S, NEW A \in Seq(S), NEW B \in Seq(S)
  PROVE  Joined(A \o B, A, B, S)
<1>1. Len(A) \in Nat /\ Len(B) \in Nat
  BY LenProperties
<1>2. ASSUME NEW i \in 1..Len(B)
      PROVE  (A \o B)[Len(A) + i] = B[i]
  <2>1. Len(A) + i \in 1 .. Len(A) + Len(B) /\ ~(Len(A) + i <= Len(A)) /\ (Len(A) + i) - Len(A) = i
    BY <1>1
  <2>2. (A \o B)[Len(A) + i] = B[(Len(A) + i) - Len(A)]
    BY <2>1, ConcatProperties, Zenon
  <2> QED  BY <2>1, <2>2
<1>3. ASSUME NEW i \in 1..Len(A)
      PROVE  (A \o B)[i] = A[i]
  <2>1. i \in 1 .. Len(A) + Len(B) /\ i <= Len(A)
    BY <1>1
  <2> QED  BY <2>1, ConcatProperties, Zenon
<1>4. A \o B \in Seq(S) /\ Len(A \o B) = Len(A) + Len(B)
  BY ConcatProperties, Zenon
<1>5. ASSUME NEW i \in 1..Len(A \o B), i > Len(A)
      PROVE  i - Len(A) \in 1..Len(B) /\ (A \o B)[i] = B[i - Len(A)]
  <2>1. i \in 1 .. Len(A) + Len(B) /\ ~(i <= Len(A))
    BY <1>1, <1>4, <1>5
  <2>2. (A \o B)[i] = B[i - Len(A)]
    BY <2>1, ConcatProperties, Zenon
  <2> QED  BY <2>1, <2>2, <1>1
<1> QED  BY <1>1, <1>2, <1>3, <1>4, <1>5 DEF Joined

\* A set of numbers that holds 0 and the successor of each member is Nat.
LEMMA NatInSet ==
  ASSUME NEW T \in SUBSET Nat, 0 \in T, \A n \in T : n + 1 \in T
  PROVE  T = Nat
<1> SUFFICES ASSUME T # Nat PROVE FALSE
  OBVIOUS
<1>1. Nat \ T \subseteq Nat /\ Nat \ T # {}
  OBVIOUS
<1>2. PICK n \in Nat \ T : \A m \in Nat \ T : <<m, n>> \notin OpToRel(<, Nat)
  BY <1>1, NatLessThanWellFounded, WFMin
<1>3. \A m \in Nat : m < n => m \in T
  BY <1>2 DEF OpToRel
<1>4. n \in Nat /\ n # 0
  OBVIOUS
<1>5. n - 1 \in Nat /\ n - 1 < n /\ (n - 1) + 1 = n
  BY <1>4
<1>6. n - 1 \in T
  BY <1>3, <1>5
<1> QED  BY <1>5, <1>6

\* The same up to N.
LEMMA Climb ==
  ASSUME NEW N \in Nat, NEW T, 0 \in T, \A n \in 0..N : n \in T /\ n < N => n + 1 \in T
  PROVE  0..N \subseteq T
<1> DEFINE U == {n \in Nat : n <= N => n \in T}
<1>1. 0 \in U /\ \A n \in U : n + 1 \in U
  OBVIOUS
<1>2. U = Nat
  <2>1. U \in SUBSET Nat
    OBVIOUS
  <2> HIDE DEF U
  <2> QED  BY <1>1, <2>1, NatInSet
<1> QED  BY <1>2

\* g starts with a and goes on by H.
GoesBy(g, N, V, a, H) ==
  g \in [0..N -> V] /\ g[0] = a /\ \A k \in 1..N : g[k] = H[k][g[k - 1]]

\* What is defined step by step exists.
LEMMA Iterates ==
  ASSUME NEW N \in Nat, NEW V, NEW a \in V, NEW H \in [1..N -> [V -> V]]
  PROVE  \E g : GoesBy(g, N, V, a, H)
<1> DEFINE T == {n \in 0..N : \E g \in [0..n -> V] :
                   g[0] = a /\ \A k \in 1..n : g[k] = H[k][g[k - 1]]}
<1>1. 0 \in T
  <2> DEFINE g == [i \in 0..0 |-> a]
  <2>1. g \in [0..0 -> V] /\ g[0] = a
    OBVIOUS
  <2> HIDE DEF g
  <2>2. \A k \in 1..0 : g[k] = H[k][g[k - 1]]
    OBVIOUS
  <2>3. 0 \in 0..N
    OBVIOUS
  <2> QED  BY <2>1, <2>2, <2>3
<1>2. ASSUME NEW n \in 0..N, n \in T, n < N PROVE n + 1 \in T
  <2>1. PICK g \in [0..n -> V] : g[0] = a /\ \A k \in 1..n : g[k] = H[k][g[k - 1]]
    BY <1>2
  <2>2. n \in Nat /\ n + 1 \in 1..N /\ g[n] \in V
    BY <1>2
  <2> DEFINE h == [i \in 0..n + 1 |-> IF i = n + 1 THEN H[n + 1][g[n]] ELSE g[i]]
  <2>3. H[n + 1][g[n]] \in V
    BY <2>2
  <2>4. h \in [0..n + 1 -> V]
    BY <2>2, <2>3
  <2>5. /\ \A i \in 0..n : h[i] = g[i]
        /\ h[n + 1] = H[n + 1][g[n]]
    BY <2>2
  <2> HIDE DEF h
  <2>6. h[0] = a
    BY <2>1, <2>2, <2>5
  <2>7. ASSUME NEW k \in 1..n + 1 PROVE h[k] = H[k][h[k - 1]]
    <3>1. CASE k = n + 1
      <4>1. k - 1 = n
        BY <2>2, <3>1
      <4> QED  BY <2>2, <2>5, <3>1, <4>1
    <3>2. CASE k # n + 1
      <4>1. k \in 1..n /\ k - 1 \in 0..n /\ k \in 0..n
        BY <2>2, <3>2
      <4> QED  BY <2>1, <2>5, <4>1
    <3> QED  BY <3>1, <3>2
  <2>8. n + 1 \in 0..N
    BY <2>2
  <2> QED  BY <2>4, <2>6, <2>7, <2>8
<1>3. 0..N \subseteq T
  <2> HIDE DEF T
  <2> QED  BY <1>1, <1>2, Climb
<1>4. N \in T
  BY <1>3
<1> QED  BY <1>4 DEF GoesBy

---------------------------------------------------------------------------
\* e lists the members of A, each once.
Enumerates(e, A) ==
  /\ e \in Seq(A) /\ Len(e) \in Nat
  /\ \A i, j \in 1..Len(e) : e[i] = e[j] => i = j
  /\ \A k \in A : \E i \in 1..Len(e) : e[i] = k

\* Ranks that differ put a set in order.
LEMMA InOrderEnumerates ==
  ASSUME NEW S, IsFiniteSet(S), NEW rank \in [S -> Nat],
         \A a, b \in S : rank[a] = rank[b] => a = b
  PROVE  Enumerates(InOrder(S, rank), S)
<1> DEFINE n == Cardinality(S)
           Below(k) == {j \in S : rank[j] < rank[k]}
           r == [k \in S |-> Cardinality(Below(k))]
           e == InOrder(S, rank)
<1>1. n \in Nat
  BY FS_CardinalityType
<1>2. ASSUME NEW k \in S
      PROVE  IsFiniteSet(Below(k)) /\ Cardinality(Below(k)) \in Nat /\ Cardinality(Below(k)) < n
  <2>1. Below(k) \in SUBSET S /\ k \notin Below(k)
    OBVIOUS
  <2> HIDE DEF Below
  <2>2. IsFiniteSet(Below(k)) /\ Cardinality(Below(k)) <= n /\ (n = Cardinality(Below(k)) => S = Below(k))
    BY <2>1, FS_Subset
  <2>3. Cardinality(Below(k)) \in Nat
    BY <2>2, FS_CardinalityType
  <2> QED  BY <1>1, <2>1, <2>2, <2>3
<1>3. ASSUME NEW a \in S, NEW b \in S, rank[a] < rank[b] PROVE r[a] < r[b]
  <2>1. Below(a) \in SUBSET Below(b) /\ a \in Below(b) /\ a \notin Below(a)
    BY <1>3
  <2> HIDE DEF Below
  <2>2. /\ Cardinality(Below(a)) <= Cardinality(Below(b))
        /\ Cardinality(Below(b)) = Cardinality(Below(a)) => Below(b) = Below(a)
    BY <1>2, <2>1, FS_Subset
  <2> QED  BY <1>2, <2>1, <2>2
<1>4. ASSUME NEW a \in S, NEW b \in S, r[a] = r[b] PROVE a = b
  <2>1. r[a] \in Nat /\ r[b] \in Nat
    BY <1>2
  <2> HIDE DEF r
  <2>2. ~(rank[a] < rank[b]) /\ ~(rank[b] < rank[a])
    BY <1>3, <1>4, <2>1
  <2>3. rank[a] \in Nat /\ rank[b] \in Nat
    OBVIOUS
  <2> QED  BY <2>2, <2>3
<1>5. r \in [S -> 0..n - 1]
  <2> HIDE DEF Below
  <2> QED  BY <1>1, <1>2
<1>6. r \in Surjection(S, 0..n - 1)
  <2>1. r \in Injection(S, 0..n - 1)
    <3> HIDE DEF r
    <3> QED  BY <1>4, <1>5 DEF Injection, IsInjective
  <2>2. IsFiniteSet(0..n - 1) /\ Cardinality(0..n - 1) = n
    <3> HIDE DEF n
    <3> QED  BY <1>1, FS_Interval
  <2> HIDE DEF r
  <2> QED  BY <2>1, <2>2, FS_Injection
<1>7. e = [i \in 1..n |-> CHOOSE k \in S : Cardinality(Below(k)) = i - 1]
  BY DEF InOrder
<1>8. ASSUME NEW i \in 1..n PROVE e[i] \in S /\ r[e[i]] = i - 1
  <2>1. \E k \in S : r[k] = i - 1
    <3>1. i - 1 \in 0..n - 1
      BY <1>1
    <3> HIDE DEF r
    <3> QED  BY <1>6, <3>1 DEF Surjection
  <2>2. \E k \in S : Cardinality(Below(k)) = i - 1
    BY <2>1
  <2> HIDE DEF Below, e
  <2>3. e[i] = CHOOSE k \in S : Cardinality(Below(k)) = i - 1
    BY <1>7
  <2>4. e[i] \in S /\ Cardinality(Below(e[i])) = i - 1
    BY <2>2, <2>3
  <2> QED  BY <2>4
<1>9. e \in [1..n -> S]
  <2> HIDE DEF r, Below, e
  <2> QED  BY <1>7, <1>8
<1> HIDE DEF e, r, Below
<1>10. e \in Seq(S) /\ Len(e) = n
  <2> HIDE DEF n
  <2> QED  BY <1>1, <1>9
<1>11. ASSUME NEW k \in S PROVE \E i \in 1..Len(e) : e[i] = k
  <2>1. r[k] \in 0..n - 1 /\ r[k] + 1 \in 1..n
    BY <1>1, <1>5
  <2>2. r[e[r[k] + 1]] = r[k] /\ e[r[k] + 1] \in S
    BY <1>1, <1>8, <2>1
  <2> QED  BY <1>4, <1>10, <2>1, <2>2
<1>12. ASSUME NEW i \in 1..n, NEW j \in 1..n, e[i] = e[j] PROVE i = j
  <2>1. r[e[i]] = i - 1 /\ r[e[j]] = j - 1
    BY <1>8
  <2> HIDE DEF n
  <2> QED  BY <1>1, <1>12, <2>1
<1> QED  BY <1>1, <1>10, <1>11, <1>12 DEF Enumerates, e

\* Two lists that share nothing.
LEMMA CatEnumerates ==
  ASSUME NEW A, NEW B, A \cap B = {}, NEW a, Enumerates(a, A), NEW b, Enumerates(b, B)
  PROVE  Enumerates(a \o b, A \cup B)
<1> DEFINE S == A \cup B
           c == a \o b
<1>1. a \in Seq(A) /\ b \in Seq(B) /\ Len(a) \in Nat /\ Len(b) \in Nat
  BY DEF Enumerates
<1>2. a \in Seq(S) /\ b \in Seq(S) /\ (\A i \in 1..Len(a) : a[i] \in A) /\ (\A i \in 1..Len(b) : b[i] \in B)
  BY <1>1
<1> HIDE DEF S
<1>3. Joined(c, a, b, S)
  BY <1>2, Cat
<1> HIDE DEF c
<1>4. c \in Seq(S) /\ Len(c) = Len(a) + Len(b) /\ Len(c) \in Nat
  BY <1>1, <1>3 DEF Joined
<1>5. \A i \in 1..Len(a) : i \in 1..Len(c) /\ c[i] = a[i]
  BY <1>1, <1>3, <1>4 DEF Joined
<1>6. \A i \in 1..Len(b) : Len(a) + i \in 1..Len(c) /\ c[Len(a) + i] = b[i]
  BY <1>1, <1>3, <1>4 DEF Joined
<1>7. \A i \in 1..Len(c) : i \notin 1..Len(a) => i - Len(a) \in 1..Len(b) /\ c[i] = b[i - Len(a)]
  BY <1>1, <1>3, <1>4 DEF Joined
<1>8. ASSUME NEW i \in 1..Len(c), NEW j \in 1..Len(c), c[i] = c[j] PROVE i = j
  <2>1. CASE i \in 1..Len(a) /\ j \in 1..Len(a)
    BY <1>5, <1>8, <2>1 DEF Enumerates
  <2>2. CASE i \notin 1..Len(a) /\ j \notin 1..Len(a)
    <3>1. /\ i - Len(a) \in 1..Len(b) /\ c[i] = b[i - Len(a)]
          /\ j - Len(a) \in 1..Len(b) /\ c[j] = b[j - Len(a)]
      BY <1>7, <2>2
    <3>2. i - Len(a) = j - Len(a)
      BY <1>8, <3>1 DEF Enumerates
    <3> QED  BY <1>1, <1>4, <3>2
  <2>3. CASE i \in 1..Len(a) /\ j \notin 1..Len(a)
    <3>1. c[i] \in A /\ c[j] \in B
      BY <1>2, <1>5, <1>7, <2>3
    <3> QED  BY <1>8, <3>1
  <2>4. CASE i \notin 1..Len(a) /\ j \in 1..Len(a)
    <3>1. c[i] \in B /\ c[j] \in A
      BY <1>2, <1>5, <1>7, <2>4
    <3> QED  BY <1>8, <3>1
  <2> QED  BY <2>1, <2>2, <2>3, <2>4
<1>9. ASSUME NEW k \in A \cup B PROVE \E i \in 1..Len(c) : c[i] = k
  <2>1. CASE k \in A
    <3>1. PICK i \in 1..Len(a) : a[i] = k
      BY <2>1 DEF Enumerates
    <3> QED  BY <1>5, <3>1
  <2>2. CASE k \in B
    <3>1. PICK i \in 1..Len(b) : b[i] = k
      BY <2>2 DEF Enumerates
    <3> QED  BY <1>6, <3>1
  <2> QED  BY <2>1, <2>2
<1> QED  BY <1>4, <1>8, <1>9 DEF Enumerates, S, c

\* The empty list lists the empty set.
LEMMA EmptyList ==
  ASSUME NEW e, Enumerates(e, {})
  PROVE  e = <<>>
<1>1. e \in Seq({}) /\ Len(e) \in Nat
  BY DEF Enumerates
<1>2. ASSUME NEW i \in 1..Len(e) PROVE FALSE
  <2>1. e[i] \in {}
    BY <1>1
  <2> QED  BY <2>1
<1>3. Len(e) = 0
  BY <1>1, <1>2
<1> QED  BY <1>1, <1>3, EmptySeq

---------------------------------------------------------------------------
\* F lists what the first lists of ws are together.
Accumulates(F, ws, S) ==
  /\ F \in [0..Len(ws) -> Seq(S)] /\ F[0] = <<>>
  /\ \A i \in 1..Len(ws) : F[i] = F[i - 1] \o ws[i]
  /\ FlattenSeq(ws) = F[Len(ws)]

\* c lists them as FlattenSeq does.
ListsParts(c, ws) ==
  c = [i \in 1..Len(ws) |-> IF i = 1 THEN ws[i] ELSE c[i - 1] \o ws[i]]

\* FlattenSeq puts its lists one after the other.
LEMMA Flattened ==
  ASSUME NEW S, NEW ws \in Seq(Seq(S))
  PROVE  \E F : Accumulates(F, ws, S)
<1> DEFINE n == Len(ws)
<1>1. n \in Nat /\ \A i \in 1..n : ws[i] \in Seq(S)
  OBVIOUS
<1>2. <<>> \in Seq(S)
  OBVIOUS
<1>3. CASE n = 0
  <2>1. ws = <<>>
    BY <1>3, EmptySeq
  <2>2. FlattenSeq(ws) = <<>>
    BY <1>3, <2>1 DEF FlattenSeq
  <2> DEFINE F == [i \in 0..0 |-> <<>>]
  <2>3. F \in [0..Len(ws) -> Seq(S)] /\ F[0] = <<>> /\ F[Len(ws)] = <<>>
    BY <1>2, <1>3
  <2>4. \A i \in 1..Len(ws) : FALSE
    BY <1>3
  <2> HIDE DEF F
  <2>5. Accumulates(F, ws, S)
    BY <2>2, <2>3, <2>4 DEF Accumulates
  <2> QED  BY <2>5
<1>4. CASE n # 0
  <2> DEFINE H == [k \in 1..n |-> [x \in Seq(S) |-> x \o ws[k]]]
             c == CHOOSE f : ListsParts(f, ws)
  <2>1. H \in [1..n -> [Seq(S) -> Seq(S)]]
    <3>1. \A k \in 1..n, x \in Seq(S) : x \o ws[k] \in Seq(S)
      BY <1>1, ConcatProperties
    <3> QED  BY <3>1
  <2>2. PICK g : GoesBy(g, n, Seq(S), <<>>, H)
    <3> HIDE DEF H, n
    <3> QED  BY <1>1, <1>2, <2>1, Iterates
  <2>3. g \in [0..n -> Seq(S)] /\ g[0] = <<>>
    BY <2>2 DEF GoesBy
  <2>4. ASSUME NEW k \in 1..n PROVE g[k] = g[k - 1] \o ws[k]
    <3>1. k - 1 \in 0..n
      BY <1>1
    <3>2. g[k - 1] \in Seq(S)
      BY <2>3, <3>1
    <3>3. H[k][g[k - 1]] = g[k - 1] \o ws[k]
      BY <3>2
    <3> HIDE DEF H, n
    <3>4. g[k] = H[k][g[k - 1]]
      BY <2>2 DEF GoesBy
    <3> QED  BY <3>3, <3>4
  <2> HIDE DEF H
  <2> DEFINE f0 == [i \in 1..n |-> g[i]]
  <2>5. g[1] = ws[1]
    <3>1. 1 \in 1..n
      BY <1>1, <1>4
    <3>2. PICK k \in 1..n : k = 1 /\ k - 1 = 0
      BY <3>1
    <3>3. g[k] = g[k - 1] \o ws[k] /\ ws[k] \in Seq(S)
      BY <1>1, <2>4
    <3>4. g[k] = <<>> \o ws[k]
      BY <2>3, <3>2, <3>3
    <3> QED  BY <3>2, <3>3, <3>4, ConcatEmptySeq
  <2>6. ListsParts(f0, ws)
    <3>1. ASSUME NEW i \in 1..n PROVE f0[i] = IF i = 1 THEN ws[i] ELSE f0[i - 1] \o ws[i]
      <4>1. CASE i = 1
        BY <2>5, <4>1
      <4>2. CASE i # 1
        <5>1. i - 1 \in 1..n
          BY <1>1, <4>2
        <5> QED  BY <2>4, <4>2, <5>1
      <4> QED  BY <4>1, <4>2
    <3> QED  BY <3>1 DEF ListsParts
  <2>7. ListsParts(c, ws)
    <3> HIDE DEF f0
    <3> QED  BY <2>6
  <2>8. FlattenSeq(ws) = c[n]
    BY <1>4, Zenon DEF FlattenSeq, ListsParts
  <2> HIDE DEF c, f0
  <2>9. c[1] = ws[1] /\ \A i \in 2..n : c[i] = c[i - 1] \o ws[i]
    <3>1. ASSUME NEW i \in 1..n PROVE c[i] = IF i = 1 THEN ws[i] ELSE c[i - 1] \o ws[i]
      BY <2>7, Zenon DEF ListsParts
    <3>2. 1 \in 1..n /\ \A i \in 2..n : i \in 1..n /\ i # 1
      BY <1>1, <1>4
    <3> HIDE DEF n
    <3> QED  BY <3>1, <3>2
  <2> DEFINE T == {k \in 0..n : k # 0 => c[k] = g[k]}
  <2>10. 0 \in T
    BY <1>1
  <2>11. ASSUME NEW k \in 0..n, k \in T, k < n PROVE k + 1 \in T
    <3>1. CASE k = 0
      BY <1>1, <2>5, <2>9, <2>11, <3>1
    <3>2. CASE k # 0
      <4>1. k + 1 \in 2..n /\ k + 1 \in 1..n /\ (k + 1) - 1 = k
        BY <1>1, <2>11, <3>2
      <4>2. c[k + 1] = c[k] \o ws[k + 1] /\ g[k + 1] = g[k] \o ws[k + 1]
        BY <2>4, <2>9, <4>1
      <4>3. c[k] = g[k]
        BY <2>11, <3>2
      <4>4. c[k + 1] = g[k + 1]
        BY <4>2, <4>3
      <4>5. k + 1 \in 0..n
        BY <1>1, <4>1
      <4> HIDE DEF n
      <4> QED  BY <4>4, <4>5
    <3> QED  BY <3>1, <3>2
  <2>12. 0..n \subseteq T
    <3> HIDE DEF T, n
    <3> QED  BY <1>1, <2>10, <2>11, Climb
  <2>13. c[n] = g[n]
    BY <1>1, <1>4, <2>12
  <2> HIDE DEF T
  <2>14. Accumulates(g, ws, S)
    BY <2>3, <2>4, <2>8, <2>13 DEF Accumulates
  <2> QED  BY <2>14
<1> QED  BY <1>3, <1>4

\* Lists that share nothing, one after the other.
Parted(ws, A, S, U) ==
  /\ ws \in Seq(Seq(S)) /\ A \in [1..Len(ws) -> SUBSET S]
  /\ \A i \in 1..Len(ws) : Enumerates(ws[i], A[i])
  /\ \A i, j \in 1..Len(ws) : i # j => A[i] \cap A[j] = {}
  /\ U = UNION {A[i] : i \in 1..Len(ws)}

\* Parts that share nothing flatten to a list of their union.
LEMMA FlatEnumerates ==
  ASSUME NEW S, NEW ws, NEW A, NEW U, Parted(ws, A, S, U)
  PROVE  Enumerates(FlattenSeq(ws), U)
<1>0. /\ ws \in Seq(Seq(S)) /\ A \in [1..Len(ws) -> SUBSET S]
      /\ \A i \in 1..Len(ws) : Enumerates(ws[i], A[i])
      /\ \A i, j \in 1..Len(ws) : i # j => A[i] \cap A[j] = {}
      /\ U = UNION {A[i] : i \in 1..Len(ws)}
  BY DEF Parted
<1> DEFINE n == Len(ws)
           Upto(k) == UNION {A[i] : i \in 1..k}
<1>1. n \in Nat
  BY <1>0
<1>2. PICK F : Accumulates(F, ws, S)
  BY <1>0, Flattened
<1> DEFINE T == {k \in 0..n : Enumerates(F[k], Upto(k))}
<1>3. 0 \in T
  <2>1. Enumerates(<<>>, {})
    BY DEF Enumerates
  <2>2. Upto(0) = {}
    OBVIOUS
  <2>3. F[0] = <<>> /\ 0 \in 0..n
    BY <1>1, <1>2 DEF Accumulates
  <2> HIDE DEF Upto
  <2> QED  BY <2>1, <2>2, <2>3
<1>4. ASSUME NEW k \in 0..n, k \in T, k < n PROVE k + 1 \in T
  <2>1. k + 1 \in 1..n /\ (k + 1) - 1 = k /\ k + 1 \in 0..n
    BY <1>1, <1>4
  <2>2. F[k + 1] = F[k] \o ws[k + 1]
    BY <1>2, <2>1 DEF Accumulates
  <2>3. Upto(k + 1) = Upto(k) \cup A[k + 1]
    <3>1. 1..k + 1 = (1..k) \cup {k + 1}
      BY <1>1
    <3> QED  BY <3>1
  <2>4. Upto(k) \cap A[k + 1] = {}
    <3>1. \A i \in 1..k : i \in 1..n /\ i # k + 1
      BY <1>1, <1>4
    <3> QED  BY <1>0, <2>1, <3>1
  <2>5. Enumerates(F[k], Upto(k))
    BY <1>4
  <2>6. Enumerates(ws[k + 1], A[k + 1])
    BY <1>0, <2>1
  <2> HIDE DEF Upto
  <2>7. Enumerates(F[k + 1], Upto(k + 1))
    BY <2>2, <2>3, <2>4, <2>5, <2>6, CatEnumerates
  <2> QED  BY <2>1, <2>7
<1>5. 0..n \subseteq T
  <2> HIDE DEF T, n
  <2> QED  BY <1>1, <1>3, <1>4, Climb
<1>6. Enumerates(F[n], Upto(n))
  <2> HIDE DEF n, Upto
  <2>1. n \in 0..n
    BY <1>1
  <2> QED  BY <1>5, <2>1
<1> QED  BY <1>0, <1>2, <1>6 DEF Accumulates
---------------------------------------------------------------------------
\* s reads w from place p on.
Stands(s, p, w) ==
  /\ p \in Nat \ {0} /\ Len(w) \in Nat /\ p + Len(w) - 1 <= Len(s)
  /\ \A i \in 1..Len(w) : s[p + i - 1] = w[i]

\* Where a concatenation stands, so do its halves.
LEMMA AtCat ==
  ASSUME NEW S, NEW a \in Seq(S), NEW b \in Seq(S), NEW s, Len(s) \in Nat, NEW p, Stands(s, p, a \o b)
  PROVE  Stands(s, p, a) /\ Stands(s, p + Len(a), b)
<1>1. Joined(a \o b, a, b, S)
  BY Cat
<1> DEFINE c == a \o b
<1> HIDE DEF c
<1>2. /\ Len(a) \in Nat /\ Len(b) \in Nat /\ Len(c) = Len(a) + Len(b)
      /\ \A i \in 1..Len(a) : c[i] = a[i]
      /\ \A i \in 1..Len(b) : c[Len(a) + i] = b[i]
  BY <1>1 DEF Joined, c
<1>3. Stands(s, p, c)
  BY DEF c
<1>4. p \in Nat \ {0} /\ p + Len(c) - 1 <= Len(s) /\ \A i \in 1..Len(c) : s[p + i - 1] = c[i]
  BY <1>3 DEF Stands
<1>5. ASSUME NEW i \in 1..Len(a) PROVE s[p + i - 1] = a[i]
  <2>1. i \in 1..Len(c)
    BY <1>2
  <2> QED  BY <1>2, <1>4, <2>1
<1>6. ASSUME NEW i \in 1..Len(b) PROVE s[(p + Len(a)) + i - 1] = b[i]
  <2>1. Len(a) + i \in 1..Len(c) /\ p + (Len(a) + i) - 1 = (p + Len(a)) + i - 1
    BY <1>2, <1>4
  <2>2. s[p + (Len(a) + i) - 1] = c[Len(a) + i]
    BY <1>4, <2>1
  <2> QED  BY <1>2, <2>1, <2>2
<1>7. p + Len(a) - 1 <= Len(s) /\ (p + Len(a)) + Len(b) - 1 <= Len(s) /\ p + Len(a) \in Nat \ {0}
  BY <1>2, <1>4
<1> QED  BY <1>2, <1>4, <1>5, <1>6, <1>7 DEF Stands

\* One element at its place.
LEMMA AtOne ==
  ASSUME NEW s, NEW p, NEW x, Stands(s, p, <<x>>)
  PROVE  s[p] = x
<1>1. Len(<<x>>) = 1 /\ <<x>>[1] = x
  OBVIOUS
<1>2. p \in Nat /\ p + 1 - 1 = p /\ s[p + 1 - 1] = <<x>>[1]
  <2>1. 1 \in 1..Len(<<x>>)
    BY <1>1
  <2>2. p \in Nat /\ \A i \in 1..Len(<<x>>) : s[p + i - 1] = <<x>>[i]
    BY Zenon DEF Stands
  <2>3. s[p + 1 - 1] = <<x>>[1]
    BY <2>1, <2>2, Zenon
  <2> QED  BY <2>2, <2>3
<1> QED  BY <1>1, <1>2

\* What stands at a place is the part of the sequence that is as long.
LEMMA AtIs ==
  ASSUME NEW S, NEW s \in Seq(S), NEW V, NEW v \in Seq(V), NEW p, Stands(s, p, v)
  PROVE  SubSeq(s, p, p + Len(v) - 1) = v
<1> DEFINE t == SubSeq(s, p, p + Len(v) - 1)
<1>1. Len(v) \in Nat /\ Len(s) \in Nat /\ p \in Nat \ {0} /\ p + Len(v) - 1 <= Len(s)
  BY DEF Stands
<1>2. /\ t \in Seq(S) /\ Len(t) = Len(v)
      /\ \A i \in 1..Len(v) : t[i] = s[p + i - 1]
  <2>1. p \in 1..Len(s) + 1 /\ p + Len(v) - 1 \in p - 1..Len(s)
    BY <1>1
  <2>2. (p + Len(v) - 1) - p + 1 = Len(v)
    BY <1>1
  <2> QED  BY <2>1, <2>2, SubSeqProperties
<1>3. ASSUME NEW i \in 1..Len(v) PROVE t[i] = v[i]
  BY <1>2 DEF Stands
<1> HIDE DEF t
<1> QED  BY <1>1, <1>2, <1>3, SeqEqual DEF t

\* Each part of ws stands behind those before it.
PartsStand(s, p, F, ws) ==
  \A i \in 1..Len(ws) : /\ Stands(s, p + Len(F[i - 1]), ws[i])
                        /\ Len(F[i - 1]) \in Nat /\ Len(F[i]) \in Nat
                        /\ Len(F[i]) = Len(F[i - 1]) + Len(ws[i])

\* Where a flattened list stands, so does each of its parts.
LEMMA AtParts ==
  ASSUME NEW S, NEW ws \in Seq(Seq(S)), NEW F, Accumulates(F, ws, S), NEW s, Len(s) \in Nat,
         NEW p, Stands(s, p, FlattenSeq(ws))
  PROVE  PartsStand(s, p, F, ws)
<1> DEFINE n == Len(ws)
<1>1. n \in Nat /\ \A i \in 1..n : ws[i] \in Seq(S)
  OBVIOUS
<1>2. /\ F \in [0..n -> Seq(S)] /\ FlattenSeq(ws) = F[n]
      /\ \A i \in 1..n : F[i] = F[i - 1] \o ws[i]
  BY DEF Accumulates
<1> HIDE DEF n
<1> DEFINE T == {k \in 0..n : Stands(s, p, F[n - k])}
<1>3. 0 \in T
  <2>1. n - 0 = n /\ 0 \in 0..n
    BY <1>1
  <2> QED  BY <1>2, <2>1
<1>4. ASSUME NEW k \in 0..n, k \in T, k < n PROVE k + 1 \in T
  <2>1. n - k \in 1..n /\ (n - k) - 1 = n - (k + 1) /\ (n - k) - 1 \in 0..n /\ k + 1 \in 0..n
    BY <1>1, <1>4
  <2>2. F[n - k] = F[(n - k) - 1] \o ws[n - k] /\ F[(n - k) - 1] \in Seq(S) /\ ws[n - k] \in Seq(S)
    BY <1>1, <1>2, <2>1
  <2>3. Stands(s, p, F[(n - k) - 1] \o ws[n - k])
    BY <1>4, <2>2
  <2>4. Stands(s, p, F[(n - k) - 1])
    BY <2>2, <2>3, AtCat
  <2> QED  BY <2>1, <2>4
<1>5. 0..n \subseteq T
  <2> HIDE DEF T
  <2> QED  BY <1>1, <1>3, <1>4, Climb
<1>6. ASSUME NEW i \in 1..n
      PROVE  /\ Stands(s, p + Len(F[i - 1]), ws[i])
             /\ Len(F[i - 1]) \in Nat /\ Len(F[i]) \in Nat
             /\ Len(F[i]) = Len(F[i - 1]) + Len(ws[i])
  <2>1. n - i \in 0..n /\ n - (n - i) = i /\ i - 1 \in 0..n /\ i \in 0..n
    BY <1>1
  <2>2. Stands(s, p, F[i])
    BY <1>5, <2>1
  <2>3. F[i] = F[i - 1] \o ws[i] /\ F[i - 1] \in Seq(S) /\ F[i] \in Seq(S) /\ ws[i] \in Seq(S)
    BY <1>1, <1>2, <2>1
  <2>4. Stands(s, p + Len(F[i - 1]), ws[i])
    BY <2>2, <2>3, AtCat
  <2>5. Joined(F[i], F[i - 1], ws[i], S)
    BY <2>3, Cat
  <2> QED  BY <2>3, <2>4, <2>5, LenProperties DEF Joined
<1> QED  BY <1>6 DEF n, PartsStand

---------------------------------------------------------------------------
\* Lengths: up to three bytes, of which all but the last are at least 128.
LEMMA U16Nat == U16 \in Nat
BY DEF U16

\* The least of a single place.
LEMMA MinOne ==
  ASSUME NEW m \in Nat
  PROVE  Min({m}) = m
BY DEF Min

\* Where a length of three bytes or fewer can end.
LEMMA UpToThree ==
  ASSUME NEW L \in Nat, NEW m \in 1..3, m <= L
  PROVE  Min({3, L}) \in 1..3 /\ m <= Min({3, L})
<1> DEFINE x == Min({3, L})
<1>1. \E y \in {3, L} : \A z \in {3, L} : y <= z
  <2>1. CASE L <= 3
    BY <2>1
  <2>2. CASE ~(L <= 3)
    BY <2>2
  <2> QED  BY <2>1, <2>2
<1>2. x \in {3, L} /\ \A z \in {3, L} : x <= z
  BY <1>1 DEF Min
<1> HIDE DEF x
<1> QED  BY <1>2 DEF x

\* Quotient and remainder by 128.
LEMMA Divided ==
  ASSUME NEW n \in Nat
  PROVE  /\ n % 128 \in Nat /\ n % 128 < 128 /\ n \div 128 \in Nat
         /\ n = 128 * (n \div 128) + (n % 128)
BY SMT

\* Two bytes put together and taken apart.
LEMMA SevenBits ==
  ASSUME NEW a \in Nat, a < 128
  PROVE  (a + 128) % 128 = a /\ a % 128 = a
BY SMT

\* a, b and c are the bytes of n, seven bits each.
BytesOf(n, e, a, b, c) ==
  /\ a \in Nat /\ b \in Nat /\ c \in Nat /\ a < 128 /\ b < 128 /\ c < 128
  /\ n = a + 128 * b + (128 * 128) * c
  /\ \/ n < 128 /\ b = 0 /\ c = 0 /\ e = <<a>>
     \/ n >= 128 /\ c = 0 /\ e = <<a + 128, b>>
     \/ n >= 128 /\ e = <<a + 128, b + 128, c>>

\* Encode writes the bytes of its number.
LEMMA EncodeIs ==
  ASSUME NEW n \in Nat, n < U16
  PROVE  \E a, b, c : BytesOf(n, Encode(n), a, b, c)
<1> DEFINE a == n % 128
           q == n \div 128
           b == q % 128
           c == q \div 128
<1>1. /\ a \in Nat /\ b \in Nat /\ c \in Nat /\ q \in Nat
      /\ a < 128 /\ b < 128 /\ c < 128 /\ n = 128 * q + a /\ q = 128 * c + b
  <2>1. a \in Nat /\ a < 128 /\ q \in Nat /\ n = 128 * q + a
    BY Divided
  <2>2. b \in Nat /\ b < 128 /\ c \in Nat /\ q = 128 * c + b
    <3> HIDE DEF q
    <3> QED  BY <2>1, Divided
  <2> HIDE DEF a, q, b, c
  <2>3. c < 128
    BY <2>1, <2>2, SMT DEF U16
  <2> QED  BY <2>1, <2>2, <2>3
<1>2. CASE n < 128
  <2>2. Encode(n) = <<n>>
    BY <1>2, SMT DEF Encode
  <2> HIDE DEF a, q, b, c
  <2>1. q = 0 /\ b = 0 /\ c = 0 /\ a = n
    BY <1>1, <1>2, SMT
  <2>3. BytesOf(n, Encode(n), a, b, c)
    BY <1>1, <1>2, <2>1, <2>2, SMT DEF BytesOf
  <2> QED  BY <2>3
<1>3. CASE n >= 128 /\ n < 128 * 128
  <2>2. Encode(n) = <<a + 128, q>>
    BY <1>3, SMT DEF Encode
  <2> HIDE DEF a, q, b, c
  <2>1. q = b /\ c = 0
    BY <1>1, <1>3, SMT
  <2>3. Encode(n) = <<a + 128, b>>
    BY <1>1, <2>1, <2>2, SMT
  <2>4. n = a + 128 * b + (128 * 128) * c
    BY <1>1, <2>1, SMT
  <2>5. BytesOf(n, Encode(n), a, b, c)
    BY <1>1, <1>3, <2>1, <2>3, <2>4, SMT DEF BytesOf
  <2> QED  BY <2>5
<1>4. CASE n >= 128 * 128
  <2>2. Encode(n) = <<a + 128, b + 128, c>>
    BY <1>4, SMT DEF Encode
  <2> HIDE DEF a, q, b, c
  <2>3. n = a + 128 * b + (128 * 128) * c /\ n >= 128
    BY <1>1, <1>4, SMT
  <2>4. BytesOf(n, Encode(n), a, b, c)
    BY <1>1, <2>2, <2>3, SMT DEF BytesOf
  <2> QED  BY <2>4
<1> QED  BY <1>2, <1>3, <1>4, SMT

\* What Encode writes are one to three numbers.
LEMMA EncodeType ==
  ASSUME NEW n \in Nat, n < U16
  PROVE  /\ Encode(n) \in Seq(Nat) /\ Len(Encode(n)) \in 1..3
         /\ Len(Encode(n)) \in Nat /\ 1 <= Len(Encode(n)) /\ Len(Encode(n)) <= 3
<1>1. PICK a, b, c : BytesOf(n, Encode(n), a, b, c)
  BY EncodeIs
<1>2. \/ Encode(n) = <<a>> \/ Encode(n) = <<a + 128, b>> \/ Encode(n) = <<a + 128, b + 128, c>>
  BY <1>1 DEF BytesOf
<1>3. {a, b, c, a + 128, b + 128} \subseteq Nat
  BY <1>1 DEF BytesOf
<1>4. CASE Encode(n) = <<a>>
  BY <1>3, <1>4
<1>5. CASE Encode(n) = <<a + 128, b>>
  BY <1>3, <1>5
<1>6. CASE Encode(n) = <<a + 128, b + 128, c>>
  BY <1>3, <1>6
<1> QED  BY <1>2, <1>4, <1>5, <1>6

\* Decode reads what Encode wrote at the head of a sequence.
LEMMA DecodeHead ==
  ASSUME NEW S, NEW t \in Seq(S), NEW n \in Nat, n < U16, Stands(t, 1, Encode(n))
  PROVE  Decode(t) = [ok |-> TRUE, len |-> Len(Encode(n)), val |-> n]
<1> DEFINE e == Encode(n)
           L == Len(e)
           Stop(i) == (\A j \in 1..i - 1 : t[j] >= 128) /\ t[i] < 128
           ends == {i \in 1..Min({3, Len(t)}) : Stop(i)}
<1>1. L \in 1..3 /\ Len(t) \in Nat /\ L <= Len(t)
  <2>1. Len(t) \in Nat /\ 1 + L - 1 <= Len(t)
    BY DEF Stands
  <2>2. L \in 1..3
    BY EncodeType
  <2> HIDE DEF L
  <2> QED  BY <2>1, <2>2
<1>2. \A i \in 1..L : t[i] = e[i]
  <2>1. \A i \in 1..L : t[1 + i - 1] = e[i]
    BY DEF Stands
  <2> HIDE DEF L, e
  <2>2. \A i \in 1..L : 1 + i - 1 = i
    BY <1>1
  <2> QED  BY <2>1, <2>2
<1>3. PICK a, b, c : BytesOf(n, e, a, b, c)
  BY EncodeIs
<1> HIDE DEF e
<1>4. /\ a \in Nat /\ b \in Nat /\ c \in Nat /\ a < 128 /\ b < 128 /\ c < 128
      /\ n = a + 128 * b + (128 * 128) * c
      /\ \/ L = 1 /\ t[1] = a /\ b = 0 /\ c = 0
         \/ L = 2 /\ t[1] = a + 128 /\ t[2] = b /\ c = 0
         \/ L = 3 /\ t[1] = a + 128 /\ t[2] = b + 128 /\ t[3] = c
  <2>1. CASE e = <<a>> /\ b = 0 /\ c = 0
    <3>1. L = 1 /\ e[1] = a
      BY <2>1
    <3> QED  BY <1>2, <1>3, <2>1, <3>1, SMT DEF BytesOf
  <2>2. CASE e = <<a + 128, b>> /\ c = 0
    <3>1. L = 2 /\ e[1] = a + 128 /\ e[2] = b
      BY <2>2
    <3> QED  BY <1>2, <1>3, <2>2, <3>1, SMT DEF BytesOf
  <2>3. CASE e = <<a + 128, b + 128, c>>
    <3>1. L = 3 /\ e[1] = a + 128 /\ e[2] = b + 128 /\ e[3] = c
      BY <2>3
    <3> QED  BY <1>2, <1>3, <2>3, <3>1, SMT DEF BytesOf
  <2> QED  BY <1>3, <2>1, <2>2, <2>3 DEF BytesOf
<1> HIDE DEF L
<1>5. Min({3, Len(t)}) \in 1..3 /\ L <= Min({3, Len(t)})
  BY <1>1, UpToThree
<1>6. Stop(L) /\ \A i \in 1..3 : Stop(i) => i = L
  <2>1. CASE L = 1
    <3>1. t[1] \in Nat /\ t[1] < 128
      BY <1>4, <2>1
    <3> QED  BY <2>1, <3>1
  <2>2. CASE L = 2
    <3>1. t[1] \in Nat /\ t[1] >= 128 /\ t[2] \in Nat /\ t[2] < 128
      BY <1>4, <2>2
    <3> QED  BY <2>2, <3>1
  <2>3. CASE L = 3
    <3>1. t[1] \in Nat /\ t[1] >= 128 /\ t[2] \in Nat /\ t[2] >= 128 /\ t[3] \in Nat /\ t[3] < 128
      BY <1>4, <2>3
    <3> QED  BY <2>3, <3>1
  <2> QED  BY <1>1, <2>1, <2>2, <2>3
<1>7. ends = {L}
  <2> HIDE DEF Stop
  <2> QED  BY <1>1, <1>5, <1>6
<1> HIDE DEF Stop
<1>8. Min(ends) = L
  <2> HIDE DEF ends
  <2> QED  BY <1>1, <1>7, MinOne
<1> DEFINE Bits(i, unit) == IF i <= Min(ends) THEN (t[i] % 128) * unit ELSE 0
           sum == Bits(1, 1) + Bits(2, 128) + Bits(3, 128 * 128)
<1>9. Decode(t) = IF ends = {} THEN [ok |-> FALSE, len |-> 0, val |-> 0]
                  ELSE [ok |-> TRUE, len |-> Min(ends), val |-> sum % U16]
  BY Zenon DEF Decode, Stop
<1> HIDE DEF ends
<1>10. /\ a % 128 = a /\ (a + 128) % 128 = a /\ b % 128 = b /\ (b + 128) % 128 = b /\ c % 128 = c
  BY <1>4, SevenBits
<1>11. sum = n
  <2>1. CASE L = 1
    BY <1>4, <1>8, <1>10, <2>1, SMT
  <2>2. CASE L = 2
    BY <1>4, <1>8, <1>10, <2>2, SMT
  <2>3. CASE L = 3
    <3>1. t[1] = a + 128 /\ t[2] = b + 128 /\ t[3] = c
      BY <1>4, <2>3
    <3>2. Bits(1, 1) = a * 1 /\ Bits(2, 128) = b * 128 /\ Bits(3, 128 * 128) = c * (128 * 128)
      BY <1>8, <1>10, <2>3, <3>1
    <3> HIDE DEF Bits
    <3> QED  BY <1>4, <3>2, SMT
  <2> QED  BY <1>1, <2>1, <2>2, <2>3
<1> HIDE DEF sum
<1>12. sum % U16 = n
  BY <1>11, SMT DEF U16
<1>13. ends # {}
  BY <1>7
<1> QED  BY <1>8, <1>9, <1>12, <1>13 DEF L, e

\* A length is read where it was written.
LEMMA DecodeAt ==
  ASSUME NEW S, NEW s \in Seq(S), NEW p, NEW n \in Nat, n < U16, Stands(s, p, Encode(n))
  PROVE  Decode(SubSeq(s, p, Len(s))) = [ok |-> TRUE, len |-> Len(Encode(n)), val |-> n]
<1> DEFINE t == SubSeq(s, p, Len(s))
           e == Encode(n)
<1>1. Len(e) \in Nat /\ 1 <= Len(e) /\ Len(s) \in Nat /\ p \in Nat /\ p # 0 /\ p + Len(e) - 1 <= Len(s)
  BY EncodeType DEF Stands
<1>2. /\ t \in Seq(S) /\ Len(t) = Len(s) - p + 1
      /\ \A i \in 1..Len(t) : t[i] = s[p + i - 1]
  <2> HIDE DEF e
  <2>1. p \in Int /\ Len(s) \in Int /\ p <= Len(s) /\ \A i \in p..Len(s) : s[i] \in S
    <3>1. p \in Nat /\ 1 <= p /\ p <= Len(s)
      BY <1>1
    <3>2. \A i \in p..Len(s) : i \in 1..Len(s)
      BY <1>1, <3>1
    <3> QED  BY <1>1, <3>1, <3>2, ElementOfSeq
  <2>2. /\ t \in Seq(S) /\ Len(t) = (IF p <= Len(s) THEN Len(s) - p + 1 ELSE 0)
        /\ \A i \in 1..Len(s) - p + 1 : t[i] = s[p + i - 1]
    BY <2>1, SubSeqProperties
  <2> HIDE DEF t
  <2> QED  BY <2>1, <2>2
<1>3. Stands(t, 1, e)
  <2>1. \A i \in 1..Len(e) : s[p + i - 1] = e[i]
    BY DEF Stands
  <2> HIDE DEF e, t
  <2>2. 1 + Len(e) - 1 <= Len(t) /\ \A i \in 1..Len(e) : i \in 1..Len(t) /\ 1 + i - 1 = i
    BY <1>1, <1>2
  <2> QED  BY <1>1, <1>2, <2>1, <2>2 DEF Stands
<1> HIDE DEF t
<1> QED  BY <1>2, <1>3, DecodeHead DEF t

---------------------------------------------------------------------------
\* What was written is read back.
LEMMA CountedIs ==
  ASSUME NEW v \in Seq(Nat), Len(v) < U16
  PROVE  /\ Counted(v) \in Seq(Nat) /\ Len(Counted(v)) \in Nat
         /\ Len(Counted(v)) = Len(Encode(Len(v))) + Len(v)
<1>1. Len(v) \in Nat
  OBVIOUS
<1>2. Encode(Len(v)) \in Seq(Nat) /\ Len(Encode(Len(v))) \in 1..3
  BY <1>1, EncodeType
<1>3. Joined(Counted(v), Encode(Len(v)), v, Nat)
  BY <1>2, Cat DEF Counted
<1> QED  BY <1>1, <1>2, <1>3 DEF Joined

\* ReadVec reads a counted list where it stands.
LEMMA VecAt ==
  ASSUME NEW S, NEW s \in Seq(S), NEW v \in Seq(Nat), Len(v) < U16, NEW p, Stands(s, p, Counted(v))
  PROVE  /\ ReadVec(s, p) = [val |-> v, next |-> p + Len(Counted(v))]
         /\ p + Len(Counted(v)) \in Nat
<1> DEFINE e == Encode(Len(v))
<1>1. Len(v) \in Nat /\ Len(s) \in Nat
  OBVIOUS
<1>2. e \in Seq(Nat) /\ Len(e) \in Nat
  BY <1>1, EncodeType
<1>3. Stands(s, p, e \o v)
  BY DEF Counted
<1>4. Stands(s, p, e) /\ Stands(s, p + Len(e), v)
  <2> HIDE DEF e
  <2> QED  BY <1>1, <1>2, <1>3, AtCat
<1>5. Decode(SubSeq(s, p, Len(s))) = [ok |-> TRUE, len |-> Len(e), val |-> Len(v)]
  BY <1>1, <1>4, DecodeAt
<1>6. SubSeq(s, p + Len(e), p + Len(e) + Len(v) - 1) = v
  <2> HIDE DEF e
  <2> QED  BY <1>4, AtIs
<1>7. Len(Counted(v)) = Len(e) + Len(v) /\ p \in Nat /\ Len(e) \in Nat
  BY <1>2, <1>4, CountedIs DEF Stands
<1>8. ReadVec(s, p) = [val |-> SubSeq(s, p + Len(e), p + Len(e) + Len(v) - 1), next |-> p + Len(e) + Len(v)]
  <2> HIDE DEF e
  <2> QED  BY <1>5 DEF ReadVec
<1> HIDE DEF e
<1>9. p + Len(e) + Len(v) = p + Len(Counted(v)) /\ p + Len(Counted(v)) \in Nat
  BY <1>1, <1>7
<1> QED  BY <1>6, <1>8, <1>9

\* An instruction and a lookup of a message.
IxOk(x) ==
  /\ x \in [prog : Nat, accts : Seq(Nat), data : Seq(Nat)]
  /\ Len(x.accts) < U16 /\ Len(x.data) < U16
LookupOk(x) ==
  /\ x \in [table : AltTables, writable : Seq(Nat), readonly : Seq(Nat)]
  /\ Len(x.writable) < U16 /\ Len(x.readonly) < U16

\* Every wire alphabet has the numbers in it.
Wire(S) == Nat \subseteq S
\* One element and two counted lists.
Triple(w, x, a, b) == w = <<x>> \o Counted(a) \o Counted(b)

\* Its type and its length.
LEMMA TwoLists ==
  ASSUME NEW S, Wire(S), NEW x \in S, NEW a \in Seq(Nat), Len(a) < U16,
         NEW b \in Seq(Nat), Len(b) < U16, NEW w, Triple(w, x, a, b)
  PROVE  /\ w \in Seq(S) /\ Len(w) = 1 + Len(Counted(a)) + Len(Counted(b)) /\ Len(w) \in Nat
         /\ Len(<<x>> \o Counted(a)) = 1 + Len(Counted(a))
         /\ Len(Counted(a)) \in Nat /\ Len(Counted(b)) \in Nat
         /\ Counted(a) \in Seq(S) /\ Counted(b) \in Seq(S) /\ <<x>> \o Counted(a) \in Seq(S)
<1> DEFINE ca == Counted(a)
           cb == Counted(b)
           h == <<x>> \o ca
<1>1. ca \in Seq(S) /\ cb \in Seq(S) /\ Len(ca) \in Nat /\ Len(cb) \in Nat /\ <<x>> \in Seq(S) /\ Len(<<x>>) = 1
  <2>1. ca \in Seq(Nat) /\ cb \in Seq(Nat) /\ Len(ca) \in Nat /\ Len(cb) \in Nat
    BY CountedIs
  <2> HIDE DEF ca, cb
  <2> QED  BY <2>1, SeqMonotonic DEF Wire
<1>2. Joined(h, <<x>>, ca, S) /\ Joined(w, h, cb, S)
  <2>0. w = h \o cb
    BY DEF Triple
  <2> HIDE DEF ca, cb
  <2>1. Joined(h, <<x>>, ca, S)
    BY <1>1, Cat
  <2>2. h \in Seq(S)
    BY <2>1 DEF Joined
  <2> HIDE DEF h
  <2>3. Joined(h \o cb, h, cb, S)
    BY <1>1, <2>2, Cat
  <2> QED  BY <2>0, <2>1, <2>3
<1>3. h \in Seq(S) /\ w \in Seq(S) /\ Len(h) = 1 + Len(ca) /\ Len(w) = 1 + Len(ca) + Len(cb) /\ Len(w) \in Nat
  <2> HIDE DEF h, ca, cb
  <2> QED  BY <1>1, <1>2 DEF Joined
<1> HIDE DEF h, ca, cb
<1> QED  BY <1>1, <1>2, <1>3 DEF h, ca, cb

\* The runtime reads both lists where the element stands.
LEMMA TwoListsAt ==
  ASSUME NEW S, Wire(S), NEW x \in S, NEW a \in Seq(Nat), Len(a) < U16,
         NEW b \in Seq(Nat), Len(b) < U16, NEW w, Triple(w, x, a, b),
         NEW s \in Seq(S), NEW p \in Nat, Stands(s, p, w)
  PROVE  /\ s[p] = x
         /\ ReadVec(s, p + 1) = [val |-> a, next |-> p + 1 + Len(Counted(a))]
         /\ ReadVec(s, p + 1 + Len(Counted(a))) = [val |-> b, next |-> p + Len(w)]
<1> DEFINE ca == Counted(a)
           cb == Counted(b)
           h == <<x>> \o ca
<1>1. /\ Len(ca) \in Nat /\ Len(cb) \in Nat /\ <<x>> \in Seq(S) /\ Len(<<x>>) = 1
      /\ ca \in Seq(S) /\ cb \in Seq(S) /\ h \in Seq(S)
      /\ Len(h) = 1 + Len(ca) /\ Len(w) = 1 + Len(ca) + Len(cb)
  <2>1. <<x>> \in Seq(S) /\ Len(<<x>>) = 1
    OBVIOUS
  <2>2. /\ Len(ca) \in Nat /\ Len(cb) \in Nat
        /\ ca \in Seq(S) /\ cb \in Seq(S) /\ h \in Seq(S)
        /\ Len(h) = 1 + Len(ca) /\ Len(w) = 1 + Len(ca) + Len(cb)
    BY TwoLists
  <2> HIDE DEF h, ca, cb
  <2> QED  BY <2>1, <2>2
<1>2. Len(s) \in Nat /\ Stands(s, p, h \o cb)
  BY DEF Triple
<1>3. Stands(s, p, h) /\ Stands(s, p + Len(h), cb)
  <2> HIDE DEF h, ca, cb
  <2> QED  BY <1>1, <1>2, AtCat
<1>4. Stands(s, p, <<x>>) /\ Stands(s, p + 1, ca)
  <2>1. Stands(s, p, <<x>> \o ca)
    BY <1>3
  <2> HIDE DEF h, ca, cb
  <2>2. Stands(s, p, <<x>>) /\ Stands(s, p + Len(<<x>>), ca)
    BY <1>1, <1>2, <2>1, AtCat
  <2> QED  BY <1>1, <2>2
<1>5. s[p] = x
  BY <1>4, AtOne
<1>6. ReadVec(s, p + 1) = [val |-> a, next |-> p + 1 + Len(ca)]
  BY <1>4, VecAt
<1>7. ReadVec(s, p + Len(h)) = [val |-> b, next |-> p + Len(h) + Len(cb)]
  <2>1. Stands(s, p + Len(h), Counted(b))
    BY <1>3
  <2> HIDE DEF h, ca
  <2> QED  BY <2>1, VecAt
<1>8. p + Len(h) = p + 1 + Len(ca) /\ p + Len(h) + Len(cb) = p + Len(w)
  <2>1. Len(h) = 1 + Len(ca) /\ Len(w) = 1 + Len(ca) + Len(cb)
    BY <1>1
  <2>2. p \in Nat /\ Len(ca) \in Nat /\ Len(cb) \in Nat
    BY <1>1
  <2> HIDE DEF h, ca, cb
  <2> QED  BY <2>1, <2>2
<1> HIDE DEF h, ca, cb
<1>9. ReadVec(s, p + 1 + Len(ca)) = [val |-> b, next |-> p + Len(w)]
  BY <1>7, <1>8
<1> QED  BY <1>5, <1>6, <1>9 DEF ca

\* ReadIx reads the instruction that stands at a place.
LEMMA IxAt ==
  ASSUME NEW S, Wire(S), NEW x, IxOk(x)
  PROVE  /\ SerializeIx(x) \in Seq(S) /\ Len(SerializeIx(x)) \in Nat
         /\ \A s \in Seq(S), p \in Nat : Stands(s, p, SerializeIx(x)) =>
              ReadIx(s, p) = [val |-> x, next |-> p + Len(SerializeIx(x))]
<1>1. /\ x.prog \in S /\ x.accts \in Seq(Nat) /\ x.data \in Seq(Nat)
      /\ Len(x.accts) < U16 /\ Len(x.data) < U16
  BY DEF IxOk, Wire
<1>5. x = [prog |-> x.prog, accts |-> x.accts, data |-> x.data]
  BY DEF IxOk
<1> DEFINE w == SerializeIx(x)
<1>2. Triple(w, x.prog, x.accts, x.data)
  BY DEF SerializeIx, Triple
<1> HIDE DEF w
<1>3. w \in Seq(S) /\ Len(w) \in Nat
  BY <1>1, <1>2, TwoLists
<1>4. ASSUME NEW s \in Seq(S), NEW p \in Nat, Stands(s, p, w)
      PROVE  ReadIx(s, p) = [val |-> x, next |-> p + Len(w)]
  <2>1. /\ s[p] = x.prog
        /\ ReadVec(s, p + 1) = [val |-> x.accts, next |-> p + 1 + Len(Counted(x.accts))]
        /\ ReadVec(s, p + 1 + Len(Counted(x.accts))) = [val |-> x.data, next |-> p + Len(w)]
    BY <1>1, <1>2, <1>4, TwoListsAt
  <2> QED  BY <1>5, <2>1 DEF ReadIx
<1> QED  BY <1>3, <1>4 DEF w

\* ReadLookup reads the lookup that stands at a place.
LEMMA LookupAt ==
  ASSUME NEW S, Wire(S), AltTables \subseteq S, NEW x, LookupOk(x)
  PROVE  /\ SerializeLookup(x) \in Seq(S) /\ Len(SerializeLookup(x)) \in Nat
         /\ \A s \in Seq(S), p \in Nat : Stands(s, p, SerializeLookup(x)) =>
              ReadLookup(s, p) = [val |-> x, next |-> p + Len(SerializeLookup(x))]
<1>1. /\ x.table \in S /\ x.writable \in Seq(Nat) /\ x.readonly \in Seq(Nat)
      /\ Len(x.writable) < U16 /\ Len(x.readonly) < U16
  BY DEF LookupOk
<1>5. x = [table |-> x.table, writable |-> x.writable, readonly |-> x.readonly]
  BY DEF LookupOk
<1> DEFINE w == SerializeLookup(x)
<1>2. Triple(w, x.table, x.writable, x.readonly)
  BY DEF SerializeLookup, Triple
<1> HIDE DEF w
<1>3. w \in Seq(S) /\ Len(w) \in Nat
  BY <1>1, <1>2, TwoLists
<1>4. ASSUME NEW s \in Seq(S), NEW p \in Nat, Stands(s, p, w)
      PROVE  ReadLookup(s, p) = [val |-> x, next |-> p + Len(w)]
  <2>1. /\ s[p] = x.table
        /\ ReadVec(s, p + 1) = [val |-> x.writable, next |-> p + 1 + Len(Counted(x.writable))]
        /\ ReadVec(s, p + 1 + Len(Counted(x.writable))) = [val |-> x.readonly, next |-> p + Len(w)]
    BY <1>1, <1>2, <1>4, TwoListsAt
  <2> QED  BY <1>5, <2>1 DEF ReadLookup
<1> QED  BY <1>3, <1>4 DEF w

---------------------------------------------------------------------------
\* Lists of instructions and of lookups.
LEMMA AppendNext ==
  ASSUME NEW S, NEW xs \in Seq(S), NEW i \in 1..Len(xs)
  PROVE  Append(SubSeq(xs, 1, i - 1), xs[i]) = SubSeq(xs, 1, i)
<1>1. /\ xs[i] \in S /\ 1 \in 1..Len(xs) /\ i \in 1..Len(xs)
      /\ \A j \in 1..i - 1 : xs[j] \in S
  OBVIOUS
<1>2. SubSeq(xs, 1, i - 1) \in Seq(S)
  BY <1>1, SubSeqProperties
<1>3. SubSeq(xs, 1, i) = SubSeq(xs, 1, i - 1) \o <<xs[i]>>
  BY <1>1, SubSeqRecursiveSecond
<1> QED  BY <1>1, <1>2, <1>3, AppendIsConcat

ReadIxs(s, p)     == ReadAll(s, p, ReadIx)
ReadLookups(s, p) == ReadAll(s, p, ReadLookup)

\* What ReadAll reads with ReadIx, f[i] after the first i.
ListsIx(f, s, p, d) ==
  f = [i \in 0..d.val |->
        IF i = 0 THEN [val |-> <<>>, next |-> p + d.len]
        ELSE LET x == ReadIx(s, f[i - 1].next)
             IN [val |-> Append(f[i - 1].val, x.val), next |-> x.next]]

\* What Serialize writes of each.
WrittenIxs(xs) == [i \in DOMAIN xs |-> SerializeIx(xs[i])]
IxsStand(S, s, p, X, xs) ==
  /\ Wire(S) /\ s \in Seq(S)
  /\ xs \in Seq(X) /\ Len(xs) < U16 /\ \A i \in 1..Len(xs) : IxOk(xs[i])
  /\ Stands(s, p, Encode(Len(xs)))
  /\ Stands(s, p + Len(Encode(Len(xs))), FlattenSeq(WrittenIxs(xs)))

\* ReadAll reads the instructions of a message, and stops behind the last.
LEMMA AllIxAt ==
  ASSUME NEW S, NEW s, NEW p, NEW X, NEW xs, IxsStand(S, s, p, X, xs)
  PROVE  ReadIxs(s, p)
         = [val |-> xs, next |-> p + Len(Encode(Len(xs)))
                                 + Len(FlattenSeq(WrittenIxs(xs)))]
<1> DEFINE n == Len(xs)
           q == p + Len(Encode(n))
           ws == WrittenIxs(xs)
           d == Decode(SubSeq(s, p, Len(s)))
<1>0. /\ Wire(S) /\ s \in Seq(S)
      /\ xs \in Seq(X) /\ Len(xs) < U16 /\ \A i \in 1..Len(xs) : IxOk(xs[i])
      /\ Stands(s, p, Encode(Len(xs)))
      /\ Stands(s, p + Len(Encode(Len(xs))), FlattenSeq(WrittenIxs(xs)))
  BY DEF IxsStand
<1> USE <1>0
<1>1. n \in Nat /\ DOMAIN xs = 1..n /\ Len(s) \in Nat
  OBVIOUS
<1>2. d = [ok |-> TRUE, len |-> Len(Encode(n)), val |-> n]
  BY <1>1, DecodeAt
<1>3. ws \in Seq(Seq(S)) /\ Len(ws) = n /\ \A i \in 1..n : ws[i] = SerializeIx(xs[i])
  <2>1. \A i \in 1..n : SerializeIx(xs[i]) \in Seq(S)
    BY IxAt
  <2>2. ws = [i \in 1..n |-> SerializeIx(xs[i])]
    BY <1>1 DEF WrittenIxs
  <2> HIDE DEF n, ws
  <2> QED  BY <1>1, <2>1, <2>2
<1>4. Stands(s, q, FlattenSeq(ws))
  OBVIOUS
<1>5. ReadIxs(s, p) = (CHOOSE f : ListsIx(f, s, p, d))[d.val]
  BY Zenon DEF ReadIxs, ReadAll, ListsIx
<1> HIDE DEF ws, q, d
<1>6. PICK F : Accumulates(F, ws, S)
  BY <1>3, Flattened
<1>7. \A i \in 1..n : /\ Stands(s, q + Len(F[i - 1]), ws[i])
                     /\ Len(F[i - 1]) \in Nat /\ Len(F[i]) \in Nat
                     /\ Len(F[i]) = Len(F[i - 1]) + Len(ws[i])
  <2> DEFINE R == Seq(S)
  <2>1. ws \in Seq(R) /\ Len(ws) = n /\ Len(s) \in Nat
    BY <1>1, <1>3
  <2> HIDE DEF n
  <2>2. PartsStand(s, q, F, ws)
    BY <1>4, <1>6, <2>1, AtParts
  <2> QED  BY <2>1, <2>2 DEF PartsStand
<1>8. q \in Nat
  BY <1>4 DEF Stands
<1>9. F[0] = <<>> /\ F[n] = FlattenSeq(ws)
  BY <1>3, <1>6 DEF Accumulates
<1> DEFINE g == [i \in 0..n |-> [val |-> SubSeq(xs, 1, i), next |-> q + Len(F[i])]]
           b == [val |-> <<>>, next |-> q]
<1>10. g[0] = b
  <2>1. 0 \in 0..n
    BY <1>1
  <2>2. g[0] = [val |-> SubSeq(xs, 1, 0), next |-> q + Len(F[0])]
    BY <2>1
  <2>3. SubSeq(xs, 1, 0) = <<>>
    BY SubSeqEmpty
  <2>4. Len(F[0]) = 0
    BY <1>9
  <2> HIDE DEF g
  <2> QED  BY <1>8, <2>2, <2>3, <2>4
<1>11. ASSUME NEW i \in 1..n
       PROVE  g[i] = [val |-> Append(g[i - 1].val, ReadIx(s, g[i - 1].next).val),
                      next |-> ReadIx(s, g[i - 1].next).next]
  <2>1. i \in 0..n /\ i - 1 \in 0..n
    BY <1>1
  <2>2. g[i] = [val |-> SubSeq(xs, 1, i), next |-> q + Len(F[i])]
        /\ g[i - 1].val = SubSeq(xs, 1, i - 1) /\ g[i - 1].next = q + Len(F[i - 1])
    BY <2>1
  <2> HIDE DEF g
  <2>3. q + Len(F[i - 1]) \in Nat /\ Stands(s, q + Len(F[i - 1]), SerializeIx(xs[i])) /\ IxOk(xs[i])
        /\ q + Len(F[i]) = q + Len(F[i - 1]) + Len(SerializeIx(xs[i]))
    <3>1. ws[i] = SerializeIx(xs[i]) /\ IxOk(xs[i])
      BY <1>3
    <3>2. /\ Stands(s, q + Len(F[i - 1]), ws[i]) /\ Len(F[i - 1]) \in Nat /\ Len(F[i]) \in Nat
          /\ Len(F[i]) = Len(F[i - 1]) + Len(ws[i])
      BY <1>7
    <3>3. Len(ws[i]) \in Nat
      BY <1>3
    <3>4. q + Len(F[i]) = q + Len(F[i - 1]) + Len(ws[i]) /\ q + Len(F[i - 1]) \in Nat
      <4>1. Len(F[i - 1]) \in Nat /\ Len(F[i]) = Len(F[i - 1]) + Len(ws[i])
        BY <3>2
      <4> DEFINE x == Len(F[i - 1])
                 y == Len(ws[i])
      <4>2. x \in Nat /\ y \in Nat /\ Len(F[i]) = x + y
        BY <3>3, <4>1
      <4> HIDE DEF x, y
      <4>3. q + (x + y) = q + x + y /\ q + x \in Nat
        BY <1>8, <4>2
      <4> QED  BY <4>2, <4>3 DEF x, y
    <3> QED  BY <3>1, <3>2, <3>4
  <2>4. ReadIx(s, q + Len(F[i - 1]))
        = [val |-> xs[i], next |-> q + Len(F[i - 1]) + Len(SerializeIx(xs[i]))]
    BY <2>3, IxAt
  <2>5. Append(SubSeq(xs, 1, i - 1), xs[i]) = SubSeq(xs, 1, i)
    BY AppendNext
  <2>6. /\ ReadIx(s, g[i - 1].next).val = xs[i]
        /\ ReadIx(s, g[i - 1].next).next = q + Len(F[i])
    BY <2>2, <2>3, <2>4
  <2> QED  BY <2>2, <2>5, <2>6
<1>12. ListsIx(g, s, p, d)
  <2>1. \A i \in 0..n : i = 0 \/ i \in 1..n
    BY <1>1
  <2>2. d.val = n /\ p + d.len = q
    BY <1>2 DEF q
  <2>3. g = [i \in 0..n |-> g[i]]
    OBVIOUS
  <2>4. \A i \in 0..n : g[i] = IF i = 0 THEN b
               ELSE [val |-> Append(g[i - 1].val, ReadIx(s, g[i - 1].next).val),
                     next |-> ReadIx(s, g[i - 1].next).next]
    <3> HIDE DEF g, b, n
    <3> QED  BY <1>10, <1>11, <2>1
  <2> HIDE DEF g, n
  <2> QED  BY <2>2, <2>3, <2>4, Zenon DEF ListsIx
<1> DEFINE f == CHOOSE h : ListsIx(h, s, p, d)
<1>13. ListsIx(f, s, p, d)
  <2> HIDE DEF g
  <2> QED  BY <1>12
<1> HIDE DEF f
<1>14. /\ f[0] = b
       /\ \A i \in 1..n : f[i] = [val |-> Append(f[i - 1].val, ReadIx(s, f[i - 1].next).val),
                                 next |-> ReadIx(s, f[i - 1].next).next]
  <2>1. d.val = n /\ p + d.len = q
    BY <1>2 DEF q
  <2>2. \A i \in 0..n : f[i] = IF i = 0 THEN b
               ELSE [val |-> Append(f[i - 1].val, ReadIx(s, f[i - 1].next).val),
                     next |-> ReadIx(s, f[i - 1].next).next]
    BY <1>13, <2>1, Zenon DEF ListsIx
  <2>3. 0 \in 0..n /\ \A i \in 1..n : i \in 0..n /\ i # 0
    BY <1>1
  <2> HIDE DEF n, b
  <2> QED  BY <2>2, <2>3
<1> DEFINE E == {i \in 0..n : f[i] = g[i]}
<1>15. 0 \in E
  <2> HIDE DEF g, b
  <2> QED  BY <1>1, <1>10, <1>14
<1>16. ASSUME NEW k \in 0..n, k \in E, k < n PROVE k + 1 \in E
  <2>1. k + 1 \in 1..n /\ (k + 1) - 1 = k /\ k + 1 \in 0..n
    BY <1>1, <1>16
  <2>2. f[k] = g[k]
    BY <1>16
  <2> HIDE DEF g, n
  <2>3. f[k + 1] = g[k + 1]
    BY <1>11, <1>14, <2>1, <2>2
  <2> QED  BY <2>1, <2>3
<1>17. 0..n \subseteq E
  <2> HIDE DEF E, n
  <2> QED  BY <1>1, <1>15, <1>16, Climb
<1>18. f[n] = g[n] /\ g[n] = [val |-> SubSeq(xs, 1, n), next |-> q + Len(F[n])]
  <2>1. n \in 0..n
    BY <1>1
  <2> QED  BY <1>17, <2>1
<1> HIDE DEF g, E
<1>19. ReadIxs(s, p) = [val |-> SubSeq(xs, 1, n), next |-> q + Len(F[n])]
  BY <1>2, <1>5, <1>18 DEF f
<1>20. SubSeq(xs, 1, n) = xs
  BY SubSeqFull
<1> QED  BY <1>9, <1>19, <1>20 DEF q, ws

\* What ReadAll reads with ReadLookup, f[i] after the first i.
ListsLookup(f, s, p, d) ==
  f = [i \in 0..d.val |->
        IF i = 0 THEN [val |-> <<>>, next |-> p + d.len]
        ELSE LET x == ReadLookup(s, f[i - 1].next)
             IN [val |-> Append(f[i - 1].val, x.val), next |-> x.next]]

\* What Serialize writes of each.
WrittenLookups(xs) == [i \in DOMAIN xs |-> SerializeLookup(xs[i])]
LookupsStand(S, s, p, X, xs) ==
  /\ Wire(S) /\ AltTables \subseteq S /\ s \in Seq(S)
  /\ xs \in Seq(X) /\ Len(xs) < U16 /\ \A i \in 1..Len(xs) : LookupOk(xs[i])
  /\ Stands(s, p, Encode(Len(xs)))
  /\ Stands(s, p + Len(Encode(Len(xs))), FlattenSeq(WrittenLookups(xs)))

\* ReadAll reads its lookups, and stops behind the last.
LEMMA AllLookupAt ==
  ASSUME NEW S, NEW s, NEW p, NEW X, NEW xs, LookupsStand(S, s, p, X, xs)
  PROVE  ReadLookups(s, p)
         = [val |-> xs, next |-> p + Len(Encode(Len(xs)))
                                 + Len(FlattenSeq(WrittenLookups(xs)))]
<1> DEFINE n == Len(xs)
           q == p + Len(Encode(n))
           ws == WrittenLookups(xs)
           d == Decode(SubSeq(s, p, Len(s)))
<1>0. /\ Wire(S) /\ AltTables \subseteq S /\ s \in Seq(S)
      /\ xs \in Seq(X) /\ Len(xs) < U16 /\ \A i \in 1..Len(xs) : LookupOk(xs[i])
      /\ Stands(s, p, Encode(Len(xs)))
      /\ Stands(s, p + Len(Encode(Len(xs))), FlattenSeq(WrittenLookups(xs)))
  BY DEF LookupsStand
<1> USE <1>0
<1>1. n \in Nat /\ DOMAIN xs = 1..n /\ Len(s) \in Nat
  OBVIOUS
<1>2. d = [ok |-> TRUE, len |-> Len(Encode(n)), val |-> n]
  BY <1>1, DecodeAt
<1>3. ws \in Seq(Seq(S)) /\ Len(ws) = n /\ \A i \in 1..n : ws[i] = SerializeLookup(xs[i])
  <2>1. \A i \in 1..n : SerializeLookup(xs[i]) \in Seq(S)
    BY LookupAt
  <2>2. ws = [i \in 1..n |-> SerializeLookup(xs[i])]
    BY <1>1 DEF WrittenLookups
  <2> HIDE DEF n, ws
  <2> QED  BY <1>1, <2>1, <2>2
<1>4. Stands(s, q, FlattenSeq(ws))
  OBVIOUS
<1>5. ReadLookups(s, p) = (CHOOSE f : ListsLookup(f, s, p, d))[d.val]
  BY Zenon DEF ReadLookups, ReadAll, ListsLookup
<1> HIDE DEF ws, q, d
<1>6. PICK F : Accumulates(F, ws, S)
  BY <1>3, Flattened
<1>7. \A i \in 1..n : /\ Stands(s, q + Len(F[i - 1]), ws[i])
                     /\ Len(F[i - 1]) \in Nat /\ Len(F[i]) \in Nat
                     /\ Len(F[i]) = Len(F[i - 1]) + Len(ws[i])
  <2> DEFINE R == Seq(S)
  <2>1. ws \in Seq(R) /\ Len(ws) = n /\ Len(s) \in Nat
    BY <1>1, <1>3
  <2> HIDE DEF n
  <2>2. PartsStand(s, q, F, ws)
    BY <1>4, <1>6, <2>1, AtParts
  <2> QED  BY <2>1, <2>2 DEF PartsStand
<1>8. q \in Nat
  BY <1>4 DEF Stands
<1>9. F[0] = <<>> /\ F[n] = FlattenSeq(ws)
  BY <1>3, <1>6 DEF Accumulates
<1> DEFINE g == [i \in 0..n |-> [val |-> SubSeq(xs, 1, i), next |-> q + Len(F[i])]]
           b == [val |-> <<>>, next |-> q]
<1>10. g[0] = b
  <2>1. 0 \in 0..n
    BY <1>1
  <2>2. g[0] = [val |-> SubSeq(xs, 1, 0), next |-> q + Len(F[0])]
    BY <2>1
  <2>3. SubSeq(xs, 1, 0) = <<>>
    BY SubSeqEmpty
  <2>4. Len(F[0]) = 0
    BY <1>9
  <2> HIDE DEF g
  <2> QED  BY <1>8, <2>2, <2>3, <2>4
<1>11. ASSUME NEW i \in 1..n
       PROVE  g[i] = [val |-> Append(g[i - 1].val, ReadLookup(s, g[i - 1].next).val),
                      next |-> ReadLookup(s, g[i - 1].next).next]
  <2>1. i \in 0..n /\ i - 1 \in 0..n
    BY <1>1
  <2>2. g[i] = [val |-> SubSeq(xs, 1, i), next |-> q + Len(F[i])]
        /\ g[i - 1].val = SubSeq(xs, 1, i - 1) /\ g[i - 1].next = q + Len(F[i - 1])
    BY <2>1
  <2> HIDE DEF g
  <2>3. q + Len(F[i - 1]) \in Nat /\ Stands(s, q + Len(F[i - 1]), SerializeLookup(xs[i])) /\ LookupOk(xs[i])
        /\ q + Len(F[i]) = q + Len(F[i - 1]) + Len(SerializeLookup(xs[i]))
    <3>1. ws[i] = SerializeLookup(xs[i]) /\ LookupOk(xs[i])
      BY <1>3
    <3>2. /\ Stands(s, q + Len(F[i - 1]), ws[i]) /\ Len(F[i - 1]) \in Nat /\ Len(F[i]) \in Nat
          /\ Len(F[i]) = Len(F[i - 1]) + Len(ws[i])
      BY <1>7
    <3>3. Len(ws[i]) \in Nat
      BY <1>3
    <3>4. q + Len(F[i]) = q + Len(F[i - 1]) + Len(ws[i]) /\ q + Len(F[i - 1]) \in Nat
      <4>1. Len(F[i - 1]) \in Nat /\ Len(F[i]) = Len(F[i - 1]) + Len(ws[i])
        BY <3>2
      <4> DEFINE x == Len(F[i - 1])
                 y == Len(ws[i])
      <4>2. x \in Nat /\ y \in Nat /\ Len(F[i]) = x + y
        BY <3>3, <4>1
      <4> HIDE DEF x, y
      <4>3. q + (x + y) = q + x + y /\ q + x \in Nat
        BY <1>8, <4>2
      <4> QED  BY <4>2, <4>3 DEF x, y
    <3> QED  BY <3>1, <3>2, <3>4
  <2>4. ReadLookup(s, q + Len(F[i - 1]))
        = [val |-> xs[i], next |-> q + Len(F[i - 1]) + Len(SerializeLookup(xs[i]))]
    BY <2>3, LookupAt
  <2>5. Append(SubSeq(xs, 1, i - 1), xs[i]) = SubSeq(xs, 1, i)
    BY AppendNext
  <2>6. /\ ReadLookup(s, g[i - 1].next).val = xs[i]
        /\ ReadLookup(s, g[i - 1].next).next = q + Len(F[i])
    BY <2>2, <2>3, <2>4
  <2> QED  BY <2>2, <2>5, <2>6
<1>12. ListsLookup(g, s, p, d)
  <2>1. \A i \in 0..n : i = 0 \/ i \in 1..n
    BY <1>1
  <2>2. d.val = n /\ p + d.len = q
    BY <1>2 DEF q
  <2>3. g = [i \in 0..n |-> g[i]]
    OBVIOUS
  <2>4. \A i \in 0..n : g[i] = IF i = 0 THEN b
               ELSE [val |-> Append(g[i - 1].val, ReadLookup(s, g[i - 1].next).val),
                     next |-> ReadLookup(s, g[i - 1].next).next]
    <3> HIDE DEF g, b, n
    <3> QED  BY <1>10, <1>11, <2>1
  <2> HIDE DEF g, n
  <2> QED  BY <2>2, <2>3, <2>4, Zenon DEF ListsLookup
<1> DEFINE f == CHOOSE h : ListsLookup(h, s, p, d)
<1>13. ListsLookup(f, s, p, d)
  <2> HIDE DEF g
  <2> QED  BY <1>12
<1> HIDE DEF f
<1>14. /\ f[0] = b
       /\ \A i \in 1..n : f[i] = [val |-> Append(f[i - 1].val, ReadLookup(s, f[i - 1].next).val),
                                 next |-> ReadLookup(s, f[i - 1].next).next]
  <2>1. d.val = n /\ p + d.len = q
    BY <1>2 DEF q
  <2>2. \A i \in 0..n : f[i] = IF i = 0 THEN b
               ELSE [val |-> Append(f[i - 1].val, ReadLookup(s, f[i - 1].next).val),
                     next |-> ReadLookup(s, f[i - 1].next).next]
    BY <1>13, <2>1, Zenon DEF ListsLookup
  <2>3. 0 \in 0..n /\ \A i \in 1..n : i \in 0..n /\ i # 0
    BY <1>1
  <2> HIDE DEF n, b
  <2> QED  BY <2>2, <2>3
<1> DEFINE E == {i \in 0..n : f[i] = g[i]}
<1>15. 0 \in E
  <2> HIDE DEF g, b
  <2> QED  BY <1>1, <1>10, <1>14
<1>16. ASSUME NEW k \in 0..n, k \in E, k < n PROVE k + 1 \in E
  <2>1. k + 1 \in 1..n /\ (k + 1) - 1 = k /\ k + 1 \in 0..n
    BY <1>1, <1>16
  <2>2. f[k] = g[k]
    BY <1>16
  <2> HIDE DEF g, n
  <2>3. f[k + 1] = g[k + 1]
    BY <1>11, <1>14, <2>1, <2>2
  <2> QED  BY <2>1, <2>3
<1>17. 0..n \subseteq E
  <2> HIDE DEF E, n
  <2> QED  BY <1>1, <1>15, <1>16, Climb
<1>18. f[n] = g[n] /\ g[n] = [val |-> SubSeq(xs, 1, n), next |-> q + Len(F[n])]
  <2>1. n \in 0..n
    BY <1>1
  <2> QED  BY <1>17, <2>1
<1> HIDE DEF g, E
<1>19. ReadLookups(s, p) = [val |-> SubSeq(xs, 1, n), next |-> q + Len(F[n])]
  BY <1>2, <1>5, <1>18 DEF f
<1>20. SubSeq(xs, 1, n) = xs
  BY SubSeqFull
<1> QED  BY <1>9, <1>19, <1>20 DEF q, ws

---------------------------------------------------------------------------
\* A message that needs one signature and fits in a packet.
MessageOk(layout, m) ==
  /\ m.signers = 1 /\ m.roSigned \in Nat /\ m.roUnsigned \in Nat
  /\ m.keys \in Seq(Nat) /\ Len(m.keys) < U16
  /\ m.ixs \in Seq([prog : Nat, accts : Seq(Nat), data : Seq(Nat)]) /\ Len(m.ixs) < U16
  /\ \A i \in 1..Len(m.ixs) : IxOk(m.ixs[i])
  /\ m.lookups \in Seq([table : AltTables, writable : Seq(Nat), readonly : Seq(Nat)]) /\ Len(m.lookups) < U16
  /\ \A i \in 1..Len(m.lookups) : LookupOk(m.lookups[i])
  /\ layout = "legacy" => m.lookups = <<>>

\* A sequence stands at its own first place.
LEMMA AtSelf ==
  ASSUME NEW S, NEW s \in Seq(S)
  PROVE  Stands(s, 1, s)
<1>1. Len(s) \in Nat
  OBVIOUS
<1>2. \A i \in 1..Len(s) : 1 + i - 1 = i
  BY <1>1
<1>3. 1 + Len(s) - 1 <= Len(s)
  BY <1>1
<1> QED  BY <1>1, <1>2, <1>3 DEF Stands

\* A whole body splits where it was put together.
LEMMA Split ==
  ASSUME NEW S, NEW s \in Seq(S), NEW a \in Seq(S), NEW b \in Seq(S), Stands(s, 1, a \o b)
  PROVE  Stands(s, 1, a) /\ Stands(s, 1 + Len(a), b) /\ Len(a \o b) = Len(a) + Len(b) /\ a \o b \in Seq(S)
<1>1. Joined(a \o b, a, b, S)
  BY Cat
<1>2. Len(s) \in Nat
  OBVIOUS
<1>3. Stands(s, 1, a) /\ Stands(s, 1 + Len(a), b)
  BY <1>2, AtCat
<1> QED  BY <1>1, <1>3 DEF Joined

\* A function into sequences, part by part, is a sequence of them.
LEMMA ListIn ==
  ASSUME NEW S, NEW n \in Nat, NEW f \in [1..n -> Seq(S)]
  PROVE  FlattenSeq(f) \in Seq(S) /\ Len(FlattenSeq(f)) \in Nat
<1>1. f \in Seq(Seq(S)) /\ Len(f) \in Nat
  OBVIOUS
<1>2. PICK F : Accumulates(F, f, S)
  BY <1>1, Flattened
<1>3. FlattenSeq(f) \in Seq(S)
  <2>1. Len(f) \in 0..Len(f)
    BY <1>1
  <2> QED  BY <1>2, <2>1 DEF Accumulates
<1> QED  BY <1>3, LenProperties

\* The parts of a body stand where the runtime looks for them.
BodyReads(body, layout, m, hash, h, k, j) ==
  /\ k \in Nat /\ j \in Nat
  /\ ReadVec(body, h + 4) = [val |-> m.keys, next |-> k]
  /\ body[k] = hash
  /\ ReadIxs(body, k + 1) = [val |-> m.ixs, next |-> j]
  /\ layout = "legacy" => j = Len(body) + 1
  /\ layout # "legacy" => ReadLookups(body, j)
                            = [val |-> m.lookups, next |-> Len(body) + 1]
\* The version byte comes first.
Versioned(layout, h) == (layout = "legacy" /\ h = 0) \/ (layout # "legacy" /\ h = 1)
BodyIs(body, layout, m, hash, h, S) ==
  /\ body \in Seq(S)
  /\ layout # "legacy" => body[1] = 128
  /\ body[h + 1] = 1 /\ body[h + 2] = m.roSigned /\ body[h + 3] = m.roUnsigned
  /\ \E k, j : BodyReads(body, layout, m, hash, h, k, j)

\* Every part of a serialized message is where the runtime looks for it.
LEMMA BodyAt ==
  ASSUME NEW S, Wire(S), AltTables \subseteq S,
         NEW layout, NEW m, MessageOk(layout, m), NEW hash \in Nat,
         NEW body, body = Serialize(layout, m, hash),
         NEW h, Versioned(layout, h)
  PROVE  BodyIs(body, layout, m, hash, h, S)
<1> DEFINE A  == IF layout = "legacy" THEN <<>> ELSE <<128>>
           hd == <<m.signers, m.roSigned, m.roUnsigned>>
           ck == Counted(m.keys)
           ei == Encode(Len(m.ixs))
           fi == FlattenSeq(WrittenIxs(m.ixs))
           el == Encode(Len(m.lookups))
           fl == FlattenSeq(WrittenLookups(m.lookups))
           B  == IF layout = "legacy" THEN <<>> ELSE el \o fl
           P1 == A \o hd
           P2 == P1 \o ck
           P3 == P2 \o <<hash>>
           P4 == P3 \o ei
           P5 == P4 \o fi
<1>0. Nat \subseteq S /\ {1, 128} \subseteq S /\ hash \in S
  BY DEF Wire
<1>1. body = P5 \o B
  BY DEF Serialize, WrittenIxs, WrittenLookups
<1>2. A \in Seq(S) /\ Len(A) = h /\ h \in Nat
  <2>1. 128 \in S
    BY <1>0
  <2> QED  BY <2>1 DEF Versioned
<1>3. hd \in Seq(S) /\ Len(hd) = 3 /\ hd[1] = 1 /\ hd[2] = m.roSigned /\ hd[3] = m.roUnsigned
  <2>1. m.signers = 1 /\ 1 \in S /\ m.roSigned \in S /\ m.roUnsigned \in S
    BY <1>0 DEF MessageOk
  <2> QED  BY <2>1
<1>4. ck \in Seq(S) /\ Len(ck) \in Nat
  <2>1. m.keys \in Seq(Nat) /\ Len(m.keys) < U16
    BY DEF MessageOk
  <2>2. ck \in Seq(Nat) /\ Len(ck) \in Nat
    BY <2>1, CountedIs
  <2> HIDE DEF ck
  <2> QED  BY <1>0, <2>2, SeqMonotonic
<1>5. <<hash>> \in Seq(S) /\ Len(<<hash>>) = 1
  BY <1>0
<1>6. ei \in Seq(S) /\ Len(ei) \in Nat /\ el \in Seq(S) /\ Len(el) \in Nat
  <2>1. Len(m.ixs) \in Nat /\ Len(m.ixs) < U16 /\ Len(m.lookups) \in Nat /\ Len(m.lookups) < U16
    BY LenProperties DEF MessageOk
  <2>2. ei \in Seq(Nat) /\ Len(ei) \in 1..3 /\ el \in Seq(Nat) /\ Len(el) \in 1..3
    BY <2>1, EncodeType
  <2> HIDE DEF ei, el
  <2> QED  BY <1>0, <2>2, SeqMonotonic
<1>7. fi \in Seq(S) /\ Len(fi) \in Nat
  <2>1. m.ixs \in Seq([prog : Nat, accts : Seq(Nat), data : Seq(Nat)]) /\ \A i \in 1..Len(m.ixs) : IxOk(m.ixs[i])
    BY DEF MessageOk
  <2>2. \A i \in 1..Len(m.ixs) : SerializeIx(m.ixs[i]) \in Seq(S)
    BY <2>1, IxAt
  <2> DEFINE f == [i \in DOMAIN m.ixs |-> SerializeIx(m.ixs[i])]
  <2>3. Len(m.ixs) \in Nat /\ DOMAIN m.ixs = 1..Len(m.ixs)
    BY <2>1, LenProperties
  <2>5. f \in [1..Len(m.ixs) -> Seq(S)]
    BY <2>2, <2>3
  <2> HIDE DEF f
  <2>4. FlattenSeq(f) \in Seq(S) /\ Len(FlattenSeq(f)) \in Nat
    BY <2>3, <2>5, ListIn
  <2> QED  BY <2>4 DEF f, WrittenIxs
<1>8. fl \in Seq(S) /\ Len(fl) \in Nat
  <2>1. m.lookups \in Seq([table : AltTables, writable : Seq(Nat), readonly : Seq(Nat)])
        /\ \A i \in 1..Len(m.lookups) : LookupOk(m.lookups[i])
    BY DEF MessageOk
  <2>2. \A i \in 1..Len(m.lookups) : SerializeLookup(m.lookups[i]) \in Seq(S)
    BY <2>1, LookupAt
  <2> DEFINE f == [i \in DOMAIN m.lookups |-> SerializeLookup(m.lookups[i])]
  <2>3. Len(m.lookups) \in Nat /\ DOMAIN m.lookups = 1..Len(m.lookups)
    BY <2>1, LenProperties
  <2>5. f \in [1..Len(m.lookups) -> Seq(S)]
    BY <2>2, <2>3
  <2> HIDE DEF f
  <2>4. FlattenSeq(f) \in Seq(S) /\ Len(FlattenSeq(f)) \in Nat
    BY <2>3, <2>5, ListIn
  <2> QED  BY <2>4 DEF f, WrittenLookups
<1>9. B \in Seq(S) /\ Len(B) \in Nat
  <2> HIDE DEF el, fl
  <2>1. el \o fl \in Seq(S) /\ Len(el \o fl) \in Nat
    BY <1>6, <1>8, ConcatProperties, LenProperties
  <2> QED  BY <2>1
<1>10. /\ body \in Seq(S) /\ Len(body) \in Nat
       /\ Len(P1) = h + 3 /\ Len(P2) = h + 3 + Len(ck) /\ Len(P3) = h + 4 + Len(ck)
       /\ Len(P4) = h + 4 + Len(ck) + Len(ei) /\ Len(P5) = h + 4 + Len(ck) + Len(ei) + Len(fi)
       /\ Len(body) = Len(P5) + Len(B)
       /\ Stands(body, 1, A) /\ Stands(body, 1 + h, hd) /\ Stands(body, h + 4, ck)
       /\ Stands(body, h + 4 + Len(ck), <<hash>>)
       /\ Stands(body, h + 5 + Len(ck), ei) /\ Stands(body, h + 5 + Len(ck) + Len(ei), fi)
       /\ Stands(body, h + 5 + Len(ck) + Len(ei) + Len(fi), B)
  <2> HIDE DEF A, hd, ck, ei, fi, B
  <2>1. P1 \in Seq(S) /\ P2 \in Seq(S) /\ P3 \in Seq(S) /\ P4 \in Seq(S) /\ P5 \in Seq(S) /\ body \in Seq(S)
    <3>1. P1 \in Seq(S)
      BY <1>2, <1>3, ConcatProperties
    <3>2. P2 \in Seq(S)
      <4> HIDE DEF P1
      <4> QED  BY <1>4, <3>1, ConcatProperties
    <3>3. P3 \in Seq(S)
      <4> HIDE DEF P2
      <4> QED  BY <1>5, <3>2, ConcatProperties
    <3>4. P4 \in Seq(S)
      <4> HIDE DEF P3
      <4> QED  BY <1>6, <3>3, ConcatProperties
    <3>5. P5 \in Seq(S)
      <4> HIDE DEF P4
      <4> QED  BY <1>7, <3>4, ConcatProperties
    <3>6. body \in Seq(S)
      <4> HIDE DEF P5
      <4> QED  BY <1>1, <1>9, <3>5, ConcatProperties
    <3> QED  BY <3>1, <3>2, <3>3, <3>4, <3>5, <3>6
  <2>2. Stands(body, 1, P5) /\ Stands(body, 1 + Len(P5), B) /\ Len(body) = Len(P5) + Len(B)
    <3> HIDE DEF P5
    <3>1. Stands(body, 1, body)
      BY <2>1, AtSelf
    <3>2. Stands(body, 1, P5 \o B) /\ body \in Seq(S) /\ P5 \in Seq(S) /\ B \in Seq(S)
      BY <1>1, <1>9, <2>1, <3>1
    <3> HIDE DEF B
    <3>3. /\ Stands(body, 1, P5) /\ Stands(body, 1 + Len(P5), B)
          /\ Len(P5 \o B) = Len(P5) + Len(B)
      BY <3>2, Split
    <3> QED  BY <1>1, <3>3
  <2>3. Stands(body, 1, P4) /\ Stands(body, 1 + Len(P4), fi) /\ Len(P5) = Len(P4) + Len(fi)
    <3> HIDE DEF P4
    <3>1. Stands(body, 1, P4 \o fi) /\ body \in Seq(S) /\ P4 \in Seq(S) /\ fi \in Seq(S)
      BY <1>7, <2>1, <2>2
    <3>2. /\ Stands(body, 1, P4) /\ Stands(body, 1 + Len(P4), fi)
          /\ Len(P4 \o fi) = Len(P4) + Len(fi)
      BY <3>1, Split
    <3> QED  BY <1>7, <3>2
  <2>4. Stands(body, 1, P3) /\ Stands(body, 1 + Len(P3), ei) /\ Len(P4) = Len(P3) + Len(ei)
    <3> HIDE DEF P3
    <3>1. Stands(body, 1, P3 \o ei) /\ body \in Seq(S) /\ P3 \in Seq(S) /\ ei \in Seq(S)
      BY <1>6, <2>1, <2>3
    <3>2. /\ Stands(body, 1, P3) /\ Stands(body, 1 + Len(P3), ei)
          /\ Len(P3 \o ei) = Len(P3) + Len(ei)
      BY <3>1, Split
    <3> QED  BY <1>6, <3>2
  <2>5. Stands(body, 1, P2) /\ Stands(body, 1 + Len(P2), <<hash>>) /\ Len(P3) = Len(P2) + 1
    <3> HIDE DEF P2
    <3>1. Stands(body, 1, P2 \o <<hash>>) /\ body \in Seq(S) /\ P2 \in Seq(S) /\ <<hash>> \in Seq(S)
      BY <1>5, <2>1, <2>4
    <3> DEFINE hs == <<hash>>
    <3> HIDE DEF hs
    <3>3. Stands(body, 1, P2) /\ Stands(body, 1 + Len(P2), hs) /\ Len(P2 \o hs) = Len(P2) + Len(hs)
      <4>1. Stands(body, 1, P2 \o hs) /\ body \in Seq(S) /\ P2 \in Seq(S) /\ hs \in Seq(S)
        BY <3>1 DEF hs
      <4> QED  BY <4>1, Split
    <3>2. /\ Stands(body, 1, P2) /\ Stands(body, 1 + Len(P2), <<hash>>)
          /\ Len(P2 \o <<hash>>) = Len(P2) + Len(<<hash>>)
      BY <3>3 DEF hs
    <3> QED  BY <1>5, <3>2
  <2>6. Stands(body, 1, P1) /\ Stands(body, 1 + Len(P1), ck) /\ Len(P2) = Len(P1) + Len(ck)
    <3> HIDE DEF P1
    <3>1. Stands(body, 1, P1 \o ck) /\ body \in Seq(S) /\ P1 \in Seq(S) /\ ck \in Seq(S)
      BY <1>4, <2>1, <2>5
    <3>2. /\ Stands(body, 1, P1) /\ Stands(body, 1 + Len(P1), ck)
          /\ Len(P1 \o ck) = Len(P1) + Len(ck)
      BY <3>1, Split
    <3> QED  BY <1>4, <3>2
  <2>7. Stands(body, 1, A) /\ Stands(body, 1 + Len(A), hd) /\ Len(P1) = Len(A) + Len(hd)
    <3>1. Stands(body, 1, A \o hd) /\ body \in Seq(S) /\ A \in Seq(S) /\ hd \in Seq(S)
      BY <1>2, <1>3, <2>1, <2>6
    <3>2. /\ Stands(body, 1, A) /\ Stands(body, 1 + Len(A), hd)
          /\ Len(A \o hd) = Len(A) + Len(hd)
      BY <3>1, Split
    <3> QED  BY <3>2
  <2> HIDE DEF P1, P2, P3, P4, P5
  <2>8. /\ Len(P1) = h + 3 /\ Len(P2) = h + 3 + Len(ck) /\ Len(P3) = h + 4 + Len(ck)
        /\ Len(P4) = h + 4 + Len(ck) + Len(ei) /\ Len(P5) = h + 4 + Len(ck) + Len(ei) + Len(fi)
    BY <1>2, <1>3, <1>4, <1>6, <1>7, <2>3, <2>4, <2>5, <2>6, <2>7
  <2>9. /\ 1 + Len(P1) = h + 4 /\ 1 + Len(P2) = h + 4 + Len(ck) /\ 1 + Len(P3) = h + 5 + Len(ck)
        /\ 1 + Len(P4) = h + 5 + Len(ck) + Len(ei)
        /\ 1 + Len(P5) = h + 5 + Len(ck) + Len(ei) + Len(fi)
    BY <1>2, <1>4, <1>6, <1>7, <2>8
  <2> QED  BY <1>2, <2>1, <2>2, <2>3, <2>4, <2>5, <2>6, <2>7, <2>8, <2>9, LenProperties
<1>11. layout # "legacy" => body[1] = 128
  <2>1. ASSUME layout # "legacy" PROVE body[1] = 128
    <3>1. Stands(body, 1, <<128>>)
      BY <1>10, <2>1
    <3> QED  BY <3>1, AtOne
  <2> QED  BY <2>1
<1>12. body[h + 1] = 1 /\ body[h + 2] = m.roSigned /\ body[h + 3] = m.roUnsigned
  <2> HIDE DEF A, hd, ck, ei, fi, B, P1, P2, P3, P4, P5
  <2>1. \A i \in 1..3 : body[(1 + h) + i - 1] = hd[i]
    BY <1>3, <1>10 DEF Stands
  <2>2. (1 + h) + 1 - 1 = h + 1 /\ (1 + h) + 2 - 1 = h + 2 /\ (1 + h) + 3 - 1 = h + 3
    BY <1>2
  <2>3. 1 \in 1..3 /\ 2 \in 1..3 /\ 3 \in 1..3
    OBVIOUS
  <2>4. body[(1 + h) + 1 - 1] = hd[1] /\ body[(1 + h) + 2 - 1] = hd[2] /\ body[(1 + h) + 3 - 1] = hd[3]
    BY <2>1, <2>3
  <2> QED  BY <1>3, <2>2, <2>4
<1> DEFINE k == h + 4 + Len(ck)
           j == k + 1 + Len(ei) + Len(fi)
<1>13. ReadVec(body, h + 4) = [val |-> m.keys, next |-> k]
  <2>1. m.keys \in Seq(Nat) /\ Len(m.keys) < U16 /\ Stands(body, h + 4, Counted(m.keys))
    BY <1>10 DEF MessageOk
  <2> HIDE DEF A, hd, ei, fi, B, P1, P2, P3, P4, P5
  <2> QED  BY <1>10, <2>1, VecAt
<1>14. body[k] = hash
  <2>1. Stands(body, k, <<hash>>)
    BY <1>10
  <2> HIDE DEF k
  <2> QED  BY <2>1, AtOne
<1>15. k \in Nat /\ j \in Nat /\ k + 1 = h + 5 + Len(ck) /\ k + 1 + Len(ei) = h + 5 + Len(ck) + Len(ei)
       /\ j = h + 5 + Len(ck) + Len(ei) + Len(fi) /\ Len(body) + 1 = j + Len(B)
  <2> HIDE DEF A, hd, ck, ei, fi, B, P1, P2, P3, P4, P5
  <2> QED  BY <1>2, <1>4, <1>6, <1>7, <1>9, <1>10
<1>16. ReadIxs(body, k + 1) = [val |-> m.ixs, next |-> j]
  <2>1. /\ m.ixs \in Seq([prog : Nat, accts : Seq(Nat), data : Seq(Nat)]) /\ Len(m.ixs) < U16
        /\ \A i \in 1..Len(m.ixs) : IxOk(m.ixs[i])
    BY DEF MessageOk
  <2>2. Stands(body, k + 1, ei) /\ Stands(body, k + 1 + Len(ei), fi)
    BY <1>10, <1>15
  <2> DEFINE R == [prog : Nat, accts : Seq(Nat), data : Seq(Nat)]
             xs == m.ixs
             q == k + 1
  <2>3. /\ xs \in Seq(R) /\ Len(xs) < U16 /\ \A i \in 1..Len(xs) : IxOk(xs[i])
        /\ Stands(body, q, Encode(Len(xs))) /\ Stands(body, q + Len(Encode(Len(xs))), FlattenSeq(WrittenIxs(xs)))
    BY <2>1, <2>2
  <2> HIDE DEF q, xs, R
  <2>4. ReadIxs(body, q)
        = [val |-> xs, next |-> q + Len(Encode(Len(xs))) + Len(FlattenSeq(WrittenIxs(xs)))]
    <3>1. IxsStand(S, body, q, R, xs)
      BY <1>10, <2>3 DEF IxsStand
    <3> QED  BY <3>1, AllIxAt
  <2>5. q + Len(Encode(Len(xs))) + Len(FlattenSeq(WrittenIxs(xs))) = j
    <3>1. q + Len(ei) = h + 5 + Len(ck) + Len(ei) /\ j = h + 5 + Len(ck) + Len(ei) + Len(fi)
      BY <1>15 DEF q
    <3> HIDE DEF j, ck
    <3> QED  BY <3>1 DEF xs
  <2> HIDE DEF j
  <2> QED  BY <2>4, <2>5 DEF q, xs
<1>17. layout = "legacy" => j = Len(body) + 1
  <2>1. ASSUME layout = "legacy" PROVE Len(B) = 0
    BY <2>1
  <2> HIDE DEF A, hd, ck, ei, fi, B, P1, P2, P3, P4, P5, j
  <2> QED  BY <1>15, <2>1
<1>18. ASSUME layout # "legacy"
       PROVE  ReadLookups(body, j) = [val |-> m.lookups, next |-> Len(body) + 1]
  <2>1. /\ m.lookups \in Seq([table : AltTables, writable : Seq(Nat), readonly : Seq(Nat)])
        /\ Len(m.lookups) < U16 /\ \A i \in 1..Len(m.lookups) : LookupOk(m.lookups[i])
    BY DEF MessageOk
  <2>2. Stands(body, j, el \o fl) /\ Len(el \o fl) = Len(el) + Len(fl)
    <3>1. B = el \o fl
      BY <1>18
    <3>2. Len(el \o fl) = Len(el) + Len(fl)
      <4> HIDE DEF el, fl
      <4> QED  BY <1>6, <1>8, ConcatProperties
    <3> HIDE DEF A, hd, ck, ei, fi, B, P1, P2, P3, P4, P5, j, el, fl
    <3> QED  BY <1>10, <1>15, <3>1, <3>2
  <2>3. Stands(body, j, el) /\ Stands(body, j + Len(el), fl)
    <3> HIDE DEF j, el, fl
    <3> QED  BY <1>6, <1>8, <1>10, <2>2, AtCat
  <2>4. ReadLookups(body, j) = [val |-> m.lookups, next |-> j + Len(el) + Len(fl)]
    <3> DEFINE R == [table : AltTables, writable : Seq(Nat), readonly : Seq(Nat)]
               xs == m.lookups
    <3>1. /\ xs \in Seq(R) /\ Len(xs) < U16 /\ \A i \in 1..Len(xs) : LookupOk(xs[i])
          /\ Stands(body, j, Encode(Len(xs)))
          /\ Stands(body, j + Len(Encode(Len(xs))), FlattenSeq(WrittenLookups(xs)))
      BY <2>1, <2>3
    <3> HIDE DEF j, xs, R
    <3>2. ReadLookups(body, j)
          = [val |-> xs, next |-> j + Len(Encode(Len(xs))) + Len(FlattenSeq(WrittenLookups(xs)))]
      <4>1. LookupsStand(S, body, j, R, xs)
        BY <1>10, <3>1 DEF LookupsStand
      <4> QED  BY <4>1, AllLookupAt
    <3> QED  BY <3>2 DEF xs
  <2>5. j + Len(el) + Len(fl) = Len(body) + 1
    <3>1. Len(B) = Len(el) + Len(fl)
      BY <1>18, <2>2
    <3>2. Len(body) + 1 = j + Len(B) /\ j \in Nat /\ Len(el) \in Nat /\ Len(fl) \in Nat
      BY <1>6, <1>8, <1>15
    <3> HIDE DEF A, hd, ck, ei, fi, B, P1, P2, P3, P4, P5, j, el, fl
    <3> QED  BY <3>1, <3>2
  <2> HIDE DEF j, el, fl
  <2> QED  BY <2>4, <2>5
<1> HIDE DEF k, j
<1>19. BodyReads(body, layout, m, hash, h, k, j)
  BY <1>13, <1>14, <1>15, <1>16, <1>17, <1>18 DEF BodyReads
<1> QED  BY <1>10, <1>11, <1>12, <1>19 DEF BodyIs

\* The count of one signature.
LEMMA EncodeOne == Encode(1) = <<1>>
<1>1. ASSUME NEW n \in Nat, n < 128 PROVE Encode(n) = <<n>>
  BY <1>1, SMT DEF Encode
<1>2. 1 \in Nat /\ 1 < 128
  OBVIOUS
<1> QED  BY <1>1, <1>2

\* One signature in front of a body.
Framed(packet, sig, body) == packet = Encode(1) \o <<sig>> \o body

\* The signature and the body are read back apart.
LEMMA SignedAt ==
  ASSUME NEW S, NEW body \in Seq(S), NEW sig, NEW packet, Framed(packet, sig, body),
         NEW X, S \subseteq X, 1 \in X, sig \in X
  PROVE  /\ packet \in Seq(X) /\ Len(packet) = 2 + Len(body)
         /\ Decode(packet) = [ok |-> TRUE, len |-> 1, val |-> 1]
         /\ packet[1] = 1 /\ packet[2] = sig /\ \A i \in 1..Len(body) : packet[2 + i] = body[i]
         /\ SubSeq(packet, 2, 2) = <<sig>> /\ SubSeq(packet, 3, Len(packet)) = body
<1> DEFINE e == Encode(1)
           a == e \o <<sig>>
<1>1. e = <<1>>
  BY EncodeOne
<1>2. e \in Seq(X) /\ Len(e) = 1 /\ e[1] = 1 /\ <<sig>> \in Seq(X) /\ Len(<<sig>>) = 1
      /\ body \in Seq(X) /\ Len(body) \in Nat
  <2>1. 1 \in X /\ sig \in X /\ S \subseteq X
    OBVIOUS
  <2>2. body \in Seq(X)
    BY <2>1, SeqMonotonic
  <2>3. Len(body) \in Nat
    OBVIOUS
  <2> HIDE DEF e
  <2> QED  BY <1>1, <2>1, <2>2, <2>3
<1> HIDE DEF e
<1>3. a \in Seq(X)
  BY <1>2, ConcatProperties
<1>4. packet = a \o body
  BY DEF e, Framed
<1>5. Joined(a, e, <<sig>>, X)
  BY <1>2, Cat
<1>6. Joined(packet, a, body, X)
  <2> HIDE DEF a
  <2> QED  BY <1>2, <1>3, <1>4, Cat
<1>7. packet \in Seq(X) /\ Len(a) = 2 /\ Len(packet) = 2 + Len(body)
  <2> HIDE DEF a
  <2> QED  BY <1>2, <1>5, <1>6 DEF Joined
<1>8. Stands(packet, 1, a) /\ Stands(packet, 3, body)
  <2>1. Stands(packet, 1, packet)
    BY <1>7, AtSelf
  <2> HIDE DEF a
  <2>2. /\ Stands(packet, 1, a \o body) /\ packet \in Seq(X)
        /\ a \in Seq(X) /\ body \in Seq(X)
    BY <1>2, <1>3, <1>4, <1>7, <2>1
  <2>3. Stands(packet, 1, a) /\ Stands(packet, 1 + Len(a), body)
    BY <2>2, Split
  <2>4. 1 + Len(a) = 3
    BY <1>7
  <2> QED  BY <2>3, <2>4
<1>9. Stands(packet, 1, e) /\ Stands(packet, 2, <<sig>>)
  <2>1. Stands(packet, 1, e) /\ Stands(packet, 1 + Len(e), <<sig>>)
    BY <1>2, <1>7, <1>8, Split
  <2> QED  BY <1>2, <2>1
<1> HIDE DEF a
<1>10. packet[1] = 1 /\ packet[2] = sig
  <2>1. Stands(packet, 1, <<1>>)
    BY <1>1, <1>9
  <2> QED  BY <1>9, <2>1, AtOne
<1>11. \A i \in 1..Len(body) : packet[2 + i] = body[i]
  BY <1>6, <1>7 DEF Joined
<1>12. Decode(packet) = [ok |-> TRUE, len |-> 1, val |-> 1]
  <2>1. 1 \in Nat /\ 1 < U16 /\ Stands(packet, 1, Encode(1))
    BY <1>9 DEF e, U16
  <2>2. Decode(packet) = [ok |-> TRUE, len |-> Len(Encode(1)), val |-> 1]
    BY <1>7, <2>1, DecodeHead
  <2> QED  BY <1>2, <2>2 DEF e
<1>13. SubSeq(packet, 2, 2) = <<sig>>
  <2>1. SubSeq(packet, 2, 2 + Len(<<sig>>) - 1) = <<sig>>
    BY <1>2, <1>7, <1>9, AtIs
  <2>2. 2 + Len(<<sig>>) - 1 = 2
    BY <1>2
  <2> QED  BY <2>1, <2>2
<1>14. SubSeq(packet, 3, Len(packet)) = body
  <2>1. SubSeq(packet, 3, 3 + Len(body) - 1) = body
    BY <1>2, <1>7, <1>8, AtIs
  <2>2. 3 + Len(body) - 1 = Len(packet)
    BY <1>2, <1>7
  <2> QED  BY <2>1, <2>2
<1> QED  BY <1>7, <1>10, <1>11, <1>12, <1>13, <1>14

\* Parse undoes Serialize and SignOwn.
LEMMA ParseBack ==
  ASSUME NEW layout, NEW m, MessageOk(layout, m), NEW hash \in Nat,
         NEW body, body = Serialize(layout, m, hash)
  PROVE  Parse(SignOwn(body)) =
           [signatures |-> <<Signature(Wallet, body)>>, body |-> body,
            signers |-> 1, roSigned |-> m.roSigned, roUnsigned |-> m.roUnsigned,
            keys |-> m.keys, hash |-> hash, ixs |-> m.ixs, lookups |-> m.lookups, rest |-> 0]
<1> DEFINE S == Nat \cup AltTables
           sig == Signature(Wallet, body)
           X == S \cup Nat \cup {sig}
           packet == SignOwn(body)
           h == IF layout = "legacy" THEN 0 ELSE 1
<1>1. Wire(S) /\ AltTables \subseteq S
  BY DEF Wire
<1>2. Framed(packet, sig, body) /\ S \subseteq X /\ 1 \in X /\ sig \in X
  BY DEF SignOwn, Framed
<1> HIDE DEF S, X, sig, packet
<1>3. /\ body \in Seq(S)
      /\ layout # "legacy" => body[1] = 128
      /\ body[h + 1] = 1 /\ body[h + 2] = m.roSigned /\ body[h + 3] = m.roUnsigned
      /\ \E k, j : BodyReads(body, layout, m, hash, h, k, j)
  <2>1. Versioned(layout, h)
    BY DEF Versioned
  <2> HIDE DEF h
  <2>2. BodyIs(body, layout, m, hash, h, S)
    BY <1>1, <2>1, BodyAt
  <2> QED  BY <2>2 DEF BodyIs
<1>4. PICK k, j : BodyReads(body, layout, m, hash, h, k, j)
  BY <1>3
<1>5. /\ Decode(packet) = [ok |-> TRUE, len |-> 1, val |-> 1]
      /\ SubSeq(packet, 2, 2) = <<sig>> /\ SubSeq(packet, 3, Len(packet)) = body
  <2>1. body \in Seq(S)
    BY <1>3
  <2> QED  BY <1>2, <2>1, SignedAt
<1>6. (body[1] = 128) = (layout # "legacy")
  <2>1. ASSUME layout = "legacy" PROVE body[1] = 1
    <3>1. h + 1 = 1
      BY <2>1
    <3> HIDE DEF h
    <3> QED  BY <1>3, <3>1
  <2>2. body[1] = 1 => body[1] # 128
    OBVIOUS
  <2> HIDE DEF h
  <2> QED  BY <1>3, <2>1, <2>2
<1> DEFINE v0 == body[1] = 128
           hh == IF v0 THEN 1 ELSE 0
           keys == ReadVec(body, hh + 4)
           ixs == ReadIxs(body, keys.next + 1)
           alts == IF v0 THEN ReadLookups(body, ixs.next)
                   ELSE [val |-> <<>>, next |-> ixs.next]
<1>7. Parse(packet) = [signatures |-> <<sig>>, body |-> body,
        signers |-> body[hh + 1], roSigned |-> body[hh + 2], roUnsigned |-> body[hh + 3],
        keys |-> keys.val, hash |-> body[keys.next], ixs |-> ixs.val, lookups |-> alts.val,
        rest |-> Len(body) - alts.next + 1]
  <2> DEFINE sigs == Decode(packet)
             b == SubSeq(packet, sigs.len + sigs.val + 1, Len(packet))
             v == b[1] = 128
             g == IF v THEN 1 ELSE 0
             ks == ReadVec(b, g + 4)
             is == ReadIxs(b, ks.next + 1)
             as == IF v THEN ReadLookups(b, is.next) ELSE [val |-> <<>>, next |-> is.next]
  <2>1. Parse(packet) = [signatures |-> SubSeq(packet, sigs.len + 1, sigs.len + sigs.val), body |-> b,
          signers |-> b[g + 1], roSigned |-> b[g + 2], roUnsigned |-> b[g + 3],
          keys |-> ks.val, hash |-> b[ks.next], ixs |-> is.val, lookups |-> as.val,
          rest |-> Len(b) - as.next + 1]
    BY Zenon DEF Parse, ReadIxs, ReadLookups
  <2>2. sigs.len = 1 /\ sigs.val = 1 /\ sigs.len + sigs.val + 1 = 3 /\ sigs.len + 1 = 2 /\ sigs.len + sigs.val = 2
    BY <1>5
  <2> HIDE DEF sigs, h
  <2>3. b = body /\ SubSeq(packet, sigs.len + 1, sigs.len + sigs.val) = <<sig>>
    BY <1>5, <2>2
  <2> HIDE DEF b
  <2> QED  BY <2>1, <2>3, Zenon
<1>8. hh = h
  BY <1>6
<1>9. keys = [val |-> m.keys, next |-> k]
  <2> HIDE DEF h, hh
  <2> QED  BY <1>4, <1>8 DEF BodyReads
<1>10. ixs = [val |-> m.ixs, next |-> j]
  <2> HIDE DEF h, hh, keys
  <2>1. keys.next = k
    BY <1>9
  <2> QED  BY <1>4, <2>1 DEF BodyReads
<1>11. alts = [val |-> m.lookups, next |-> Len(body) + 1]
  <2> HIDE DEF h, hh, keys, ixs
  <2>1. ixs.next = j
    BY <1>10
  <2>2. CASE layout = "legacy"
    <3>1. m.lookups = <<>>
      BY <2>2 DEF MessageOk
    <3> QED  BY <1>4, <1>6, <2>1, <2>2, <3>1 DEF BodyReads
  <2>3. CASE layout # "legacy"
    BY <1>4, <1>6, <2>1, <2>3 DEF BodyReads
  <2> QED  BY <2>2, <2>3
<1> HIDE DEF v0, h, hh, keys, ixs, alts
<1>12. Len(body) - alts.next + 1 = 0
  <2>1. Len(body) \in Nat
    BY <1>3
  <2> QED  BY <1>11, <2>1
<1>13. body[hh + 1] = 1 /\ body[hh + 2] = m.roSigned /\ body[hh + 3] = m.roUnsigned /\ body[keys.next] = hash
  BY <1>3, <1>4, <1>8, <1>9 DEF BodyReads
<1>14. Parse(packet) = [signatures |-> <<sig>>, body |-> body,
        signers |-> 1, roSigned |-> m.roSigned, roUnsigned |-> m.roUnsigned,
        keys |-> keys.val, hash |-> hash, ixs |-> ixs.val, lookups |-> alts.val, rest |-> 0]
  BY <1>7, <1>12, <1>13
<1>15. keys.val = m.keys /\ ixs.val = m.ixs /\ alts.val = m.lookups
  BY <1>9, <1>10, <1>11
<1> QED  BY <1>14, <1>15 DEF sig, packet

\* Signing the slot that was left blank comes to the same.
LEMMA SlotIsOwn ==
  ASSUME NEW S, Wire(S), NEW body \in Seq(S)
  PROVE  SignSlot(FromJupiter(body), 0) = SignOwn(body)
<1> DEFINE sig == Signature(Wallet, body)
           blank == Signature(0, <<>>)
           X == S \cup {sig, blank}
           raw == FromJupiter(body)
           own == SignOwn(body)
<1>1. Framed(raw, blank, body) /\ Framed(own, sig, body)
  BY DEF FromJupiter, SignOwn, Framed
<1>0. S \subseteq X /\ 1 \in X /\ sig \in X /\ blank \in X
  BY DEF Wire
<1> HIDE DEF raw, own, sig, blank, X
<1>2. /\ raw \in Seq(X) /\ Len(raw) = 2 + Len(body)
      /\ Decode(raw) = [ok |-> TRUE, len |-> 1, val |-> 1]
      /\ raw[1] = 1 /\ raw[2] = blank /\ \A i \in 1..Len(body) : raw[2 + i] = body[i]
      /\ SubSeq(raw, 3, Len(raw)) = body
  BY <1>0, <1>1, SignedAt
<1>3. /\ own \in Seq(X) /\ Len(own) = 2 + Len(body)
      /\ own[1] = 1 /\ own[2] = sig /\ \A i \in 1..Len(body) : own[2 + i] = body[i]
  BY <1>0, <1>1, SignedAt
<1>4. SignSlot(raw, 0) = [raw EXCEPT ![2] = sig]
  <2> DEFINE count == Decode(raw)
             b == SubSeq(raw, count.len + count.val + 1, Len(raw))
  <2>1. SignSlot(raw, 0) = [raw EXCEPT ![count.len + 0 + 1] = Signature(Wallet, b)]
    BY Zenon DEF SignSlot
  <2>2. count.len + 0 + 1 = 2 /\ count.len + count.val + 1 = 3
    BY <1>2
  <2> HIDE DEF count
  <2>3. b = body
    BY <1>2, <2>2
  <2> HIDE DEF b
  <2> QED  BY <2>1, <2>2, <2>3 DEF sig
<1> DEFINE new == [raw EXCEPT ![2] = sig]
<1>5. Len(body) \in Nat /\ sig \in X
  BY <1>0
<1>6. /\ new \in Seq(X) /\ Len(new) = Len(raw)
      /\ \A i \in 1..Len(raw) : new[i] = IF i = 2 THEN sig ELSE raw[i]
  <2>1. 2 \in 1..Len(raw)
    BY <1>2, <1>5
  <2> QED  BY <1>2, <1>5, <2>1, ExceptSeq
<1> HIDE DEF new
<1>7. ASSUME NEW i \in 1..Len(new) PROVE new[i] = own[i]
  <2>1. i = 1 \/ i = 2 \/ (i - 2 \in 1..Len(body) /\ i = 2 + (i - 2))
    BY <1>2, <1>5, <1>6
  <2>2. new[i] = IF i = 2 THEN sig ELSE raw[i]
    BY <1>6
  <2>3. CASE i = 1
    BY <1>2, <1>3, <2>2, <2>3
  <2>4. CASE i = 2
    BY <1>3, <2>2, <2>4
  <2>5. CASE i - 2 \in 1..Len(body) /\ i = 2 + (i - 2)
    <3>1. raw[2 + (i - 2)] = body[i - 2] /\ own[2 + (i - 2)] = body[i - 2]
      BY <1>2, <1>3, <2>5
    <3>2. i # 2
      BY <1>5, <2>5
    <3> QED  BY <2>2, <2>5, <3>1, <3>2
  <2> QED  BY <2>1, <2>3, <2>4, <2>5
<1>8. new = own
  <2>1. Len(new) = Len(own)
    BY <1>2, <1>3, <1>6
  <2> QED  BY <1>3, <1>6, <1>7, <2>1, SeqEqual
<1> QED  BY <1>4, <1>8 DEF raw, own, new

---------------------------------------------------------------------------
\* The least and the greatest of a set of places.
LEMMA LeastOf ==
  ASSUME NEW T \in SUBSET Nat, T # {}
  PROVE  Min(T) \in T /\ \A y \in T : Min(T) <= y
<1>1. PICK n \in T : \A m \in T : <<m, n>> \notin OpToRel(<, Nat)
  BY NatLessThanWellFounded, WFMin
<1>0. T \subseteq Nat /\ n \in Nat
  OBVIOUS
<1>4. \A y \in T : ~(y < n)
  BY <1>0, <1>1 DEF OpToRel
<1>2. \A y \in T : n <= y
  BY <1>0, <1>4
<1>3. \E x \in T : \A y \in T : x <= y
  BY <1>2
<1> QED  BY <1>3 DEF Min

\* A finite set of numbers has a greatest.
LEMMA GreatestOf ==
  ASSUME NEW n \in Nat, NEW T \in SUBSET (1..n), T # {}
  PROVE  Max(T) \in T
<1> DEFINE U == {n - x : x \in T}
<1>1. U \in SUBSET Nat /\ U # {}
  <2>1. \A x \in T : x \in 1..n /\ n - x \in Nat
    OBVIOUS
  <2>2. U \subseteq Nat
    BY <2>1
  <2> QED  BY <2>2
<1>2. Min(U) \in U /\ \A y \in U : Min(U) <= y
  <2> HIDE DEF U
  <2> QED  BY <1>1, LeastOf
<1>3. PICK x \in T : Min(U) = n - x
  BY <1>2
<1>4. \A y \in T : x >= y
  <2>1. ASSUME NEW y \in T PROVE x >= y
    <3>1. n - y \in U
      OBVIOUS
    <3> HIDE DEF U
    <3>2. n - x <= n - y
      BY <1>2, <1>3, <3>1
    <3>3. x \in Nat /\ y \in Nat
      OBVIOUS
    <3> QED  BY <3>2, <3>3
  <2> QED  BY <2>1
<1>5. \E z \in T : \A y \in T : z >= y
  BY <1>4
<1> QED  BY <1>5 DEF Max

\* A sequence has finitely many members.
LEMMA RangeFinite ==
  ASSUME NEW S, NEW s \in Seq(S)
  PROVE  IsFiniteSet(Range(s))
<1>1. s \in [1..Len(s) -> S] /\ Len(s) \in Nat /\ DOMAIN s = 1..Len(s)
  OBVIOUS
<1>2. s \in Surjection(1..Len(s), Range(s))
  BY <1>1 DEF Surjection, Range
<1>3. IsFiniteSet(1..Len(s))
  BY <1>1, FS_Interval
<1> QED  BY <1>2, <1>3, FS_Surjection

\* So has what a function makes of a finite set.
LEMMA ImageFinite ==
  ASSUME NEW S, IsFiniteSet(S), NEW f, NEW T, T = {f[x] : x \in S}
  PROVE  IsFiniteSet(T)
<1> DEFINE g == [x \in S |-> f[x]]
<1>1. g \in Surjection(S, T)
  BY DEF Surjection
<1> HIDE DEF g
<1> QED  BY <1>1, FS_Surjection

\* The keys that instructions name.
LEMMA MentionedIs ==
  ASSUME NEW ixs \in Seq(IxRecords)
  PROVE  /\ Mentioned(ixs) \subseteq Nat /\ IsFiniteSet(Mentioned(ixs))
         /\ Programs(ixs) \subseteq Mentioned(ixs)
         /\ \A ix \in Range(ixs) : /\ ix.prog \in Mentioned(ixs)
                                 /\ \A m \in Range(ix.metas) : m.key \in Mentioned(ixs)
<1> DEFINE K(ix) == {m.key : m \in Range(ix.metas)}
           All == {{ix.prog} \cup K(ix) : ix \in Range(ixs)}
<1>1. \A ix \in Range(ixs) : ix \in IxRecords
  BY DEF Range
<1>2. ASSUME NEW ix \in Range(ixs)
      PROVE  {ix.prog} \cup K(ix) \subseteq Nat /\ IsFiniteSet({ix.prog} \cup K(ix))
  <2>1. ix.prog \in Nat /\ ix.metas \in Seq([key : Nat, s : BOOLEAN, w : BOOLEAN])
    BY <1>1 DEF IxRecords
  <2>2. \A m \in Range(ix.metas) : m.key \in Nat
    <3> DEFINE ms == ix.metas
           R == [key : Nat, s : BOOLEAN, w : BOOLEAN]
    <3>1. ms \in Seq(R) /\ \A m \in R : m.key \in Nat
      BY <2>1
    <3> HIDE DEF ms, R
    <3>2. \A i \in DOMAIN ms : ms[i] \in R
      BY <3>1
    <3>3. \A m \in Range(ms) : m.key \in Nat
      BY <3>1, <3>2 DEF Range
    <3> QED  BY <3>3 DEF ms
  <2>3. IsFiniteSet(Range(ix.metas))
    BY <2>1, RangeFinite
  <2> DEFINE f == [m \in Range(ix.metas) |-> m.key]
  <2>4. K(ix) = {f[m] : m \in Range(ix.metas)}
    OBVIOUS
  <2>5. IsFiniteSet(K(ix))
    <3> HIDE DEF f, K
    <3> QED  BY <2>3, <2>4, ImageFinite
  <2>6. IsFiniteSet(K(ix) \cup {ix.prog})
    <3> HIDE DEF K
    <3> QED  BY <2>5, FS_AddElement
  <2>7. {ix.prog} \cup K(ix) = K(ix) \cup {ix.prog}
    OBVIOUS
  <2> QED  BY <2>1, <2>2, <2>6, <2>7
<1>3. Mentioned(ixs) = UNION All
  BY DEF Mentioned
<1>4. IsFiniteSet(All)
  <2> DEFINE f == [ix \in Range(ixs) |-> {ix.prog} \cup K(ix)]
  <2>1. All = {f[ix] : ix \in Range(ixs)}
    OBVIOUS
  <2>2. IsFiniteSet(Range(ixs))
    BY RangeFinite
  <2> HIDE DEF f, All
  <2> QED  BY <2>1, <2>2, ImageFinite
<1>5. IsFiniteSet(UNION All)
  <2>1. \A T \in All : IsFiniteSet(T)
    BY <1>2
  <2> HIDE DEF All
  <2> QED  BY <1>4, <2>1, FS_UNION
<1>6. UNION All \subseteq Nat
  <2>1. \A ix \in Range(ixs) : {ix.prog} \cup K(ix) \subseteq Nat
    BY <1>2
  <2> HIDE DEF K
  <2> QED  BY <2>1
<1>7. \A ix \in Range(ixs) : ix.prog \in UNION All /\ \A m \in Range(ix.metas) : m.key \in UNION All
  OBVIOUS
<1> HIDE DEF All
<1> QED  BY <1>3, <1>5, <1>6, <1>7 DEF Programs

\* The parts of a job and their bounds.
LEMMA JobIs ==
  ASSUME NEW job \in Jobs
  PROVE  /\ job.layout \in {"legacy", "single", "multi", "jupiter"}
         /\ job.ixs \in Seq(IxRecords) /\ job.tables \in Seq(AltTables)
         /\ Len(job.ixs) < U16 /\ Len(job.tables) < U16
         /\ Len(job.ixs) \in Nat /\ DOMAIN job.ixs = 1..Len(job.ixs)
         /\ Len(job.tables) \in Nat /\ DOMAIN job.tables = 1..Len(job.tables)
         /\ Cardinality(Mentioned(job.ixs) \cup {Wallet}) < U16
         /\ \A i \in 1..Len(job.ixs) :
              /\ job.ixs[i] \in IxRecords /\ job.ixs[i] \in Range(job.ixs)
              /\ Len(job.ixs[i].metas) < U16 /\ Len(job.ixs[i].data) < U16
<1>1. job \in [layout : {"legacy", "single", "multi", "jupiter"}, ixs : Seq(IxRecords),
               tables : Seq(AltTables), pinned : SUBSET Nat]
  BY JobsAssumption
<1>2. /\ Len(job.ixs) <= PacketSize /\ Len(job.tables) <= PacketSize
      /\ Cardinality(Mentioned(job.ixs) \cup {Wallet}) <= 256
      /\ \A ix \in Range(job.ixs) : Len(ix.metas) <= PacketSize /\ Len(ix.data) <= PacketSize
  BY JobsAssumption
<1>3. job.ixs \in Seq(IxRecords) /\ job.tables \in Seq(AltTables)
  BY <1>1
<1>4. Len(job.ixs) \in Nat /\ DOMAIN job.ixs = 1..Len(job.ixs) /\ Len(job.tables) \in Nat
      /\ DOMAIN job.tables = 1..Len(job.tables)
  BY <1>3
<1>5. \A i \in 1..Len(job.ixs) : job.ixs[i] \in IxRecords /\ job.ixs[i] \in Range(job.ixs)
  BY <1>3, <1>4 DEF Range
<1>6. \A x \in Nat : (x <= PacketSize \/ x <= 256) => x < U16
  BY DEF PacketSize, U16
<1>7. \A i \in 1..Len(job.ixs) : Len(job.ixs[i].metas) \in Nat /\ Len(job.ixs[i].data) \in Nat
  BY <1>5 DEF IxRecords
<1> HIDE DEF IxRecords
<1>8. \A i \in 1..Len(job.ixs) : Len(job.ixs[i].metas) < U16 /\ Len(job.ixs[i].data) < U16
  BY <1>2, <1>5, <1>6, <1>7
<1>9. IsFiniteSet(Mentioned(job.ixs) \cup {Wallet})
  BY <1>3, MentionedIs, FS_AddElement
<1>10. Cardinality(Mentioned(job.ixs) \cup {Wallet}) \in Nat
  BY <1>9, FS_CardinalityType
<1> QED  BY <1>1, <1>2, <1>3, <1>4, <1>5, <1>6, <1>8, <1>10

ViewOk(view) == view \in [AltTables -> Seq(Nat)]

\* The place of a key in a table.
LEMMA IndexPoints ==
  ASSUME NEW layout, NEW s \in Seq(Nat), NEW k, Slots(s, k) # {}
  PROVE  /\ IndexIn(layout, s, k) \in Nat /\ IndexIn(layout, s, k) + 1 \in 1..Len(s)
         /\ s[IndexIn(layout, s, k) + 1] = k
<1>1. Len(s) \in Nat /\ DOMAIN s = 1..Len(s)
  OBVIOUS
<1>2. Slots(s, k) \in SUBSET (1..Len(s)) /\ \A i \in Slots(s, k) : s[i] = k
  BY <1>1 DEF Slots
<1>3. Min(Slots(s, k)) \in Slots(s, k) /\ Max(Slots(s, k)) \in Slots(s, k)
  <2>1. Slots(s, k) \in SUBSET Nat
    BY <1>2
  <2> QED  BY <1>1, <1>2, <2>1, LeastOf, GreatestOf
<1>4. PICK i \in Slots(s, k) : IndexIn(layout, s, k) = i - 1
  BY <1>3 DEF IndexIn
<1>5. i \in 1..Len(s) /\ s[i] = k
  BY <1>2, <1>4
<1>6. i - 1 \in Nat /\ (i - 1) + 1 = i
  BY <1>5
<1> QED  BY <1>4, <1>5, <1>6

\* What is loaded from table i, to be written (w) or read.
Loaded(job, view, i, w) ==
  {k \in Looked(job, view) : Min(HomeOf(job, view, k)) = i /\ Asked(job.ixs, k, "w") = w}

\* FromTable lists what is loaded from table i, each key once.
LEMMA LoadedIs ==
  ASSUME NEW job \in Jobs, NEW view, ViewOk(view), NEW i \in 1..Len(job.tables), NEW w \in BOOLEAN
  PROVE  /\ Loaded(job, view, i, w) \subseteq Nat /\ IsFiniteSet(Loaded(job, view, i, w))
         /\ Enumerates(FromTable(job, view, i, w), Loaded(job, view, i, w))
         /\ view[job.tables[i]] \in Seq(Nat) /\ job.tables[i] \in AltTables
         /\ \A k \in Loaded(job, view, i, w) : Slots(view[job.tables[i]], k) # {}
<1> DEFINE T == Loaded(job, view, i, w)
           s == view[job.tables[i]]
           rank == [k \in T |-> IndexIn(job.layout, s, k)]
<1>1. /\ job.tables \in Seq(AltTables) /\ DOMAIN job.tables = 1..Len(job.tables)
      /\ Len(job.tables) \in Nat /\ job.ixs \in Seq(IxRecords)
  BY JobIs
<1>2. s \in Seq(Nat) /\ job.tables[i] \in AltTables
  BY <1>1 DEF ViewOk
<1>3. T \subseteq Mentioned(job.ixs)
  BY DEF Loaded, Looked
<1>4. T \subseteq Nat /\ IsFiniteSet(T)
  <2> HIDE DEF T
  <2> QED  BY <1>1, <1>3, MentionedIs, FS_Subset
<1>5. ASSUME NEW k \in T PROVE Slots(s, k) # {}
  <2>1. HomeOf(job, view, k) # {} /\ Min(HomeOf(job, view, k)) = i
    BY DEF Loaded, Looked
  <2>2. HomeOf(job, view, k) \in SUBSET Nat
    BY <1>1 DEF HomeOf
  <2>3. i \in HomeOf(job, view, k)
    BY <2>1, <2>2, LeastOf
  <2> QED  BY <2>3 DEF HomeOf
<1>6. FromTable(job, view, i, w) = InOrder(T, rank)
  BY DEF FromTable, Loaded
<1> HIDE DEF T, s
<1>7. \A k \in T : /\ IndexIn(job.layout, s, k) \in Nat /\ s[IndexIn(job.layout, s, k) + 1] = k
  BY <1>2, <1>5, IndexPoints
<1>8. rank \in [T -> Nat] /\ \A a, b \in T : rank[a] = rank[b] => a = b
  BY <1>7
<1> HIDE DEF rank
<1>9. Enumerates(InOrder(T, rank), T)
  BY <1>4, <1>8, InOrderEnumerates
<1> QED  BY <1>2, <1>4, <1>5, <1>6, <1>9 DEF T, s

---------------------------------------------------------------------------
\* The accounts of a message, group by group.
Members(job, view, s, w) ==
  {k \in Mentioned(job.ixs) \ ({Wallet} \cup Looked(job, view)) :
     Asked(job.ixs, k, "s") = s /\ Writable(job, k) = w}
Group(job, view, s, w) == InOrder(Members(job, view, s, w), [k \in Members(job, view, s, w) |-> k])
PerTable(job, view, w) == [i \in DOMAIN job.tables |-> FromTable(job, view, i, w)]
Side(job, view, w) == FlattenSeq(PerTable(job, view, w))
SideKeys(job, view, w) == {k \in Looked(job, view) : Asked(job.ixs, k, "w") = w}
Order(job, view) == <<Wallet>> \o Group(job, view, FALSE, TRUE) \o Group(job, view, FALSE, FALSE)
                    \o (Side(job, view, TRUE) \o Side(job, view, FALSE))

\* The type of a list of the members of A.
LEMMA EnumeratesIn ==
  ASSUME NEW A, NEW S, A \subseteq S, NEW e, Enumerates(e, A)
  PROVE  e \in Seq(S) /\ Len(e) \in Nat /\ \A i \in 1..Len(e) : e[i] \in A
<1>1. e \in Seq(A) /\ Len(e) \in Nat
  BY DEF Enumerates
<1> QED  BY <1>1, SeqMonotonic, ElementOfSeq

\* A list without repetitions is no longer than what it lists.
LEMMA EnumeratesBound ==
  ASSUME NEW A, IsFiniteSet(A), NEW B, B \subseteq A, NEW e, Enumerates(e, B)
  PROVE  Len(e) <= Cardinality(A) /\ Cardinality(A) \in Nat
<1>1. e \in [1..Len(e) -> A] /\ Len(e) \in Nat
  <2>1. e \in Seq(A) /\ Len(e) \in Nat
    BY EnumeratesIn
  <2> QED  BY <2>1
<1>2. e \in Injection(1..Len(e), A)
  BY <1>1 DEF Enumerates, Injection, IsInjective
<1>3. Cardinality(1..Len(e)) = Len(e)
  <2>1. 1 \in Int /\ Len(e) \in Int
    BY <1>1
  <2>2. Cardinality(1..Len(e)) = IF 1 > Len(e) THEN 0 ELSE Len(e) - 1 + 1
    BY <2>1, FS_Interval
  <2> QED  BY <1>1, <2>2
<1> QED  BY <1>2, <1>3, FS_Injection, FS_CardinalityType

\* Each group of static keys lists its members.
LEMMA GroupIs ==
  ASSUME NEW job \in Jobs, NEW view, NEW s \in BOOLEAN, NEW w \in BOOLEAN
  PROVE  Enumerates(Group(job, view, s, w), Members(job, view, s, w))
<1> DEFINE T == Members(job, view, s, w)
           rank == [k \in T |-> k]
<1>1. job.ixs \in Seq(IxRecords)
  BY JobIs
<1>2. T \subseteq Mentioned(job.ixs)
  BY DEF Members
<1>3. Group(job, view, s, w) = InOrder(T, rank)
  BY DEF Group
<1> HIDE DEF T
<1>4. T \subseteq Nat /\ IsFiniteSet(T)
  BY <1>1, <1>2, MentionedIs, FS_Subset
<1>5. rank \in [T -> Nat] /\ \A a, b \in T : rank[a] = rank[b] => a = b
  BY <1>4
<1> HIDE DEF rank
<1>6. Enumerates(InOrder(T, rank), T)
  BY <1>4, <1>5, InOrderEnumerates
<1> QED  BY <1>3, <1>6 DEF T

\* The lists of one side, table by table.
LEMMA PerTableIs ==
  ASSUME NEW job \in Jobs, NEW view, ViewOk(view), NEW w \in BOOLEAN
  PROVE  /\ PerTable(job, view, w) \in Seq(Seq(Nat)) /\ Len(PerTable(job, view, w)) = Len(job.tables)
         /\ \A i \in 1..Len(job.tables) : PerTable(job, view, w)[i] = FromTable(job, view, i, w)
<1>1. Len(job.tables) \in Nat /\ DOMAIN job.tables = 1..Len(job.tables)
  BY JobIs
<1>2. \A i \in 1..Len(job.tables) : FromTable(job, view, i, w) \in Seq(Nat)
  BY LoadedIs, EnumeratesIn
<1>3. PerTable(job, view, w) = [i \in 1..Len(job.tables) |-> FromTable(job, view, i, w)]
  BY <1>1 DEF PerTable
<1> QED  BY <1>1, <1>2, <1>3

\* One side of what is loaded, over all tables.
LEMMA SideIs ==
  ASSUME NEW job \in Jobs, NEW view, ViewOk(view), NEW w \in BOOLEAN
  PROVE  Enumerates(Side(job, view, w), SideKeys(job, view, w))
<1> DEFINE ws == PerTable(job, view, w)
           n == Len(job.tables)
           A == [i \in 1..n |-> Loaded(job, view, i, w)]
<1>1. n \in Nat /\ DOMAIN job.tables = 1..n
  BY JobIs
<1>2. ws \in Seq(Seq(Nat)) /\ Len(ws) = n /\ \A i \in 1..n : ws[i] = FromTable(job, view, i, w)
  BY PerTableIs
<1> HIDE DEF ws
<1>3. A \in [1..n -> SUBSET Nat]
  BY LoadedIs
<1>4. \A i \in 1..n : Enumerates(ws[i], A[i])
  BY <1>2, LoadedIs
<1>5. \A i, j \in 1..n : i # j => A[i] \cap A[j] = {}
  BY DEF Loaded
<1>6. UNION {A[i] : i \in 1..n} = SideKeys(job, view, w)
  <2>1. ASSUME NEW k \in SideKeys(job, view, w) PROVE \E i \in 1..n : k \in A[i]
    <3>1. k \in Looked(job, view) /\ Asked(job.ixs, k, "w") = w
      BY DEF SideKeys
    <3> DEFINE H == HomeOf(job, view, k)
    <3>2. H # {} /\ H \in SUBSET (1..n)
      BY <1>1, <3>1 DEF Looked, HomeOf
    <3> HIDE DEF H
    <3>3. H \in SUBSET Nat
      BY <1>1, <3>2
    <3>4. Min(H) \in H
      BY <3>2, <3>3, LeastOf
    <3>5. Min(H) \in 1..n
      BY <3>2, <3>4
    <3>6. k \in Loaded(job, view, Min(H), w)
      BY <3>1 DEF Loaded, H
    <3> QED  BY <3>5, <3>6
  <2>2. \A i \in 1..n : A[i] \subseteq SideKeys(job, view, w)
    BY DEF Loaded, SideKeys
  <2> HIDE DEF A
  <2> QED  BY <2>1, <2>2
<1> HIDE DEF A
<1>7. Enumerates(FlattenSeq(ws), SideKeys(job, view, w))
  <2>1. A \in [1..Len(ws) -> SUBSET Nat] /\ \A i \in 1..Len(ws) : Enumerates(ws[i], A[i])
    BY <1>2, <1>3, <1>4
  <2>2. \A i, j \in 1..Len(ws) : i # j => A[i] \cap A[j] = {}
    BY <1>2, <1>5
  <2>3. Parted(ws, A, Nat, SideKeys(job, view, w))
    BY <1>2, <1>6, <2>1, <2>2 DEF Parted
  <2> QED  BY <2>3, FlatEnumerates
<1> QED  BY <1>7 DEF Side, ws

\* When nobody else signs, nothing stands between our key and the others.
LEMMA OneSigner ==
  ASSUME NEW job \in Jobs, NEW view, ViewOk(view), Compile(job, view).signers = 1
  PROVE  /\ \A w \in BOOLEAN : Members(job, view, TRUE, w) = {}
         /\ Compile(job, view).roSigned = 0
         /\ Compile(job, view).roUnsigned = Len(Group(job, view, FALSE, FALSE))
         /\ Compile(job, view).keys
            = <<Wallet>> \o Group(job, view, FALSE, TRUE) \o Group(job, view, FALSE, FALSE)
         /\ StaticKeys(job, view).keys \o LoadedKeys(job, view) = Order(job, view)
<1> DEFINE g1 == Group(job, view, TRUE, TRUE)
           g2 == Group(job, view, TRUE, FALSE)
           g3 == Group(job, view, FALSE, TRUE)
           g4 == Group(job, view, FALSE, FALSE)
           st == StaticKeys(job, view)
<1>1. st = [groups |-> <<g1, g2, g3, g4>>, keys |-> <<Wallet>> \o g1 \o g2 \o g3 \o g4]
  <2> DEFINE gs == <<g1, g2, g3, g4>>
  <2>1. st = [groups |-> gs, keys |-> <<Wallet>> \o gs[1] \o gs[2] \o gs[3] \o gs[4]]
    BY Zenon DEF StaticKeys, Group, Members
  <2>2. gs[1] = g1 /\ gs[2] = g2 /\ gs[3] = g3 /\ gs[4] = g4
    <3> HIDE DEF g1, g2, g3, g4
    <3> QED  OBVIOUS
  <2> HIDE DEF st, gs, g1, g2, g3, g4
  <2> QED  BY <2>1, <2>2 DEF gs
<1>2. /\ Enumerates(g1, Members(job, view, TRUE, TRUE)) /\ Enumerates(g2, Members(job, view, TRUE, FALSE))
      /\ Enumerates(g3, Members(job, view, FALSE, TRUE)) /\ Enumerates(g4, Members(job, view, FALSE, FALSE))
  BY GroupIs
<1>3. /\ Compile(job, view).signers = 1 + Len(g1) + Len(g2)
      /\ Compile(job, view).roSigned = Len(g2) /\ Compile(job, view).roUnsigned = Len(g4)
      /\ Compile(job, view).keys = st.keys
  <2>1. /\ Compile(job, view).signers = 1 + Len(st.groups[1]) + Len(st.groups[2])
        /\ Compile(job, view).roSigned = Len(st.groups[2]) /\ Compile(job, view).roUnsigned = Len(st.groups[4])
        /\ Compile(job, view).keys = st.keys
    BY DEF Compile
  <2>2. st.groups[1] = g1 /\ st.groups[2] = g2 /\ st.groups[4] = g4
    <3> HIDE DEF g1, g2, g3, g4
    <3> QED  BY <1>1
  <2> HIDE DEF st
  <2> QED  BY <2>1, <2>2
<1> HIDE DEF g1, g2, g3, g4, st
<1>4. /\ Len(g1) \in Nat /\ Len(g2) \in Nat /\ g1 \in Seq(Members(job, view, TRUE, TRUE))
      /\ g2 \in Seq(Members(job, view, TRUE, FALSE))
  BY <1>2 DEF Enumerates
<1>5. Len(g1) = 0 /\ Len(g2) = 0
  BY <1>3, <1>4
<1>6. g1 = <<>> /\ g2 = <<>>
  BY <1>4, <1>5, EmptySeq
<1>7. Members(job, view, TRUE, TRUE) = {} /\ Members(job, view, TRUE, FALSE) = {}
  <2>1. /\ \A k \in Members(job, view, TRUE, TRUE) : \E i \in 1..Len(g1) : g1[i] = k
        /\ \A k \in Members(job, view, TRUE, FALSE) : \E i \in 1..Len(g2) : g2[i] = k
    BY <1>2, Zenon DEF Enumerates
  <2>2. 1..Len(g1) = {} /\ 1..Len(g2) = {}
    BY <1>5
  <2> QED  BY <2>1, <2>2
<1>8. \A w \in BOOLEAN : Members(job, view, TRUE, w) = {}
  BY <1>7
<1>9. <<Wallet>> \o g1 \o g2 = <<Wallet>>
  <2>1. <<Wallet>> \in Seq({Wallet})
    OBVIOUS
  <2>2. <<Wallet>> \o <<>> = <<Wallet>>
    BY <2>1, ConcatEmptySeq
  <2> QED  BY <1>6, <2>2
<1>10. st.keys = <<Wallet>> \o g3 \o g4
  BY <1>1, <1>9
<1>11. LoadedKeys(job, view) = Side(job, view, TRUE) \o Side(job, view, FALSE)
  BY DEF LoadedKeys, Side, PerTable
<1>12. Len(g2) = 0 /\ st.keys \o LoadedKeys(job, view) = Order(job, view)
  BY <1>5, <1>10, <1>11 DEF Order, g3, g4
<1> QED  BY <1>3, <1>8, <1>10, <1>12 DEF g3, g4, st

\* The runtime's list of accounts is every key once.
LEMMA OrderIs ==
  ASSUME NEW job \in Jobs, NEW view, ViewOk(view), Compile(job, view).signers = 1
  PROVE  /\ Enumerates(<<Wallet>> \o Group(job, view, FALSE, TRUE) \o Group(job, view, FALSE, FALSE),
                       {Wallet} \cup Members(job, view, FALSE, TRUE) \cup Members(job, view, FALSE, FALSE))
         /\ Enumerates(Order(job, view), Mentioned(job.ixs) \cup {Wallet})
<1> DEFINE M3 == Members(job, view, FALSE, TRUE)
           M4 == Members(job, view, FALSE, FALSE)
           LT == SideKeys(job, view, TRUE)
           LF == SideKeys(job, view, FALSE)
           g3 == Group(job, view, FALSE, TRUE)
           g4 == Group(job, view, FALSE, FALSE)
           sT == Side(job, view, TRUE)
           sF == Side(job, view, FALSE)
<1>1. /\ Enumerates(g3, M3) /\ Enumerates(g4, M4) /\ Enumerates(sT, LT) /\ Enumerates(sF, LF)
  BY GroupIs, SideIs
<1>2. Enumerates(<<Wallet>>, {Wallet})
  BY DEF Enumerates
<1>3. /\ {Wallet} \cap M3 = {} /\ ({Wallet} \cup M3) \cap M4 = {}
      /\ LT \cap LF = {} /\ ({Wallet} \cup M3 \cup M4) \cap (LT \cup LF) = {}
  BY DEF Members, SideKeys, Looked
<1>4. {Wallet} \cup M3 \cup M4 \cup (LT \cup LF) = Mentioned(job.ixs) \cup {Wallet}
  <2>1. \A k \in Mentioned(job.ixs) : k = Wallet \/ k \in Looked(job, view) \/ k \in M3 \cup M4
    <3>1. Members(job, view, TRUE, TRUE) = {} /\ Members(job, view, TRUE, FALSE) = {}
      BY OneSigner
    <3>2. \A k : Asked(job.ixs, k, "s") \in BOOLEAN /\ Writable(job, k) \in BOOLEAN
      BY DEF Asked, Writable
    <3> QED  BY <3>1, <3>2 DEF Members
  <2>2. Looked(job, view) = LT \cup LF
    <3>1. \A k : Asked(job.ixs, k, "w") \in BOOLEAN
      BY DEF Asked
    <3> QED  BY <3>1 DEF SideKeys
  <2>3. M3 \cup M4 \cup Looked(job, view) \subseteq Mentioned(job.ixs)
    BY DEF Members, Looked
  <2> HIDE DEF M3, M4, LT, LF
  <2> QED  BY <2>1, <2>2, <2>3
<1> HIDE DEF M3, M4, LT, LF, g3, g4, sT, sF
<1> DEFINE a == <<Wallet>> \o g3
           b == a \o g4
           c == sT \o sF
<1>5. Enumerates(a, {Wallet} \cup M3)
  BY <1>1, <1>2, <1>3, CatEnumerates
<1>6. Enumerates(b, {Wallet} \cup M3 \cup M4)
  <2> HIDE DEF a
  <2> QED  BY <1>1, <1>3, <1>5, CatEnumerates
<1>7. Enumerates(c, LT \cup LF)
  BY <1>1, <1>3, CatEnumerates
<1>8. Enumerates(b \o c, {Wallet} \cup M3 \cup M4 \cup (LT \cup LF))
  <2> HIDE DEF b, c
  <2> QED  BY <1>3, <1>6, <1>7, CatEnumerates
<1>9. b \o c = Order(job, view)
  BY DEF Order, g3, g4, sT, sF
<1> QED  BY <1>4, <1>6, <1>8, <1>9 DEF M3, M4, g3, g4

---------------------------------------------------------------------------
\* What is looked up, table by table.
Indexes(job, view, i, w) ==
  [j \in DOMAIN FromTable(job, view, i, w) |->
     IndexIn(job.layout, view[job.tables[i]], FromTable(job, view, i, w)[j])]
LookupOf(job, view, i) ==
  [table |-> job.tables[i], writable |-> Indexes(job, view, i, TRUE),
   readonly |-> Indexes(job, view, i, FALSE)]
LookupParts(job, view) ==
  [i \in DOMAIN job.tables |->
     IF Indexes(job, view, i, TRUE) \o Indexes(job, view, i, FALSE) = <<>> THEN <<>>
     ELSE <<LookupOf(job, view, i)>>]
AllLookups(job, view) == {LookupOf(job, view, i) : i \in 1..Len(job.tables)}

\* An index of a lookup points at the key it stands for.
LEMMA IndexesIs ==
  ASSUME NEW job \in Jobs, NEW view, ViewOk(view), NEW i \in 1..Len(job.tables), NEW w \in BOOLEAN
  PROVE  LET ft == FromTable(job, view, i, w)
             is == Indexes(job, view, i, w)
             s  == view[job.tables[i]]
         IN  /\ ft \in Seq(Nat) /\ is \in Seq(Nat) /\ Len(is) = Len(ft) /\ Len(is) < U16
             /\ \A j \in 1..Len(ft) : is[j] + 1 \in 1..Len(s) /\ s[is[j] + 1] = ft[j]
<1> DEFINE ft == FromTable(job, view, i, w)
           is == Indexes(job, view, i, w)
           s  == view[job.tables[i]]
           T  == Loaded(job, view, i, w)
           M  == Mentioned(job.ixs) \cup {Wallet}
<1>1. /\ T \subseteq Nat /\ Enumerates(ft, T) /\ s \in Seq(Nat)
      /\ \A k \in T : Slots(s, k) # {}
  BY LoadedIs
<1>2. /\ job.ixs \in Seq(IxRecords) /\ Cardinality(M) < U16
  BY JobIs
<1>3. IsFiniteSet(M) /\ T \subseteq M
  <2>1. T \subseteq M
    BY DEF Loaded, Looked
  <2> HIDE DEF T
  <2> QED  BY <1>2, <2>1, MentionedIs, FS_AddElement
<1>4. is = [j \in DOMAIN ft |-> IndexIn(job.layout, s, ft[j])]
  BY DEF Indexes
<1> HIDE DEF ft, is, s, T, M
<1>5. ft \in Seq(Nat) /\ Len(ft) \in Nat /\ DOMAIN ft = 1..Len(ft) /\ \A j \in 1..Len(ft) : ft[j] \in T
  BY <1>1, EnumeratesIn, LenProperties
<1>6. Len(ft) < U16
  <2>1. Len(ft) <= Cardinality(M) /\ Cardinality(M) \in Nat
    BY <1>1, <1>3, EnumeratesBound
  <2>2. U16 \in Nat
    BY U16Nat
  <2> QED  BY <1>2, <1>5, <2>1, <2>2
<1>7. \A j \in 1..Len(ft) : /\ IndexIn(job.layout, s, ft[j]) \in Nat
                            /\ IndexIn(job.layout, s, ft[j]) + 1 \in 1..Len(s)
                            /\ s[IndexIn(job.layout, s, ft[j]) + 1] = ft[j]
  BY <1>1, <1>5, IndexPoints
<1>8. is \in Seq(Nat) /\ Len(is) = Len(ft) /\ \A j \in 1..Len(ft) : is[j] = IndexIn(job.layout, s, ft[j])
  <2>1. is \in [1..Len(ft) -> Nat]
    BY <1>4, <1>5, <1>7
  <2>2. is \in Seq(Nat) /\ Len(is) = Len(ft)
    BY <1>5, <2>1
  <2>3. \A j \in 1..Len(ft) : is[j] = IndexIn(job.layout, s, ft[j])
    BY <1>4, <1>5
  <2> QED  BY <2>2, <2>3
<1> QED  BY <1>5, <1>6, <1>7, <1>8 DEF ft, is, s

\* The lookup of one table fits on the wire, if there is one.
LEMMA LookupPartIs ==
  ASSUME NEW job \in Jobs, NEW view, ViewOk(view), NEW i \in 1..Len(job.tables)
  PROVE  /\ LookupOk(LookupOf(job, view, i))
         /\ \/ LookupParts(job, view)[i] = <<LookupOf(job, view, i)>>
            \/ /\ LookupParts(job, view)[i] = <<>>
               /\ \A w \in BOOLEAN : FromTable(job, view, i, w) = <<>>
<1> DEFINE iT == Indexes(job, view, i, TRUE)
           iF == Indexes(job, view, i, FALSE)
           fT == FromTable(job, view, i, TRUE)
           fF == FromTable(job, view, i, FALSE)
<1>1. /\ fT \in Seq(Nat) /\ iT \in Seq(Nat) /\ Len(iT) = Len(fT) /\ Len(iT) < U16
      /\ fF \in Seq(Nat) /\ iF \in Seq(Nat) /\ Len(iF) = Len(fF) /\ Len(iF) < U16
  BY IndexesIs
<1>2. job.tables[i] \in AltTables /\ DOMAIN job.tables = 1..Len(job.tables)
  BY LoadedIs, JobIs
<1>3. LookupOf(job, view, i) = [table |-> job.tables[i], writable |-> iT, readonly |-> iF]
  BY DEF LookupOf
<1>4. LookupParts(job, view)[i] = IF iT \o iF = <<>> THEN <<>> ELSE <<LookupOf(job, view, i)>>
  BY <1>2 DEF LookupParts
<1> HIDE DEF iT, iF, fT, fF
<1>5. LookupOk(LookupOf(job, view, i))
  BY <1>1, <1>2, <1>3 DEF LookupOk
<1>6. ASSUME iT \o iF = <<>> PROVE fT = <<>> /\ fF = <<>>
  <2>1. iT = <<>> /\ iF = <<>>
    BY <1>1, <1>6, ConcatEqualIffEmpty
  <2>2. Len(fT) = 0 /\ Len(fF) = 0
    BY <1>1, <2>1
  <2> QED  BY <1>1, <2>2, EmptySeq
<1>7. CASE iT \o iF = <<>>
  <2>1. \A w \in BOOLEAN : FromTable(job, view, i, w) = <<>>
    BY <1>6, <1>7 DEF fT, fF
  <2> QED  BY <1>4, <1>5, <1>7, <2>1
<1>8. CASE iT \o iF # <<>>
  BY <1>4, <1>5, <1>8
<1> QED  BY <1>7, <1>8

\* So do those of all tables.
LEMMA PartsAre ==
  ASSUME NEW job \in Jobs, NEW view, ViewOk(view)
  PROVE  /\ LookupParts(job, view) \in Seq(Seq(AllLookups(job, view)))
         /\ Len(LookupParts(job, view)) = Len(job.tables)
         /\ Lookups(job, view) = FlattenSeq(LookupParts(job, view))
<1>1. Len(job.tables) \in Nat /\ DOMAIN job.tables = 1..Len(job.tables)
  BY JobIs
<1> DEFINE ps == LookupParts(job, view)
           A == AllLookups(job, view)
           n == Len(job.tables)
<1>2. \A i \in 1..n : ps[i] \in Seq(A)
  <2>1. ASSUME NEW i \in 1..n PROVE ps[i] \in Seq(A)
    <3>1. LookupOf(job, view, i) \in A
      BY DEF AllLookups
    <3>2. ps[i] = <<LookupOf(job, view, i)>> \/ ps[i] = <<>>
      BY LookupPartIs
    <3> HIDE DEF ps, A
    <3>3. <<LookupOf(job, view, i)>> \in Seq(A) /\ <<>> \in Seq(A)
      BY <3>1
    <3> QED  BY <3>2, <3>3
  <2> QED  BY <2>1
<1>3. ps = [i \in 1..n |-> ps[i]]
  BY <1>1 DEF LookupParts
<1>4. Lookups(job, view) = FlattenSeq(ps)
  BY Zenon DEF Lookups, LookupParts, LookupOf, Indexes
<1> HIDE DEF ps, A, n
<1>5. ps \in [1..n -> Seq(A)]
  BY <1>2, <1>3
<1>6. n \in Nat
  BY <1>1 DEF n
<1>7. ps \in Seq(Seq(A)) /\ Len(ps) = n
  BY <1>5, <1>6
<1> QED  BY <1>4, <1>7 DEF ps, A, n

\* The lookups of a job fit in a message.
LEMMA LookupsAre ==
  ASSUME NEW job \in Jobs, NEW view, ViewOk(view)
  PROVE  /\ Lookups(job, view) \in Seq([table : AltTables, writable : Seq(Nat), readonly : Seq(Nat)])
         /\ Len(Lookups(job, view)) < U16 /\ Len(Lookups(job, view)) \in Nat
         /\ \A i \in 1..Len(Lookups(job, view)) :
              Lookups(job, view)[i] \in AllLookups(job, view) /\ LookupOk(Lookups(job, view)[i])
<1> DEFINE ps == LookupParts(job, view)
           A == AllLookups(job, view)
           n == Len(job.tables)
           lk == Lookups(job, view)
<1>1. n \in Nat /\ n < U16 /\ ps \in Seq(Seq(A)) /\ Len(ps) = n /\ lk = FlattenSeq(ps)
  BY PartsAre, JobIs
<1>2. \A i \in 1..n : ps[i] = <<>> \/ ps[i] = <<LookupOf(job, view, i)>>
  BY LookupPartIs
<1>3. \A x \in A : LookupOk(x)
  BY LookupPartIs DEF AllLookups
<1> HIDE DEF ps, A, n, lk
<1>4. PICK F : Accumulates(F, ps, A)
  BY <1>1, Flattened
<1>5. /\ F \in [0..n -> Seq(A)] /\ F[0] = <<>> /\ lk = F[n]
      /\ \A i \in 1..n : F[i] = F[i - 1] \o ps[i]
  BY <1>1, <1>4 DEF Accumulates
<1> DEFINE T == {k \in 0..n : Len(F[k]) <= k}
<1>6. 0 \in T
  BY <1>1, <1>5
<1>7. ASSUME NEW k \in 0..n, k \in T, k < n PROVE k + 1 \in T
  <2>1. k + 1 \in 1..n /\ (k + 1) - 1 = k /\ k + 1 \in 0..n /\ k \in Nat
    BY <1>1, <1>7
  <2>2. F[k + 1] = F[k] \o ps[k + 1] /\ F[k] \in Seq(A) /\ ps[k + 1] \in Seq(A)
    <3>1. F[k + 1] = F[(k + 1) - 1] \o ps[k + 1]
      BY <1>5, <2>1
    <3>2. F[k] \in Seq(A)
      BY <1>5
    <3>3. ps[k + 1] \in Seq(A)
      BY <1>1, <2>1
    <3> QED  BY <2>1, <3>1, <3>2, <3>3
  <2>3. Len(F[k + 1]) = Len(F[k]) + Len(ps[k + 1]) /\ Len(F[k]) \in Nat
    BY <2>2, ConcatProperties, LenProperties
  <2>4. Len(ps[k + 1]) = 0 \/ Len(ps[k + 1]) = 1
    <3> DEFINE p == ps[k + 1]
               x == LookupOf(job, view, k + 1)
    <3>1. p = <<>> \/ p = <<x>>
      BY <1>2, <2>1
    <3> HIDE DEF p, x
    <3>2. Len(p) = 0 \/ Len(p) = 1
      BY <3>1
    <3> QED  BY <3>2 DEF p
  <2>5. Len(F[k]) <= k
    BY <1>7
  <2> HIDE DEF T
  <2>6. Len(F[k + 1]) <= k + 1
    <3> DEFINE x == Len(F[k])
               y == Len(ps[k + 1])
    <3>1. /\ x \in Nat /\ (y = 0 \/ y = 1) /\ x <= k /\ k \in Nat
          /\ Len(F[k + 1]) = x + y
      BY <2>1, <2>3, <2>4, <2>5
    <3> HIDE DEF x, y
    <3>2. x + y <= k + 1
      BY <3>1
    <3> QED  BY <3>1, <3>2
  <2> QED  BY <2>1, <2>6 DEF T
<1>8. 0..n \subseteq T
  <2> HIDE DEF T
  <2> QED  BY <1>1, <1>6, <1>7, Climb
<1>9. lk \in Seq(A) /\ Len(lk) <= n
  <2>1. n \in 0..n
    BY <1>1
  <2> QED  BY <1>5, <1>8, <2>1
<1>10. Len(lk) \in Nat /\ Len(lk) < U16
  <2>1. Len(lk) \in Nat /\ U16 \in Nat
    BY <1>9, LenProperties, U16Nat
  <2> QED  BY <1>1, <1>9, <2>1
<1>11. \A i \in 1..Len(lk) : lk[i] \in A /\ LookupOk(lk[i])
  BY <1>3, <1>9, ElementOfSeq
<1>12. lk \in Seq([table : AltTables, writable : Seq(Nat), readonly : Seq(Nat)])
  <2>1. A \subseteq [table : AltTables, writable : Seq(Nat), readonly : Seq(Nat)]
    BY <1>3 DEF LookupOk
  <2> QED  BY <1>9, <2>1, SeqMonotonic
<1> QED  BY <1>10, <1>11, <1>12 DEF A, lk

\* The tables still begin with what was read of them.
Holds(view) ==
  \A t \in AltTables : /\ entries[t] \in Seq(Nat)
                       /\ \A i \in 1..Len(view[t]) : i \in 1..Len(entries[t]) /\ entries[t][i] = view[t][i]
SideOf(l, w) == IF w THEN l.writable ELSE l.readonly
Fetch(l, w) == [j \in DOMAIN SideOf(l, w) |-> entries[l.table][SideOf(l, w)[j] + 1]]

\* The runtime loads what the compiler numbered, in that order.
LEMMA Loads ==
  ASSUME NEW job \in Jobs, NEW view, ViewOk(view), Holds(view), NEW w \in BOOLEAN,
         NEW lk, lk = Lookups(job, view)
  PROVE  FlattenSeq([i \in DOMAIN lk |-> Fetch(lk[i], w)]) = Side(job, view, w)
<1> DEFINE ps == LookupParts(job, view)
           A == AllLookups(job, view)
           n == Len(job.tables)
           X == [i \in DOMAIN lk |-> Fetch(lk[i], w)]
           Y == PerTable(job, view, w)
<1>1. n \in Nat /\ ps \in Seq(Seq(A)) /\ Len(ps) = n /\ lk = FlattenSeq(ps)
  BY PartsAre, JobIs
<1>2. \A i \in 1..n : \/ ps[i] = <<LookupOf(job, view, i)>>
                      \/ ps[i] = <<>> /\ FromTable(job, view, i, w) = <<>>
  BY LookupPartIs
<1>3. ASSUME NEW i \in 1..n
      PROVE  Fetch(LookupOf(job, view, i), w) = FromTable(job, view, i, w) /\ FromTable(job, view, i, w) \in Seq(Nat)
  <2> DEFINE ft == FromTable(job, view, i, w)
             is == Indexes(job, view, i, w)
             t  == job.tables[i]
             s  == view[t]
  <2>1. /\ ft \in Seq(Nat) /\ is \in Seq(Nat) /\ Len(is) = Len(ft)
        /\ \A j \in 1..Len(ft) : is[j] + 1 \in 1..Len(s) /\ s[is[j] + 1] = ft[j]
    BY IndexesIs
  <2>2. t \in AltTables
    BY LoadedIs
  <2>3. SideOf(LookupOf(job, view, i), w) = is /\ LookupOf(job, view, i).table = t
    BY DEF SideOf, LookupOf
  <2> HIDE DEF ft, is, t, s
  <2>4. Fetch(LookupOf(job, view, i), w) = [j \in DOMAIN is |-> entries[t][is[j] + 1]]
    BY <2>3 DEF Fetch
  <2>5. DOMAIN is = 1..Len(ft) /\ DOMAIN ft = 1..Len(ft)
    BY <2>1
  <2>6. \A j \in 1..Len(ft) : entries[t][is[j] + 1] = ft[j]
    BY <2>1, <2>2 DEF Holds, s
  <2>7. ft = [j \in 1..Len(ft) |-> ft[j]]
    BY <2>1, <2>5
  <2>8. Fetch(LookupOf(job, view, i), w) = ft
    BY <2>4, <2>5, <2>6, <2>7
  <2> QED  BY <2>1, <2>8 DEF ft
<1>4. Y \in Seq(Seq(Nat)) /\ Len(Y) = n /\ \A i \in 1..n : Y[i] = FromTable(job, view, i, w)
  BY PerTableIs
<1>5. lk \in Seq(A)
  <2>1. PICK F : Accumulates(F, ps, A)
    BY <1>1, Flattened
  <2>2. n \in 0..n
    BY <1>1
  <2> HIDE DEF ps, A, n
  <2> QED  BY <1>1, <2>1, <2>2 DEF Accumulates
<1>6. \A l \in A : Fetch(l, w) \in Seq(Nat)
  BY <1>3 DEF AllLookups
<1> HIDE DEF ps, A, n, Y
<1>7. Len(lk) \in Nat /\ DOMAIN lk = 1..Len(lk) /\ \A i \in 1..Len(lk) : lk[i] \in A
  BY <1>5
<1>8. X \in Seq(Seq(Nat)) /\ Len(X) = Len(lk) /\ \A i \in 1..Len(lk) : X[i] = Fetch(lk[i], w)
  <2>1. X = [i \in 1..Len(lk) |-> Fetch(lk[i], w)]
    BY <1>7
  <2>2. \A i \in 1..Len(lk) : Fetch(lk[i], w) \in Seq(Nat)
    BY <1>6, <1>7
  <2> HIDE DEF X
  <2> QED  BY <1>7, <2>1, <2>2
<1> HIDE DEF X
<1>9. PICK F : Accumulates(F, ps, A)
  BY <1>1, Flattened
<1>10. PICK G : Accumulates(G, X, Nat)
  BY <1>8, Flattened
<1>11. PICK P : Accumulates(P, Y, Nat)
  BY <1>4, Flattened
<1>12. F[0] = <<>> /\ F[n] = lk
  BY <1>1, <1>9 DEF Accumulates
<1>13. \A i \in 1..n : /\ Stands(lk, 1 + Len(F[i - 1]), ps[i])
                      /\ Len(F[i - 1]) \in Nat /\ Len(F[i]) \in Nat
                      /\ Len(F[i]) = Len(F[i - 1]) + Len(ps[i])
  <2>1. Stands(lk, 1, FlattenSeq(ps))
    BY <1>1, <1>5, AtSelf
  <2>2. PartsStand(lk, 1, F, ps)
    BY <1>1, <1>7, <1>9, <2>1, AtParts
  <2> QED  BY <1>1, <1>7, <2>2 DEF PartsStand
<1>14. /\ G[0] = <<>> /\ G \in [0..Len(lk) -> Seq(Nat)] /\ FlattenSeq(X) = G[Len(lk)]
       /\ \A i \in 1..Len(lk) : G[i] = G[i - 1] \o Fetch(lk[i], w)
  BY <1>8, <1>10 DEF Accumulates
<1>15. /\ P[0] = <<>> /\ P \in [0..n -> Seq(Nat)] /\ FlattenSeq(Y) = P[n]
       /\ \A i \in 1..n : P[i] = P[i - 1] \o FromTable(job, view, i, w)
  BY <1>4, <1>11 DEF Accumulates
<1> DEFINE T == {k \in 0..n : G[Len(F[k])] = P[k]}
<1>16. 0 \in T
  BY <1>1, <1>12, <1>14, <1>15
<1>17. ASSUME NEW k \in 0..n, k \in T, k < n PROVE k + 1 \in T
  <2>1. k + 1 \in 1..n /\ (k + 1) - 1 = k /\ k + 1 \in 0..n /\ k \in 0..n
    BY <1>1, <1>17
  <2>2. G[Len(F[k])] = P[k]
    BY <1>17
  <2> HIDE DEF T
  <2>3. /\ Stands(lk, 1 + Len(F[k]), ps[k + 1]) /\ Len(F[k]) \in Nat
        /\ Len(F[k + 1]) = Len(F[k]) + Len(ps[k + 1])
    BY <1>13, <2>1
  <2>4. P[k + 1] = P[k] \o FromTable(job, view, k + 1, w) /\ P[k] \in Seq(Nat)
    BY <1>15, <2>1
  <2>5. CASE ps[k + 1] = <<>> /\ FromTable(job, view, k + 1, w) = <<>>
    <3>1. Len(F[k + 1]) = Len(F[k])
      BY <2>3, <2>5
    <3>2. P[k + 1] = P[k]
      BY <2>4, <2>5, ConcatEmptySeq
    <3> QED  BY <2>1, <2>2, <3>1, <3>2 DEF T
  <2>6. CASE ps[k + 1] = <<LookupOf(job, view, k + 1)>>
    <3>1. Len(F[k + 1]) = Len(F[k]) + 1
      BY <2>3, <2>6
    <3>2. lk[1 + Len(F[k])] = LookupOf(job, view, k + 1)
      BY <2>3, <2>6, AtOne
    <3>3. 1 + Len(F[k]) \in 1..Len(lk) /\ 1 + Len(F[k]) = Len(F[k]) + 1 /\ (1 + Len(F[k])) - 1 = Len(F[k])
      <4>1. 1 + Len(F[k]) + 1 - 1 <= Len(lk)
        <5>1. Len(ps[k + 1]) = 1
          BY <2>6
        <5> QED  BY <2>3, <5>1 DEF Stands
      <4> QED  BY <1>7, <2>3, <4>1
    <3>4. G[1 + Len(F[k])] = G[Len(F[k])] \o Fetch(lk[1 + Len(F[k])], w)
      BY <1>14, <3>3
    <3>5. G[Len(F[k + 1])] = P[k] \o FromTable(job, view, k + 1, w)
      BY <1>3, <2>1, <2>2, <3>1, <3>2, <3>3, <3>4
    <3> QED  BY <2>1, <2>4, <3>5 DEF T
  <2> QED  BY <1>2, <2>1, <2>5, <2>6
<1>18. 0..n \subseteq T
  <2> HIDE DEF T
  <2> QED  BY <1>1, <1>16, <1>17, Climb
<1>19. G[Len(lk)] = P[n]
  <2>1. n \in 0..n
    BY <1>1
  <2> QED  BY <1>12, <1>18, <2>1
<1> QED  BY <1>14, <1>15, <1>19 DEF Side, X, Y

---------------------------------------------------------------------------
\* The message that is compiled.
NumberIn(e, k) == (CHOOSE i \in DOMAIN e : e[i] = k) - 1
CompiledIx(e, ix) ==
  [prog |-> NumberIn(e, ix.prog),
   accts |-> [j \in DOMAIN ix.metas |-> NumberIn(e, ix.metas[j].key)],
   data |-> ix.data]

\* The number of an account points at it.
LEMMA NumberIs ==
  ASSUME NEW A, NEW e, Enumerates(e, A), NEW k \in A
  PROVE  /\ NumberIn(e, k) \in Nat /\ NumberIn(e, k) + 1 \in 1..Len(e)
         /\ e[NumberIn(e, k) + 1] = k
<1>1. DOMAIN e = 1..Len(e) /\ Len(e) \in Nat
  BY EnumeratesIn, LenProperties
<1>2. \E i \in DOMAIN e : e[i] = k
  BY <1>1 DEF Enumerates
<1>3. PICK i \in DOMAIN e : e[i] = k /\ NumberIn(e, k) = i - 1
  BY <1>2 DEF NumberIn
<1>4. i - 1 \in Nat /\ (i - 1) + 1 = i /\ i \in 1..Len(e)
  BY <1>1, <1>3
<1> QED  BY <1>3, <1>4

\* A compiled instruction names the accounts of its instruction.
LEMMA CompiledIxIs ==
  ASSUME NEW job \in Jobs, NEW e, Enumerates(e, Mentioned(job.ixs) \cup {Wallet}),
         NEW i \in 1..Len(job.ixs)
  PROVE  LET ix == job.ixs[i]
             c  == CompiledIx(e, ix)
         IN  /\ IxOk(c)
             /\ c.prog + 1 \in 1..Len(e) /\ e[c.prog + 1] = ix.prog
             /\ DOMAIN c.accts = DOMAIN ix.metas /\ c.data = ix.data
             /\ \A j \in DOMAIN ix.metas : c.accts[j] + 1 \in 1..Len(e) /\ e[c.accts[j] + 1] = ix.metas[j].key
<1> DEFINE ix == job.ixs[i]
           c == CompiledIx(e, ix)
           M == Mentioned(job.ixs) \cup {Wallet}
<1>1. /\ job.ixs \in Seq(IxRecords) /\ ix \in IxRecords /\ ix \in Range(job.ixs)
      /\ Len(ix.metas) < U16 /\ Len(ix.data) < U16
  BY JobIs
<1>2. ix.metas \in Seq([key : Nat, s : BOOLEAN, w : BOOLEAN]) /\ ix.data \in Seq(Nat)
  BY <1>1 DEF IxRecords
<1>3. DOMAIN ix.metas = 1..Len(ix.metas) /\ Len(ix.metas) \in Nat
  BY <1>2
<1>4. ix.prog \in M /\ \A j \in DOMAIN ix.metas : ix.metas[j].key \in M
  <2>1. \A j \in DOMAIN ix.metas : ix.metas[j] \in Range(ix.metas)
    BY DEF Range
  <2> HIDE DEF ix
  <2> QED  BY <1>1, <2>1, MentionedIs
<1>5. /\ c.prog = NumberIn(e, ix.prog) /\ c.data = ix.data
      /\ c.accts = [j \in DOMAIN ix.metas |-> NumberIn(e, ix.metas[j].key)]
      /\ c = [prog |-> c.prog, accts |-> c.accts, data |-> c.data]
  BY DEF CompiledIx
<1> HIDE DEF ix, c, M
<1>6. c.prog \in Nat /\ c.prog + 1 \in 1..Len(e) /\ e[c.prog + 1] = ix.prog
  BY <1>4, <1>5, NumberIs DEF M
<1>7. \A j \in DOMAIN ix.metas : /\ c.accts[j] \in Nat /\ c.accts[j] + 1 \in 1..Len(e)
                                 /\ e[c.accts[j] + 1] = ix.metas[j].key
  <2>1. ASSUME NEW j \in DOMAIN ix.metas
        PROVE  /\ NumberIn(e, ix.metas[j].key) \in Nat /\ NumberIn(e, ix.metas[j].key) + 1 \in 1..Len(e)
               /\ e[NumberIn(e, ix.metas[j].key) + 1] = ix.metas[j].key
    BY <1>4, NumberIs DEF M
  <2> QED  BY <1>5, <2>1
<1>8. c.accts \in Seq(Nat) /\ Len(c.accts) = Len(ix.metas) /\ DOMAIN c.accts = DOMAIN ix.metas
  <2>1. c.accts \in [1..Len(ix.metas) -> Nat]
    BY <1>3, <1>5, <1>7
  <2> QED  BY <1>3, <2>1
<1>9. IxOk(c)
  BY <1>1, <1>2, <1>5, <1>6, <1>8 DEF IxOk
<1> QED  BY <1>5, <1>6, <1>7, <1>8, <1>9 DEF ix, c

\* The static keys fit in a message.
LEMMA KeysAre ==
  ASSUME NEW job \in Jobs, NEW view, ViewOk(view), Compile(job, view).signers = 1
  PROVE  /\ Compile(job, view).keys \in Seq(Nat) /\ Len(Compile(job, view).keys) < U16
         /\ Order(job, view) \in Seq(Nat)
<1> DEFINE M == Mentioned(job.ixs) \cup {Wallet}
           B == {Wallet} \cup Members(job, view, FALSE, TRUE) \cup Members(job, view, FALSE, FALSE)
           keys == Compile(job, view).keys
<1>1. Enumerates(keys, B) /\ Enumerates(Order(job, view), M)
  BY OneSigner, OrderIs
<1>2. IsFiniteSet(M) /\ M \subseteq Nat
  <2>1. job.ixs \in Seq(IxRecords) /\ Wallet \in Nat
    BY JobIs, AssemblyAssumption
  <2> QED  BY <2>1, MentionedIs, FS_AddElement
<1>3. B \subseteq M
  BY DEF Members
<1>4. Cardinality(M) < U16
  BY JobIs
<1> HIDE DEF M, B, keys
<1>5. Len(keys) <= Cardinality(M) /\ Cardinality(M) \in Nat /\ U16 \in Nat
  BY <1>1, <1>2, <1>3, EnumeratesBound, U16Nat
<1>6. B \subseteq Nat
  BY <1>2, <1>3
<1>7. keys \in Seq(Nat) /\ Len(keys) \in Nat
  BY <1>1, <1>6, EnumeratesIn
<1>8. Order(job, view) \in Seq(Nat)
  BY <1>1, <1>2, EnumeratesIn
<1>9. Len(keys) < U16
  BY <1>4, <1>5, <1>7
<1> QED  BY <1>7, <1>8, <1>9 DEF keys

\* Compile compiles every instruction against the order of the accounts.
LEMMA CompiledIxs ==
  ASSUME NEW job \in Jobs, NEW view, ViewOk(view), Compile(job, view).signers = 1
  PROVE  Compile(job, view).ixs
         = [i \in DOMAIN job.ixs |-> CompiledIx(Order(job, view), job.ixs[i])]
<1>1. Compile(job, view).ixs
      = [i \in DOMAIN job.ixs |->
           CompiledIx(StaticKeys(job, view).keys \o LoadedKeys(job, view), job.ixs[i])]
  BY Zenon DEF Compile, CompiledIx, NumberIn
<1>2. StaticKeys(job, view).keys \o LoadedKeys(job, view) = Order(job, view)
  BY OneSigner
<1> QED  BY <1>1, <1>2, Zenon

\* What Compile makes of a job fits on the wire.
LEMMA CompileOk ==
  ASSUME NEW job \in Jobs, NEW view, ViewOk(view), Compile(job, view).signers = 1
  PROVE  /\ MessageOk(job.layout, Compile(job, view))
         /\ Compile(job, view).lookups = IF job.layout = "legacy" THEN <<>> ELSE Lookups(job, view)
<1> DEFINE m == Compile(job, view)
           e == Order(job, view)
           n == Len(job.ixs)
<1>1. m.roSigned \in Nat /\ m.roUnsigned \in Nat
  <2>1. Len(Group(job, view, FALSE, FALSE)) \in Nat
    BY GroupIs DEF Enumerates
  <2>2. m.roSigned = 0 /\ m.roUnsigned = Len(Group(job, view, FALSE, FALSE))
    BY OneSigner
  <2>3. m.roSigned \in Nat
    <3> HIDE DEF m
    <3> QED  BY <2>2
  <2> DEFINE g == Len(Group(job, view, FALSE, FALSE))
  <2>4. g \in Nat /\ m.roUnsigned = g
    BY <2>1, <2>2
  <2> HIDE DEF g, m
  <2> QED  BY <2>3, <2>4
<1>2. m.keys \in Seq(Nat) /\ Len(m.keys) < U16
  BY KeysAre
<1>3. m.lookups = IF job.layout = "legacy" THEN <<>> ELSE Lookups(job, view)
  BY DEF Compile
<1>4. m.ixs = [i \in DOMAIN job.ixs |-> CompiledIx(e, job.ixs[i])]
  BY CompiledIxs
<1>5. n \in Nat /\ DOMAIN job.ixs = 1..n /\ n < U16
  BY JobIs
<1>6. Enumerates(e, Mentioned(job.ixs) \cup {Wallet})
  BY OrderIs
<1>7. m.signers = 1
  OBVIOUS
<1> HIDE DEF m, e
<1>8. \A i \in 1..n : IxOk(CompiledIx(e, job.ixs[i]))
  BY <1>6, CompiledIxIs
<1> HIDE DEF n
<1>9. /\ m.ixs \in Seq([prog : Nat, accts : Seq(Nat), data : Seq(Nat)]) /\ Len(m.ixs) = n
      /\ \A i \in 1..n : IxOk(m.ixs[i])
  <2>1. m.ixs \in [1..n -> [prog : Nat, accts : Seq(Nat), data : Seq(Nat)]]
    BY <1>4, <1>5, <1>8 DEF IxOk
  <2> DEFINE R == [prog : Nat, accts : Seq(Nat), data : Seq(Nat)]
             is == m.ixs
  <2>2. is \in [1..n -> R] /\ n \in Nat
    BY <1>5, <2>1
  <2>3. \A i \in 1..n : is[i] = CompiledIx(e, job.ixs[i])
    BY <1>4, <1>5
  <2>4. \A i \in 1..n : IxOk(is[i])
    BY <1>8, <2>3
  <2> HIDE DEF R, is
  <2>5. is \in Seq(R) /\ Len(is) = n
    BY <2>2
  <2> QED  BY <2>4, <2>5 DEF R, is
<1>10. /\ m.lookups \in Seq([table : AltTables, writable : Seq(Nat), readonly : Seq(Nat)])
       /\ Len(m.lookups) < U16 /\ \A i \in 1..Len(m.lookups) : LookupOk(m.lookups[i])
       /\ job.layout = "legacy" => m.lookups = <<>>
  <2>1. CASE job.layout = "legacy"
    <3>1. m.lookups = <<>> /\ Len(m.lookups) = 0
      BY <1>3, <2>1
    <3>2. 0 < U16
      BY DEF U16
    <3> QED  BY <3>1, <3>2
  <2>2. CASE job.layout # "legacy"
    BY <1>3, <2>2, LookupsAre
  <2> QED  BY <2>1, <2>2
<1>11. MessageOk(job.layout, m)
  BY <1>1, <1>2, <1>5, <1>7, <1>9, <1>10 DEF MessageOk
<1> QED  BY <1>3, <1>11 DEF m

---------------------------------------------------------------------------
\* The runtime's accounts are the compiler's.
LEMMA SideLoaded ==
  ASSUME NEW job \in Jobs, NEW view, ViewOk(view), Holds(view), NEW w \in BOOLEAN,
         NEW lk, lk = IF job.layout = "legacy" THEN <<>> ELSE Lookups(job, view)
  PROVE  FlattenSeq([i \in DOMAIN lk |-> Fetch(lk[i], w)]) = Side(job, view, w)
<1>1. CASE job.layout # "legacy"
  BY <1>1, Loads
<1>2. CASE job.layout = "legacy"
  <2>1. SideKeys(job, view, w) = {}
    BY <1>2 DEF SideKeys, Looked, MayLook
  <2>2. Side(job, view, w) = <<>>
    BY <2>1, SideIs, EmptyList
  <2>3. lk = <<>> /\ DOMAIN lk = {}
    BY <1>2
  <2> DEFINE x == [i \in DOMAIN lk |-> Fetch(lk[i], w)]
  <2>4. x = <<>>
    BY <2>3
  <2> HIDE DEF x
  <2>5. FlattenSeq(x) = <<>>
    <3>1. Len(x) = 0
      BY <2>4
    <3> QED  BY <2>4, <3>1 DEF FlattenSeq
  <2> QED  BY <2>2, <2>5 DEF x
<1> QED  BY <1>1, <1>2

\* The three parts of the runtime's list of accounts.
LEMMA AccountsIs ==
  ASSUME NEW job \in Jobs, NEW view, ViewOk(view), Holds(view), NEW p,
         p.lookups = IF job.layout = "legacy" THEN <<>> ELSE Lookups(job, view)
  PROVE  Accounts(p)
         = [i \in DOMAIN p.keys |->
              [key |-> p.keys[i], s |-> i <= p.signers,
               w |-> \/ i <= p.signers - p.roSigned
                     \/ p.signers < i /\ i <= Len(p.keys) - p.roUnsigned]]
           \o [i \in DOMAIN Side(job, view, TRUE) |-> [key |-> Side(job, view, TRUE)[i], s |-> FALSE, w |-> TRUE]]
           \o [i \in DOMAIN Side(job, view, FALSE) |-> [key |-> Side(job, view, FALSE)[i], s |-> FALSE, w |-> FALSE]]
<1> DEFINE lk == p.lookups
           lw == FlattenSeq([i \in DOMAIN lk |->
                   [j \in DOMAIN lk[i].writable |-> entries[lk[i].table][lk[i].writable[j] + 1]]])
           lr == FlattenSeq([i \in DOMAIN lk |->
                   [j \in DOMAIN lk[i].readonly |-> entries[lk[i].table][lk[i].readonly[j] + 1]]])
<1>1. Accounts(p)
         = [i \in DOMAIN p.keys |->
              [key |-> p.keys[i], s |-> i <= p.signers,
               w |-> \/ i <= p.signers - p.roSigned
                     \/ p.signers < i /\ i <= Len(p.keys) - p.roUnsigned]]
           \o [i \in DOMAIN lw |-> [key |-> lw[i], s |-> FALSE, w |-> TRUE]]
           \o [i \in DOMAIN lr |-> [key |-> lr[i], s |-> FALSE, w |-> FALSE]]
  BY Zenon DEF Accounts
<1>2. lw = Side(job, view, TRUE)
  <2>1. FlattenSeq([i \in DOMAIN lk |-> Fetch(lk[i], TRUE)]) = Side(job, view, TRUE)
    BY SideLoaded
  <2>2. \A l : Fetch(l, TRUE) = [j \in DOMAIN l.writable |-> entries[l.table][l.writable[j] + 1]]
    BY DEF Fetch, SideOf
  <2> HIDE DEF lk
  <2>3. [i \in DOMAIN lk |-> Fetch(lk[i], TRUE)]
        = [i \in DOMAIN lk |-> [j \in DOMAIN lk[i].writable |-> entries[lk[i].table][lk[i].writable[j] + 1]]]
    BY <2>2
  <2> QED  BY <2>1, <2>3
<1>3. lr = Side(job, view, FALSE)
  <2>1. FlattenSeq([i \in DOMAIN lk |-> Fetch(lk[i], FALSE)]) = Side(job, view, FALSE)
    BY SideLoaded
  <2>2. \A l : Fetch(l, FALSE) = [j \in DOMAIN l.readonly |-> entries[l.table][l.readonly[j] + 1]]
    BY DEF Fetch, SideOf
  <2> HIDE DEF lk
  <2>3. [i \in DOMAIN lk |-> Fetch(lk[i], FALSE)]
        = [i \in DOMAIN lk |-> [j \in DOMAIN lk[i].readonly |-> entries[lk[i].table][lk[i].readonly[j] + 1]]]
    BY <2>2
  <2> QED  BY <2>1, <2>3
<1> HIDE DEF lw, lr
<1> QED  BY <1>1, <1>2, <1>3, Zenon

\* The rights of account k of the job: what it is given and what was asked.
Righted(job, a, k) ==
  /\ a.key = k /\ a.s = Asked(job.ixs, k, "s")
  /\ a.w => Asked(job.ixs, k, "w")
  /\ Asked(job.ixs, k, "w") => a.w \/ k \in Programs(job.ixs)

\* The rights that follow from the group an account is in.
LEMMA RightsOfGroups ==
  ASSUME NEW job \in Jobs, NEW view, NEW k
  PROVE  /\ k \in Members(job, view, FALSE, TRUE) => Righted(job, [key |-> k, s |-> FALSE, w |-> TRUE], k)
         /\ k \in Members(job, view, FALSE, FALSE) => Righted(job, [key |-> k, s |-> FALSE, w |-> FALSE], k)
         /\ k \in SideKeys(job, view, TRUE) => Righted(job, [key |-> k, s |-> FALSE, w |-> TRUE], k)
         /\ k \in SideKeys(job, view, FALSE) => Righted(job, [key |-> k, s |-> FALSE, w |-> FALSE], k)
         /\ k = Wallet => Righted(job, [key |-> k, s |-> TRUE, w |-> TRUE], k)
<1>1. Asked(job.ixs, k, "s") \in BOOLEAN /\ Asked(job.ixs, k, "w") \in BOOLEAN /\ Writable(job, k) \in BOOLEAN
  BY DEF Asked, Writable
<1>2. ASSUME k \in Members(job, view, FALSE, TRUE)
      PROVE  Righted(job, [key |-> k, s |-> FALSE, w |-> TRUE], k)
  <2>1. ~Asked(job.ixs, k, "s") /\ Writable(job, k)
    BY <1>1, <1>2 DEF Members
  <2>2. Asked(job.ixs, k, "w") = TRUE
    BY <1>1, <2>1 DEF Writable
  <2>3. Asked(job.ixs, k, "s") = FALSE
    BY <1>1, <2>1
  <2> QED  BY <2>2, <2>3 DEF Righted
<1>3. ASSUME k \in Members(job, view, FALSE, FALSE)
      PROVE  Righted(job, [key |-> k, s |-> FALSE, w |-> FALSE], k)
  <2>1. ~Asked(job.ixs, k, "s") /\ ~Writable(job, k)
    BY <1>1, <1>3 DEF Members
  <2>2. Asked(job.ixs, k, "w") => k \in Programs(job.ixs)
    BY <2>1 DEF Writable
  <2>3. Asked(job.ixs, k, "s") = FALSE
    BY <1>1, <2>1
  <2> QED  BY <2>2, <2>3 DEF Righted
<1>4. k \in Looked(job, view) => ~Asked(job.ixs, k, "s")
  BY DEF Looked, MayLook
<1>5. ASSUME k \in SideKeys(job, view, TRUE)
      PROVE  Righted(job, [key |-> k, s |-> FALSE, w |-> TRUE], k)
  <2>1. Asked(job.ixs, k, "s") = FALSE /\ Asked(job.ixs, k, "w") = TRUE
    BY <1>1, <1>4, <1>5 DEF SideKeys
  <2> QED  BY <2>1 DEF Righted
<1>6. ASSUME k \in SideKeys(job, view, FALSE)
      PROVE  Righted(job, [key |-> k, s |-> FALSE, w |-> FALSE], k)
  <2>1. Asked(job.ixs, k, "s") = FALSE /\ Asked(job.ixs, k, "w") = FALSE
    BY <1>1, <1>4, <1>6 DEF SideKeys
  <2> QED  BY <2>1 DEF Righted
<1>7. ASSUME k = Wallet
      PROVE  Righted(job, [key |-> k, s |-> TRUE, w |-> TRUE], k)
  <2>1. Asked(job.ixs, k, "s") /\ Asked(job.ixs, k, "w")
    BY <1>7 DEF Asked
  <2> QED  BY <2>1 DEF Righted
<1> QED  BY <1>2, <1>3, <1>5, <1>6, <1>7

\* The runtime lists every key once, the wallet first, with these rights.
LEMMA AccountsAre ==
  ASSUME NEW job \in Jobs, NEW view, ViewOk(view), Holds(view), Compile(job, view).signers = 1,
         NEW p, p.keys = Compile(job, view).keys, p.signers = 1, p.roSigned = 0,
         p.roUnsigned = Compile(job, view).roUnsigned,
         p.lookups = IF job.layout = "legacy" THEN <<>> ELSE Lookups(job, view)
  PROVE  /\ DOMAIN Accounts(p) = 1..Len(Order(job, view))
         /\ \A i \in 1..Len(Order(job, view)) : Righted(job, Accounts(p)[i], Order(job, view)[i])
         /\ 1 \in 1..Len(Order(job, view)) /\ Order(job, view)[1] = Wallet /\ Accounts(p)[1].w
<1> DEFINE g3 == Group(job, view, FALSE, TRUE)
           g4 == Group(job, view, FALSE, FALSE)
           sT == Side(job, view, TRUE)
           sF == Side(job, view, FALSE)
           keys == p.keys
           ss == sT \o sF
           e == Order(job, view)
           R == [key : Nat, s : BOOLEAN, w : BOOLEAN]
           MayWrite(i) == i <= p.signers - p.roSigned \/ (p.signers < i /\ i <= Len(p.keys) - p.roUnsigned)
           K == [i \in DOMAIN keys |-> [key |-> keys[i], s |-> i <= p.signers, w |-> MayWrite(i)]]
           T == [i \in DOMAIN sT |-> [key |-> sT[i], s |-> FALSE, w |-> TRUE]]
           F == [i \in DOMAIN sF |-> [key |-> sF[i], s |-> FALSE, w |-> FALSE]]
           h == <<Wallet>> \o g3
<1>1. Accounts(p) = K \o T \o F
  BY AccountsIs
<1>2. keys = <<Wallet>> \o g3 \o g4 /\ e = keys \o ss /\ p.roUnsigned = Len(g4)
  BY OneSigner DEF Order
<1>3. /\ Enumerates(g3, Members(job, view, FALSE, TRUE)) /\ Enumerates(g4, Members(job, view, FALSE, FALSE))
      /\ Enumerates(sT, SideKeys(job, view, TRUE)) /\ Enumerates(sF, SideKeys(job, view, FALSE))
  BY GroupIs, SideIs
<1>4. /\ Members(job, view, FALSE, TRUE) \subseteq Nat /\ Members(job, view, FALSE, FALSE) \subseteq Nat
      /\ SideKeys(job, view, TRUE) \subseteq Nat /\ SideKeys(job, view, FALSE) \subseteq Nat
  <2>1. job.ixs \in Seq(IxRecords)
    BY JobIs
  <2>2. Mentioned(job.ixs) \subseteq Nat
    BY <2>1, MentionedIs
  <2> QED  BY <2>2 DEF Members, SideKeys, Looked
<1> HIDE DEF g3, g4, sT, sF, keys, e
<1>5. /\ g3 \in Seq(Nat) /\ Len(g3) \in Nat /\ \A i \in 1..Len(g3) : g3[i] \in Members(job, view, FALSE, TRUE)
      /\ g4 \in Seq(Nat) /\ Len(g4) \in Nat /\ \A i \in 1..Len(g4) : g4[i] \in Members(job, view, FALSE, FALSE)
      /\ sT \in Seq(Nat) /\ Len(sT) \in Nat /\ \A i \in 1..Len(sT) : sT[i] \in SideKeys(job, view, TRUE)
      /\ sF \in Seq(Nat) /\ Len(sF) \in Nat /\ \A i \in 1..Len(sF) : sF[i] \in SideKeys(job, view, FALSE)
  BY <1>3, <1>4, EnumeratesIn
<1>6. <<Wallet>> \in Seq(Nat) /\ Len(<<Wallet>>) = 1 /\ <<Wallet>>[1] = Wallet
  BY AssemblyAssumption
<1>7. Joined(h, <<Wallet>>, g3, Nat) /\ Joined(keys, h, g4, Nat) /\ Joined(ss, sT, sF, Nat) /\ Joined(e, keys, ss, Nat)
  <2>1. Joined(h, <<Wallet>>, g3, Nat) /\ Joined(ss, sT, sF, Nat)
    BY <1>5, <1>6, Cat
  <2>2. h \in Seq(Nat) /\ ss \in Seq(Nat)
    BY <2>1 DEF Joined
  <2>3. keys = h \o g4
    BY <1>2
  <2> HIDE DEF h, ss
  <2>4. Joined(keys, h, g4, Nat)
    BY <1>5, <2>2, <2>3, Cat
  <2>5. keys \in Seq(Nat)
    BY <2>4 DEF Joined
  <2>6. Joined(e, keys, ss, Nat)
    BY <1>2, <2>2, <2>5, Cat
  <2> QED  BY <2>1, <2>4, <2>6
<1> HIDE DEF h, ss
<1>8. /\ Len(h) = 1 + Len(g3) /\ Len(keys) = 1 + Len(g3) + Len(g4) /\ Len(keys) \in Nat
      /\ keys \in Seq(Nat) /\ DOMAIN keys = 1..Len(keys)
      /\ Len(ss) = Len(sT) + Len(sF) /\ Len(e) = Len(keys) + Len(sT) + Len(sF) /\ Len(e) \in Nat
  BY <1>5, <1>6, <1>7, LenProperties DEF Joined
<1>9. /\ keys[1] = Wallet
      /\ \A i \in 1..Len(keys) : /\ i > 1 /\ i <= 1 + Len(g3) => keys[i] \in Members(job, view, FALSE, TRUE)
                                 /\ i > 1 + Len(g3) => keys[i] \in Members(job, view, FALSE, FALSE)
  <2>1. h[1] = Wallet /\ 1 \in 1..Len(h)
    BY <1>5, <1>6, <1>7, <1>8 DEF Joined
  <2>2. \A i \in 1..Len(h) : keys[i] = h[i]
    BY <1>7 DEF Joined
  <2>3. ASSUME NEW i \in 1..Len(keys), i > 1, i <= 1 + Len(g3) PROVE keys[i] \in Members(job, view, FALSE, TRUE)
    <3>1. i \in 1..Len(h) /\ i > Len(<<Wallet>>)
      BY <1>5, <1>6, <1>8, <2>3
    <3>2. i - 1 \in 1..Len(g3) /\ h[i] = g3[i - 1]
      BY <1>6, <1>7, <3>1 DEF Joined
    <3> QED  BY <1>5, <2>2, <3>1, <3>2
  <2>4. ASSUME NEW i \in 1..Len(keys), i > 1 + Len(g3) PROVE keys[i] \in Members(job, view, FALSE, FALSE)
    <3>1. i - Len(h) \in 1..Len(g4) /\ keys[i] = g4[i - Len(h)]
      BY <1>7, <1>8, <2>4 DEF Joined
    <3> QED  BY <1>5, <3>1
  <2> QED  BY <2>1, <2>2, <2>3, <2>4
<1>10. /\ \A i \in 1..Len(keys) : e[i] = keys[i]
       /\ \A i \in 1..Len(sT) : e[Len(keys) + i] = sT[i]
       /\ \A i \in 1..Len(sF) : e[Len(keys) + Len(sT) + i] = sF[i]
  <2>1. \A i \in 1..Len(ss) : e[Len(keys) + i] = ss[i]
    BY <1>7 DEF Joined
  <2>2. ASSUME NEW i \in 1..Len(sT) PROVE e[Len(keys) + i] = sT[i]
    <3>1. i \in 1..Len(ss) /\ ss[i] = sT[i]
      BY <1>5, <1>7, <1>8 DEF Joined
    <3> QED  BY <2>1, <3>1
  <2>3. ASSUME NEW i \in 1..Len(sF) PROVE e[Len(keys) + Len(sT) + i] = sF[i]
    <3>1. Len(sT) + i \in 1..Len(ss)
      BY <1>5, <1>8
    <3>2. ss[Len(sT) + i] = sF[i]
      BY <1>7 DEF Joined
    <3>3. Len(keys) + (Len(sT) + i) = Len(keys) + Len(sT) + i
      BY <1>5, <1>8
    <3>4. e[Len(keys) + (Len(sT) + i)] = ss[Len(sT) + i]
      BY <2>1, <3>1
    <3> QED  BY <3>2, <3>3, <3>4
  <2> QED  BY <1>7, <2>2, <2>3 DEF Joined
<1>11. /\ K \in Seq(R) /\ Len(K) = Len(keys)
       /\ \A i \in 1..Len(keys) : K[i] = [key |-> keys[i], s |-> i <= p.signers, w |-> MayWrite(i)]
  <2>1. K \in [1..Len(keys) -> R]
    <3>1. ASSUME NEW i \in 1..Len(keys)
          PROVE  keys[i] \in Nat /\ (i <= p.signers) \in BOOLEAN /\ MayWrite(i) \in BOOLEAN
      BY <1>8
    <3> HIDE DEF MayWrite
    <3> QED  BY <1>8, <3>1
  <2>2. \A i \in 1..Len(keys) : K[i] = [key |-> keys[i], s |-> i <= p.signers, w |-> MayWrite(i)]
    BY <1>8
  <2> DEFINE n == Len(keys)
  <2>3. K \in [1..n -> R] /\ n \in Nat
    BY <1>8, <2>1
  <2> HIDE DEF K, R, n
  <2>4. K \in Seq(R) /\ Len(K) = n
    BY <2>3
  <2> QED  BY <2>2, <2>4 DEF n
<1>12. T \in Seq(R) /\ Len(T) = Len(sT) /\ \A i \in 1..Len(sT) : T[i] = [key |-> sT[i], s |-> FALSE, w |-> TRUE]
  <2>1. DOMAIN sT = 1..Len(sT) /\ \A i \in 1..Len(sT) : sT[i] \in Nat
    BY <1>5
  <2>2. T \in [1..Len(sT) -> R]
    BY <2>1
  <2> HIDE DEF R
  <2> QED  BY <1>5, <2>1, <2>2
<1>13. F \in Seq(R) /\ Len(F) = Len(sF) /\ \A i \in 1..Len(sF) : F[i] = [key |-> sF[i], s |-> FALSE, w |-> FALSE]
  <2>1. DOMAIN sF = 1..Len(sF) /\ \A i \in 1..Len(sF) : sF[i] \in Nat
    BY <1>5
  <2>2. F \in [1..Len(sF) -> R]
    BY <2>1
  <2> HIDE DEF R
  <2> QED  BY <1>5, <2>1, <2>2
<1> DEFINE KT == K \o T
           all == KT \o F
<1>14. /\ Len(all) = Len(e) /\ all \in Seq(R) /\ DOMAIN all = 1..Len(e)
       /\ \A i \in 1..Len(keys) : all[i] = K[i]
       /\ \A i \in 1..Len(sT) : all[Len(keys) + i] = T[i]
       /\ \A i \in 1..Len(sF) : all[Len(keys) + Len(sT) + i] = F[i]
  <2> HIDE DEF K, T, F, R
  <2>1. Joined(KT, K, T, R)
    BY <1>11, <1>12, Cat
  <2>2. KT \in Seq(R) /\ Len(KT) = Len(keys) + Len(sT)
    BY <1>11, <1>12, <2>1 DEF Joined
  <2> HIDE DEF KT
  <2>3. Joined(all, KT, F, R)
    BY <1>13, <2>2, Cat
  <2> HIDE DEF all
  <2>4. Len(all) = Len(e) /\ all \in Seq(R)
    BY <1>8, <1>13, <2>2, <2>3 DEF Joined
  <2>5. \A i \in 1..Len(keys) : i \in 1..Len(KT) /\ KT[i] = K[i]
    BY <1>5, <1>8, <1>11, <2>1, <2>2 DEF Joined
  <2>6. \A i \in 1..Len(sT) : Len(keys) + i \in 1..Len(KT) /\ KT[Len(keys) + i] = T[i]
    BY <1>5, <1>8, <1>11, <1>12, <2>1, <2>2 DEF Joined
  <2>7. \A i \in 1..Len(KT) : all[i] = KT[i]
    BY <2>3 DEF Joined
  <2>8. \A i \in 1..Len(sF) : all[Len(KT) + i] = F[i]
    BY <1>13, <2>3 DEF Joined
  <2> QED  BY <2>2, <2>4, <2>5, <2>6, <2>7, <2>8, LenProperties
<1> HIDE DEF K, T, F, R, KT
<1>15. Accounts(p) = all
  BY <1>1 DEF KT
<1> HIDE DEF all
<1>16. ASSUME NEW i \in 1..Len(e) PROVE Righted(job, all[i], e[i])
  <2>1. CASE i = 1
    <3>1. 1 \in 1..Len(keys)
      BY <1>5, <1>8
    <3>2. all[1] = [key |-> Wallet, s |-> TRUE, w |-> TRUE] /\ e[1] = Wallet
      <4>1. (1 <= p.signers) = TRUE /\ MayWrite(1) = TRUE
        OBVIOUS
      <4>2. K[1] = [key |-> keys[1], s |-> 1 <= p.signers, w |-> MayWrite(1)]
        BY <1>11, <3>1
      <4> HIDE DEF MayWrite
      <4>3. K[1] = [key |-> Wallet, s |-> TRUE, w |-> TRUE]
        BY <1>9, <4>1, <4>2
      <4> QED  BY <1>9, <1>10, <1>14, <3>1, <4>3
    <3> QED  BY <2>1, <3>2, RightsOfGroups
  <2>2. CASE i > 1 /\ i <= 1 + Len(g3)
    <3>1. i \in 1..Len(keys)
      BY <1>5, <1>8, <2>2
    <3>2. ~(i <= p.signers) /\ MayWrite(i)
      BY <1>2, <1>5, <1>8, <2>2, <3>1 DEF keys
    <3> HIDE DEF MayWrite
    <3>3. all[i] = [key |-> keys[i], s |-> FALSE, w |-> TRUE]
      <4>1. (i <= p.signers) = FALSE /\ MayWrite(i) = TRUE
        BY <3>2, <1>5, <1>8 DEF MayWrite
      <4> QED  BY <1>11, <1>14, <3>1, <4>1
    <3>4. e[i] = keys[i] /\ keys[i] \in Members(job, view, FALSE, TRUE)
      BY <1>9, <1>10, <2>2, <3>1
    <3> QED  BY <3>3, <3>4, RightsOfGroups
  <2>3. CASE i > 1 + Len(g3) /\ i <= Len(keys)
    <3>1. i \in 1..Len(keys)
      BY <1>5, <1>8, <2>3
    <3>2. (i <= p.signers) = FALSE /\ MayWrite(i) = FALSE
      BY <1>2, <1>5, <1>8, <2>3, <3>1 DEF keys
    <3> HIDE DEF MayWrite
    <3>3. all[i] = [key |-> keys[i], s |-> FALSE, w |-> FALSE]
      BY <1>11, <1>14, <3>1, <3>2
    <3>4. e[i] = keys[i] /\ keys[i] \in Members(job, view, FALSE, FALSE)
      BY <1>9, <1>10, <2>3, <3>1
    <3> QED  BY <3>3, <3>4, RightsOfGroups
  <2>4. CASE i > Len(keys) /\ i <= Len(keys) + Len(sT)
    <3> DEFINE q == i - Len(keys)
    <3>1. q \in 1..Len(sT) /\ Len(keys) + q = i
      BY <1>5, <1>8, <2>4
    <3> HIDE DEF q
    <3>2. /\ all[i] = [key |-> sT[q], s |-> FALSE, w |-> TRUE] /\ e[i] = sT[q]
          /\ sT[q] \in SideKeys(job, view, TRUE)
      BY <1>5, <1>10, <1>12, <1>14, <3>1
    <3> QED  BY <3>2, RightsOfGroups
  <2>5. CASE i > Len(keys) + Len(sT)
    <3> DEFINE q == i - (Len(keys) + Len(sT))
    <3>1. q \in 1..Len(sF) /\ Len(keys) + Len(sT) + q = i
      BY <1>5, <1>8, <2>5
    <3> HIDE DEF q
    <3>2. /\ all[i] = [key |-> sF[q], s |-> FALSE, w |-> FALSE] /\ e[i] = sF[q]
          /\ sF[q] \in SideKeys(job, view, FALSE)
      BY <1>5, <1>10, <1>13, <1>14, <3>1
    <3> QED  BY <3>2, RightsOfGroups
  <2> QED  BY <1>5, <1>8, <2>1, <2>2, <2>3, <2>4, <2>5
<1>17. 1 \in 1..Len(e) /\ e[1] = Wallet /\ all[1].w
  <2>1. 1 \in 1..Len(keys) /\ 1 \in 1..Len(e)
    BY <1>5, <1>8
  <2>3. MayWrite(1) = TRUE
    OBVIOUS
  <2>4. K[1] = [key |-> keys[1], s |-> 1 <= p.signers, w |-> MayWrite(1)] /\ all[1] = K[1]
    BY <1>11, <1>14, <2>1
  <2> HIDE DEF MayWrite
  <2>2. all[1].w = MayWrite(1) /\ MayWrite(1)
    BY <2>3, <2>4
  <2> HIDE DEF MayWrite
  <2> QED  BY <1>9, <1>10, <2>1, <2>2
<1> QED  BY <1>14, <1>15, <1>16, <1>17 DEF e

\* What the runtime reads of a signed job is what the job says.
LEMMA SaysIt ==
  ASSUME NEW job \in Jobs, NEW view, ViewOk(view), Holds(view), Compile(job, view).signers = 1,
         NEW hash \in Nat, NEW read, read = Parse(WireOf(job, Compile(job, view), hash))
  PROVE  Faithful(job, read, Accounts(read)) /\ read.hash = hash
<1> DEFINE m == Compile(job, view)
           body == Serialize(job.layout, m, hash)
           sig == Signature(Wallet, body)
           e == Order(job, view)
           all == Accounts(read)
           M == Mentioned(job.ixs) \cup {Wallet}
<1>1. /\ MessageOk(job.layout, m)
      /\ m.lookups = IF job.layout = "legacy" THEN <<>> ELSE Lookups(job, view)
  BY CompileOk
<1>2. WireOf(job, Compile(job, view), hash) = SignOwn(body)
  <2>1. WireOf(job, Compile(job, view), hash) = IF job.layout = "jupiter" THEN SignSlot(FromJupiter(body), 0) ELSE SignOwn(body)
    BY Zenon DEF WireOf
  <2> DEFINE S == Nat \cup AltTables
  <2>2. body \in Seq(S)
    <3>1. Wire(S) /\ AltTables \subseteq S
      BY DEF Wire
    <3> DEFINE h == IF job.layout = "legacy" THEN 0 ELSE 1
    <3>2. Versioned(job.layout, h)
      BY DEF Versioned
    <3>3. body = Serialize(job.layout, m, hash)
      OBVIOUS
    <3> HIDE DEF S, m, h, body
    <3>4. BodyIs(body, job.layout, m, hash, h, S)
      BY <1>1, <3>1, <3>2, <3>3, BodyAt
    <3> QED  BY <3>4 DEF BodyIs
  <2>3. SignSlot(FromJupiter(body), 0) = SignOwn(body)
    <3>1. Wire(S)
      BY DEF Wire
    <3> HIDE DEF S, body
    <3> QED  BY <2>2, <3>1, SlotIsOwn
  <2> QED  BY <2>1, <2>3
<1>3. read = [signatures |-> <<sig>>, body |-> body,
              signers |-> 1, roSigned |-> m.roSigned, roUnsigned |-> m.roUnsigned,
              keys |-> m.keys, hash |-> hash, ixs |-> m.ixs, lookups |-> m.lookups, rest |-> 0]
  <2> HIDE DEF m
  <2> QED  BY <1>1, <1>2, ParseBack
<1>4. m.roSigned = 0 /\ m.ixs = [i \in DOMAIN job.ixs |-> CompiledIx(e, job.ixs[i])] /\ Enumerates(e, M)
  BY OneSigner, CompiledIxs, OrderIs
<1>5. /\ read.keys = Compile(job, view).keys /\ read.signers = 1 /\ read.roSigned = 0
      /\ read.roUnsigned = Compile(job, view).roUnsigned
      /\ read.lookups = IF job.layout = "legacy" THEN <<>> ELSE Lookups(job, view)
  <2> HIDE DEF body, sig
  <2> QED  BY <1>1, <1>3, <1>4 DEF m
<1>6. /\ DOMAIN all = 1..Len(e)
      /\ \A i \in 1..Len(e) : Righted(job, all[i], e[i])
      /\ 1 \in 1..Len(e) /\ e[1] = Wallet /\ all[1].w
  BY <1>5, AccountsAre
<1>7. /\ read.rest = 0 /\ read.hash = hash /\ read.signatures = <<sig>> /\ read.signers = 1
      /\ read.body = body /\ read.ixs = m.ixs
  <2> HIDE DEF body, sig, m
  <2> QED  BY <1>3
<1>8. Len(e) \in Nat
  BY <1>4 DEF Enumerates
<1>9. DOMAIN job.ixs = 1..Len(job.ixs)
  BY JobIs
<1> HIDE DEF m, body, e, all, M
<1>10. \A i \in DOMAIN all : all[i].key = e[i]
  BY <1>6 DEF Righted
<1>11. Len(read.signatures) = read.signers
       /\ \A i \in DOMAIN read.signatures : read.signatures[i] = Signature(all[i].key, read.body)
  <2>1. read.signatures = <<sig>> /\ DOMAIN <<sig>> = {1} /\ <<sig>>[1] = sig /\ Len(<<sig>>) = 1
    BY <1>7
  <2>2. all[1].key = Wallet
    BY <1>6, <1>10
  <2> QED  BY <1>7, <2>1, <2>2
<1>12. \A i, j \in DOMAIN all : all[i].key = all[j].key => i = j
  <2>1. \A i, j \in 1..Len(e) : e[i] = e[j] => i = j
    BY <1>4 DEF Enumerates
  <2> DEFINE n == Len(e)
  <2>2. DOMAIN all = 1..n /\ \A i, j \in 1..n : e[i] = e[j] => i = j
    BY <1>6, <2>1
  <2> HIDE DEF n
  <2> QED  BY <1>10, <2>2
<1>13. {all[i].key : i \in DOMAIN all} = M
  <2>1. \A i \in DOMAIN all : all[i].key \in M
    BY <1>4, <1>6, <1>10, ElementOfSeq DEF Enumerates
  <2>2. \A k \in M : \E i \in DOMAIN all : all[i].key = k
    <3>1. \A k \in M : \E i \in 1..Len(e) : e[i] = k
      BY <1>4, Zenon DEF Enumerates
    <3>2. DOMAIN all = 1..Len(e)
      BY <1>6
    <3> QED  BY <1>10, <3>1, <3>2, Zenon
  <2> QED  BY <2>1, <2>2
<1>14. \A i \in DOMAIN all :
          /\ all[i].s = Asked(job.ixs, all[i].key, "s")
          /\ all[i].w => Asked(job.ixs, all[i].key, "w")
          /\ Asked(job.ixs, all[i].key, "w") => all[i].w \/ all[i].key \in Programs(job.ixs)
  BY <1>6 DEF Righted
<1> DEFINE Names(ix) == [prog |-> all[ix.prog + 1].key,
                         accts |-> [j \in DOMAIN ix.accts |-> all[ix.accts[j] + 1].key], data |-> ix.data]
           Meant(ix) == [prog |-> ix.prog,
                         accts |-> [j \in DOMAIN ix.metas |-> ix.metas[j].key], data |-> ix.data]
<1>15. [i \in DOMAIN read.ixs |-> Names(read.ixs[i])] = [i \in DOMAIN job.ixs |-> Meant(job.ixs[i])]
  <2>1. ASSUME NEW i \in DOMAIN job.ixs PROVE Names(CompiledIx(e, job.ixs[i])) = Meant(job.ixs[i])
    <3> DEFINE ix == job.ixs[i]
               c == CompiledIx(e, ix)
    <3>1. /\ c.prog + 1 \in 1..Len(e) /\ e[c.prog + 1] = ix.prog
          /\ DOMAIN c.accts = DOMAIN ix.metas /\ c.data = ix.data
          /\ \A j \in DOMAIN ix.metas : c.accts[j] + 1 \in 1..Len(e) /\ e[c.accts[j] + 1] = ix.metas[j].key
      <4>1. Enumerates(e, Mentioned(job.ixs) \cup {Wallet}) /\ i \in 1..Len(job.ixs)
        BY <1>4, <1>9 DEF M
      <4> QED  BY <4>1, CompiledIxIs
    <3> HIDE DEF c, ix
    <3>2. all[c.prog + 1].key = ix.prog
      BY <1>6, <1>10, <3>1
    <3>3. \A j \in DOMAIN ix.metas : all[c.accts[j] + 1].key = ix.metas[j].key
      BY <1>6, <1>10, <3>1
    <3>4. [j \in DOMAIN c.accts |-> all[c.accts[j] + 1].key] = [j \in DOMAIN ix.metas |-> ix.metas[j].key]
      BY <3>1, <3>3
    <3>5. Names(c) = Meant(ix)
      BY <3>1, <3>2, <3>4
    <3> QED  BY <3>5 DEF c, ix
  <2>2. DOMAIN read.ixs = DOMAIN job.ixs /\ \A i \in DOMAIN job.ixs : read.ixs[i] = CompiledIx(e, job.ixs[i])
    BY <1>4, <1>7
  <2> HIDE DEF Names, Meant
  <2>3. \A i \in DOMAIN job.ixs : Names(read.ixs[i]) = Meant(job.ixs[i])
    BY <2>1, <2>2
  <2> QED  BY <2>2, <2>3
<1>16. all[1].key = Wallet /\ all[1].w
  BY <1>6, <1>10
<1>17. Faithful(job, read, all)
       = /\ read.rest = 0
         /\ Len(read.signatures) = read.signers
         /\ \A i \in DOMAIN read.signatures : read.signatures[i] = Signature(all[i].key, read.body)
         /\ all[1].key = Wallet /\ all[1].w
         /\ \A i, j \in DOMAIN all : all[i].key = all[j].key => i = j
         /\ {all[i].key : i \in DOMAIN all} = M
         /\ [i \in DOMAIN read.ixs |-> Names(read.ixs[i])] = [i \in DOMAIN job.ixs |-> Meant(job.ixs[i])]
         /\ \A i \in DOMAIN all :
              /\ all[i].s = Asked(job.ixs, all[i].key, "s")
              /\ all[i].w => Asked(job.ixs, all[i].key, "w")
              /\ Asked(job.ixs, all[i].key, "w") => all[i].w \/ all[i].key \in Programs(job.ixs)
  BY Zenon DEF Faithful, M
<1>18. Faithful(job, read, all)
  <2> HIDE DEF Names, Meant
  <2> QED  BY <1>7, <1>11, <1>12, <1>13, <1>14, <1>15, <1>16, <1>17, Zenon
<1> QED  BY <1>7, <1>18 DEF all

---------------------------------------------------------------------------
\* Every length keeps its value on the wire.
LEMMA LengthsDo == LengthsSurvive
<1>1. ASSUME NEW n \in Nat, n < U16
      PROVE  Decode(Encode(n)) = [ok |-> TRUE, len |-> Len(Encode(n)), val |-> n]
  <2>1. Encode(n) \in Seq(Nat)
    BY <1>1, EncodeType
  <2>2. Stands(Encode(n), 1, Encode(n))
    BY <2>1, AtSelf
  <2> QED  BY <1>1, <2>1, <2>2, DecodeHead
<1>2. \A n \in CompactSamples : n \in Nat /\ n < U16
  BY SMT DEF CompactSamples, U16
<1> HIDE DEF CompactSamples
<1> QED  BY <1>1, <1>2 DEF LengthsSurvive

\* s begins with v.
Begins(s, v) == \A i \in 1..Len(v) : i \in 1..Len(s) /\ s[i] = v[i]

\* What begins the beginning begins the whole.
LEMMA BeginsOn ==
  ASSUME NEW s, NEW t, Begins(t, s), NEW v, Begins(s, v)
  PROVE  Begins(t, v)
BY DEF Begins

\* A sequence begins what is appended to it.
LEMMA BeginsCat ==
  ASSUME NEW a \in Seq(Nat), NEW b \in Seq(Nat)
  PROVE  /\ a \o b \in Seq(Nat) /\ Begins(a \o b, a)
         /\ Range(a) \subseteq Range(a \o b) /\ Range(b) \subseteq Range(a \o b)
<1> DEFINE c == a \o b
<1>1. Joined(c, a, b, Nat)
  BY Cat
<1> HIDE DEF c
<1>2. /\ c \in Seq(Nat) /\ Len(c) = Len(a) + Len(b) /\ Len(a) \in Nat /\ Len(b) \in Nat
      /\ DOMAIN c = 1..Len(c) /\ DOMAIN a = 1..Len(a) /\ DOMAIN b = 1..Len(b)
  BY <1>1, LenProperties DEF Joined
<1>3. \A i \in 1..Len(a) : i \in 1..Len(c) /\ c[i] = a[i]
  BY <1>1, <1>2 DEF Joined
<1>4. \A i \in 1..Len(b) : Len(a) + i \in 1..Len(c) /\ c[Len(a) + i] = b[i]
  BY <1>1, <1>2 DEF Joined
<1>5. Range(a) \subseteq Range(c) /\ Range(b) \subseteq Range(c)
  BY <1>2, <1>3, <1>4 DEF Range
<1> QED  BY <1>2, <1>3, <1>5 DEF Begins, c

\* A flattened list has the members of each part.
LEMMA FlattenHolds ==
  ASSUME NEW ws \in Seq(Seq(Nat))
  PROVE  FlattenSeq(ws) \in Seq(Nat) /\ \A i \in 1..Len(ws) : Range(ws[i]) \subseteq Range(FlattenSeq(ws))
<1> DEFINE n == Len(ws)
           x == FlattenSeq(ws)
<1>1. n \in Nat /\ \A i \in 1..n : ws[i] \in Seq(Nat) /\ DOMAIN ws[i] = 1..Len(ws[i])
  OBVIOUS
<1>2. PICK F : Accumulates(F, ws, Nat)
  BY Flattened
<1>3. x \in Seq(Nat)
  <2>1. n \in 0..n
    BY <1>1
  <2> QED  BY <1>2, <2>1 DEF Accumulates
<1>4. Stands(x, 1, FlattenSeq(ws))
  BY <1>3, AtSelf
<1>5. Len(x) \in Nat /\ DOMAIN x = 1..Len(x)
  BY <1>3, LenProperties
<1>6. \A i \in 1..n : Stands(x, 1 + Len(F[i - 1]), ws[i]) /\ Len(F[i - 1]) \in Nat
  <2>1. PartsStand(x, 1, F, ws)
    BY <1>2, <1>4, <1>5, AtParts
  <2> QED  BY <2>1 DEF PartsStand
<1> HIDE DEF x
<1>7. ASSUME NEW i \in 1..n PROVE Range(ws[i]) \subseteq Range(x)
  <2> DEFINE p == 1 + Len(F[i - 1])
  <2>1. Stands(x, p, ws[i]) /\ p \in Nat \ {0}
    BY <1>6
  <2> HIDE DEF p
  <2>2. \A j \in 1..Len(ws[i]) : p + j - 1 \in 1..Len(x) /\ x[p + j - 1] = ws[i][j]
    BY <1>5, <2>1 DEF Stands
  <2> QED  BY <1>1, <1>5, <2>2 DEF Range
<1> QED  BY <1>3, <1>7 DEF x

---------------------------------------------------------------------------
\* What was read of a table is how it still begins, and so is what a signed
\* transaction was compiled from; a batch behind the tool, and one that landed,
\* is in the table.
Phases == {"sending", "confirming", "failed_try", "deployed", "gave_up"}
BatchNumbers == 1..Len(Batches)
DeployRecords == [phase : Phases, batch : BatchNumbers, try : Nat, hash : Nat]
ExtendRecords == [batch : BatchNumbers, hash : Nat, done : BOOLEAN]
AsmTypes ==
  /\ altNow \in Nat /\ entries \in [AltTables -> Seq(Nat)]
  /\ deploy \in DeployRecords /\ extends \subseteq ExtendRecords
  /\ toolHash # Unread => toolHash \in Nat
  /\ botHash # Unread => botHash \in Nat
ViewsBegin ==
  \A t \in AltTables : altView[t] # Unread =>
    altView[t].keys \in Seq(Nat) /\ Begins(entries[t], altView[t].keys)
SignedFrom(view) ==
  /\ ViewOk(view) /\ \A t \in AltTables : Begins(entries[t], view[t])
  /\ signed.job \in Jobs /\ signed.hash \in Nat /\ Compile(signed.job, view).signers = 1
  /\ signed.wire = WireOf(signed.job, Compile(signed.job, view), signed.hash)
SignedBegins == signed # Unsigned => \E view : SignedFrom(view)
InTable(b) == Range(Batches[b]) \subseteq Range(entries[Grown])
BatchesLand ==
  /\ \A b \in 1..Len(Batches) : b < deploy.batch \/ deploy.phase = "deployed" => InTable(b)
  /\ \A x \in extends : x.done => InTable(x.batch)
AsmInv == AsmTypes /\ ViewsBegin /\ SignedBegins /\ BatchesLand

\* The tool has at least one batch.
LEMMA BatchesAre ==
  /\ Len(Batches) \in Nat \ {0} /\ DOMAIN Batches = 1..Len(Batches)
  /\ \A b \in 1..Len(Batches) : Batches[b] \in Seq(Nat)
<1>1. Batches \in Seq(Seq(Nat)) /\ Batches # <<>>
  BY JobsAssumption
<1> QED  BY <1>1, EmptySeq

\* The tool's record after a change of phase,
LEMMA DeployKept ==
  ASSUME NEW d \in DeployRecords, NEW ph \in Phases, NEW d2, d2 = [d EXCEPT !.phase = ph]
  PROVE  d2 \in DeployRecords /\ d2.batch = d.batch /\ d2.phase = ph
BY DEF DeployRecords

Stamped(d, ph, h)  == [d EXCEPT !.phase = ph, !.hash = h]
Tried(d, ph, n)    == [d EXCEPT !.phase = ph, !.try = n]
Moved(d, ph, b, n) == [d EXCEPT !.phase = ph, !.batch = b, !.try = n]

\* after it sent,
LEMMA DeployStamped ==
  ASSUME NEW d \in DeployRecords, NEW ph \in Phases, NEW h \in Nat,
         NEW d2, d2 = Stamped(d, ph, h)
  PROVE  d2 \in DeployRecords /\ d2.batch = d.batch /\ d2.phase = ph
BY DEF DeployRecords, Stamped

\* after it counted an attempt,
LEMMA DeployTried ==
  ASSUME NEW d \in DeployRecords, NEW ph \in Phases, NEW n \in Nat,
         NEW d2, d2 = Tried(d, ph, n)
  PROVE  d2 \in DeployRecords /\ d2.batch = d.batch /\ d2.phase = ph
BY DEF DeployRecords, Tried

\* after it went on to another batch.
LEMMA DeployMoved ==
  ASSUME NEW d \in DeployRecords, NEW ph \in Phases, NEW b \in BatchNumbers, NEW n \in Nat,
         NEW d2, d2 = Moved(d, ph, b, n)
  PROVE  d2 \in DeployRecords /\ d2.batch = b /\ d2.phase = ph
BY DEF DeployRecords, Moved

\* A blockhash is a time.
LEMMA HashIs ==
  ASSUME NEW c, c # Unread => c \in Nat, altNow \in Nat
  PROVE  Blockhash(c) \in Nat
BY DEF Blockhash

\* The invariant holds at the start.
LEMMA AsmInits ==
  ASSUME AsmInit
  PROVE  AsmInv
<1>1. PICK done \in 0..Len(Batches) - 1 :
        /\ entries = [OldEntries EXCEPT ![Grown] = @ \o FlattenSeq(SubSeq(Batches, 1, done))]
        /\ deploy = [phase |-> "sending", batch |-> done + 1, try |-> 1, hash |-> 0]
  BY DEF AsmInit
<1> DEFINE bs == SubSeq(Batches, 1, done)
<1>2. /\ Len(Batches) \in Nat \ {0} /\ Batches \in Seq(Seq(Nat)) /\ OldEntries \in [AltTables -> Seq(Nat)]
      /\ Grown \in AltTables
  BY BatchesAre, JobsAssumption, AssemblyAssumption
<1>3. done \in Nat /\ done + 1 \in 1..Len(Batches)
  BY <1>2
<1>4. /\ bs \in Seq(Seq(Nat)) /\ Len(bs) = done
      /\ \A b \in 1..done : bs[b] = Batches[b]
  <2>1. \A i \in 1..done : i \in 1..Len(Batches) /\ Batches[i] \in Seq(Nat) /\ 1 + i - 1 = i
    BY <1>2, <1>3
  <2>2. /\ bs \in Seq(Seq(Nat)) /\ Len(bs) = IF 1 <= done THEN done - 1 + 1 ELSE 0
        /\ \A i \in 1..done - 1 + 1 : bs[i] = Batches[1 + i - 1]
    <3>1. 1 \in Int /\ done \in Int /\ \A i \in 1..done : Batches[i] \in Seq(Nat)
      BY <1>3, <2>1
    <3>2. \A i \in 1..done : Batches[i] \in Seq(Nat)
      BY <3>1
    <3> DEFINE R == Seq(Nat)
    <3>3. \A i \in 1..done : Batches[i] \in R
      BY <3>2
    <3> HIDE DEF R, bs
    <3>4. bs = SubSeq(Batches, 1, done)
      BY DEF bs
    <3>5. /\ bs \in Seq(R) /\ Len(bs) = IF 1 <= done THEN done - 1 + 1 ELSE 0
          /\ \A i \in 1..done - 1 + 1 : bs[i] = Batches[1 + i - 1]
      BY <3>1, <3>3, <3>4, SubSeqProperties
    <3> QED  BY <3>5 DEF R
  <2> HIDE DEF bs
  <2> QED  BY <1>3, <2>1, <2>2
<1> HIDE DEF bs
<1>5. FlattenSeq(bs) \in Seq(Nat) /\ \A b \in 1..done : Range(Batches[b]) \subseteq Range(FlattenSeq(bs))
  BY <1>4, FlattenHolds
<1>6. /\ OldEntries[Grown] \o FlattenSeq(bs) \in Seq(Nat)
      /\ Range(FlattenSeq(bs)) \subseteq Range(OldEntries[Grown] \o FlattenSeq(bs))
  BY <1>2, <1>5, BeginsCat
<1>7. entries = [OldEntries EXCEPT ![Grown] = OldEntries[Grown] \o FlattenSeq(bs)]
  BY <1>1 DEF bs
<1>8. entries \in [AltTables -> Seq(Nat)] /\ entries[Grown] = OldEntries[Grown] \o FlattenSeq(bs)
  BY <1>2, <1>6, <1>7
<1>9. AsmTypes
  <2>1. altNow = 0 /\ extends = {} /\ toolHash = Unread /\ botHash \in {Unread, 0}
    BY DEF AsmInit
  <2>2. deploy \in DeployRecords
    <3>1. "sending" \in Phases
      BY DEF Phases
    <3>2. done + 1 \in BatchNumbers /\ 1 \in Nat /\ 0 \in Nat
      BY <1>3 DEF BatchNumbers
    <3> DEFINE d == done + 1
    <3> HIDE DEF d
    <3>3. deploy = [phase |-> "sending", batch |-> d, try |-> 1, hash |-> 0] /\ d \in BatchNumbers
      BY <1>1, <3>2 DEF d
    <3> QED  BY <3>1, <3>2, <3>3 DEF DeployRecords
  <2> QED  BY <1>8, <2>1, <2>2 DEF AsmTypes
<1>10. ViewsBegin /\ SignedBegins
  BY DEF AsmInit, ViewsBegin, SignedBegins
<1>11. BatchesLand
  <2>1. deploy.batch = done + 1 /\ deploy.phase = "sending" /\ extends = {}
    BY <1>1 DEF AsmInit
  <2>2. ASSUME NEW b \in 1..Len(Batches), b < done + 1 PROVE InTable(b)
    <3>1. b \in 1..done
      BY <1>3, <2>2
    <3> QED  BY <1>5, <1>6, <1>8, <3>1 DEF InTable
  <2>3. "sending" # "deployed"
    OBVIOUS
  <2> QED  BY <2>1, <2>2, <2>3 DEF BatchesLand
<1> QED  BY <1>9, <1>10, <1>11 DEF AsmInv

\* A table that grows keeps every promise about how it begins.
LEMMA Growing ==
  ASSUME AsmInv, entries' \in [AltTables -> Seq(Nat)],
         \A t \in AltTables : Begins(entries'[t], entries[t])
  PROVE  /\ altView' = altView => ViewsBegin'
         /\ signed' = signed => SignedBegins'
<1>1. ASSUME altView' = altView PROVE ViewsBegin'
  <2>1. ASSUME NEW t \in AltTables, altView'[t] # Unread
        PROVE  altView'[t].keys \in Seq(Nat) /\ Begins(entries'[t], altView'[t].keys)
    <3>1. altView[t].keys \in Seq(Nat) /\ Begins(entries[t], altView[t].keys)
      BY <1>1, <2>1 DEF AsmInv, ViewsBegin
    <3> QED  BY <1>1, <3>1, BeginsOn
  <2> QED  BY <2>1 DEF ViewsBegin
<1>2. ASSUME signed' = signed PROVE SignedBegins'
  <2>1. CASE signed = Unsigned
    BY <1>2, <2>1 DEF SignedBegins
  <2>2. CASE signed # Unsigned
    <3>1. PICK view : SignedFrom(view)
      BY <2>2 DEF AsmInv, SignedBegins
    <3>2. \A t \in AltTables : Begins(entries'[t], view[t])
      <4>1. ASSUME NEW t \in AltTables PROVE Begins(entries'[t], view[t])
        <5>1. Begins(entries[t], view[t]) /\ Begins(entries'[t], entries[t])
          BY <3>1 DEF SignedFrom
        <5> QED  BY <5>1, BeginsOn
      <4> QED  BY <4>1
    <3>3. SignedFrom(view)'
      BY <1>2, <3>1, <3>2 DEF SignedFrom
    <3> QED  BY <3>3 DEF SignedBegins
  <2> QED  BY <2>1, <2>2
<1> QED  BY <1>1, <1>2

\* So do the promises when no table changes.
LEMMA Standing ==
  ASSUME AsmInv, UNCHANGED entries
  PROVE  /\ altView' = altView => ViewsBegin'
         /\ signed' = signed => SignedBegins'
<1>1. entries' \in [AltTables -> Seq(Nat)] /\ \A t \in AltTables : Begins(entries'[t], entries[t])
  BY DEF AsmInv, AsmTypes, Begins
<1> QED  BY <1>1, Growing

\* Every step keeps the invariant.
LEMMA AsmStep ==
  ASSUME AsmInv, [AsmNext]_asmVars
  PROVE  AsmInv'
<1>1. AsmTypes /\ ViewsBegin /\ SignedBegins /\ BatchesLand
  BY DEF AsmInv
<1>2. Grown \in AltTables /\ Len(Batches) \in Nat \ {0}
  BY AssemblyAssumption, BatchesAre
<1>3. CASE AltTick
  <2>1. altNow' = altNow + 1 /\ UNCHANGED <<entries, extends, deploy, toolHash, altView, botHash, signed>>
    BY <1>3 DEF AltTick, deployVars, botVars
  <2>2. AsmTypes'
    BY <1>1, <2>1 DEF AsmTypes
  <2>3. BatchesLand'
    BY <1>1, <2>1 DEF BatchesLand, InTable
  <2> QED  BY <2>1, <2>2, <2>3, Standing DEF AsmInv
<1>4. CASE DeploySend
  <2>1. UNCHANGED <<altNow, entries, altView, botHash, signed>> /\ toolHash' = Blockhash(toolHash)
    BY <1>4 DEF DeploySend, botVars
  <2>2. toolHash' \in Nat
    BY <1>1, <2>1, HashIs DEF AsmTypes
  <2> DEFINE new == [batch |-> deploy.batch, hash |-> toolHash', done |-> FALSE]
  <2>3. extends' \subseteq extends \cup {new}
    BY <1>4 DEF DeploySend
  <2>4. PICK replied \in BOOLEAN :
          deploy' = [deploy EXCEPT !.phase = IF replied THEN "confirming" ELSE "failed_try", !.hash = toolHash']
    BY <1>4 DEF DeploySend
  <2>5. new \in ExtendRecords /\ ~new.done
    BY <1>1, <2>2 DEF AsmTypes, ExtendRecords, DeployRecords
  <2>6. deploy' \in DeployRecords /\ deploy'.batch = deploy.batch /\ deploy'.phase # "deployed"
    <3>1. deploy \in DeployRecords
      BY <1>1 DEF AsmTypes
    <3> DEFINE ph == IF replied THEN "confirming" ELSE "failed_try"
    <3>2. ph = "confirming" \/ ph = "failed_try"
      OBVIOUS
    <3>3. deploy' = [deploy EXCEPT !.phase = ph, !.hash = toolHash']
      BY <2>4
    <3> HIDE DEF ph
    <3>4. ph \in Phases /\ ph # "deployed"
      BY <3>2 DEF Phases
    <3>5. deploy.batch \in BatchNumbers /\ deploy.try \in Nat
      BY <3>1 DEF DeployRecords
    <3> DEFINE h == toolHash'
               d2 == deploy'
    <3>6. d2 = Stamped(deploy, ph, h) /\ h \in Nat
      BY <2>2, <3>3 DEF Stamped
    <3> HIDE DEF h, d2
    <3>7. d2 \in DeployRecords /\ d2.batch = deploy.batch /\ d2.phase = ph
      BY <3>1, <3>4, <3>6, DeployStamped
    <3> QED  BY <3>4, <3>7 DEF d2
  <2> HIDE DEF new
  <2>7. AsmTypes'
    BY <1>1, <2>1, <2>2, <2>3, <2>5, <2>6 DEF AsmTypes
  <2>8. BatchesLand'
    <3>1. ASSUME NEW b \in 1..Len(Batches), b < deploy'.batch \/ deploy'.phase = "deployed" PROVE InTable(b)'
      BY <1>1, <2>1, <2>6, <3>1 DEF BatchesLand, InTable
    <3>2. ASSUME NEW x \in extends', x.done PROVE InTable(x.batch)'
      BY <1>1, <2>1, <2>3, <2>5, <3>2 DEF BatchesLand, InTable
    <3> QED  BY <3>1, <3>2 DEF BatchesLand, InTable
  <2> QED  BY <2>1, <2>7, <2>8, Standing DEF AsmInv
<1>5. CASE DeployConfirmed
  <2>1. UNCHANGED <<altNow, entries, extends, toolHash, altView, botHash, signed>> /\ deploy' = NextBatch
    BY <1>5 DEF DeployConfirmed, botVars
  <2>2. deploy \in DeployRecords /\ deploy.batch \in 1..Len(Batches) /\ deploy.phase = "confirming"
    BY <1>1, <1>5 DEF AsmTypes, DeployRecords, DeployConfirmed, BatchNumbers
  <2>3. InTable(deploy.batch)
    BY <1>1, <1>5 DEF DeployConfirmed, BatchesLand
  <2>4. \A b \in 1..Len(Batches) : b < deploy.batch => InTable(b)
    BY <1>1 DEF BatchesLand
  <2>5. CASE deploy.batch = Len(Batches)
    <3>1. deploy' = [deploy EXCEPT !.phase = "deployed"]
      BY <2>1, <2>5 DEF NextBatch
    <3>2. deploy' \in DeployRecords
      <4>1. "deployed" \in Phases
        BY DEF Phases
      <4> QED  BY <2>2, <3>1, <4>1, DeployKept
    <3>3. \A b \in 1..Len(Batches) : InTable(b)
      BY <1>2, <2>3, <2>4, <2>5
    <3>4. AsmTypes'
      BY <1>1, <2>1, <3>2 DEF AsmTypes
    <3>5. BatchesLand'
      BY <1>1, <2>1, <3>3 DEF BatchesLand, InTable
    <3> QED  BY <2>1, <3>4, <3>5, Standing DEF AsmInv
  <2>6. CASE deploy.batch # Len(Batches)
    <3>1. deploy' = [deploy EXCEPT !.phase = "sending", !.batch = deploy.batch + 1, !.try = 1]
      BY <2>1, <2>6 DEF NextBatch
    <3>2. deploy.batch + 1 \in 1..Len(Batches)
      BY <1>2, <2>2, <2>6
    <3>3. deploy' \in DeployRecords /\ deploy'.batch = deploy.batch + 1 /\ deploy'.phase = "sending"
      <4> DEFINE b == deploy.batch + 1
                 d2 == deploy'
      <4>1. "sending" \in Phases /\ b \in BatchNumbers
        BY <3>2 DEF Phases, BatchNumbers
      <4>2. d2 = Moved(deploy, "sending", b, 1) /\ 1 \in Nat
        BY <3>1 DEF Moved
      <4> HIDE DEF b, d2
      <4>3. d2 \in DeployRecords /\ d2.batch = b /\ d2.phase = "sending"
        BY <2>2, <4>1, <4>2, DeployMoved
      <4> QED  BY <4>3 DEF b, d2
    <3>4. \A b \in 1..Len(Batches) : b < deploy'.batch => InTable(b)
      <4>1. \A b \in 1..Len(Batches) : b < deploy'.batch => b < deploy.batch \/ b = deploy.batch
        BY <1>2, <2>2, <3>3
      <4> QED  BY <2>3, <2>4, <4>1
    <3>5. AsmTypes'
      BY <1>1, <2>1, <3>3 DEF AsmTypes
    <3>6. BatchesLand'
      <4>1. deploy'.phase # "deployed"
        BY <3>3
      <4> QED  BY <1>1, <2>1, <3>4, <4>1 DEF BatchesLand, InTable
    <3> QED  BY <2>1, <3>5, <3>6, Standing DEF AsmInv
  <2> QED  BY <2>5, <2>6
<1>6. CASE DeployUnconfirmed
  <2>1. UNCHANGED <<altNow, entries, extends, toolHash, altView, botHash, signed>>
        /\ deploy' = [deploy EXCEPT !.phase = "failed_try"]
    BY <1>6 DEF DeployUnconfirmed, botVars
  <2>2. deploy \in DeployRecords
    BY <1>1 DEF AsmTypes
  <2>3. deploy' \in DeployRecords /\ deploy'.batch = deploy.batch /\ deploy'.phase = "failed_try"
    <3>1. "failed_try" \in Phases
      BY DEF Phases
    <3> QED  BY <2>1, <2>2, <3>1, DeployKept
  <2>4. AsmTypes'
    BY <1>1, <2>1, <2>3 DEF AsmTypes
  <2>5. BatchesLand'
    <3>1. deploy'.phase # "deployed"
      BY <2>3
    <3> QED  BY <1>1, <2>1, <2>3, <3>1 DEF BatchesLand, InTable
  <2> QED  BY <2>1, <2>4, <2>5, Standing DEF AsmInv
<1>7. CASE DeployRetries
  <2>1. UNCHANGED <<altNow, entries, extends, toolHash, altView, botHash, signed>>
        /\ deploy' = IF deploy.try < DeployTries THEN [deploy EXCEPT !.phase = "sending", !.try = @ + 1]
                     ELSE [deploy EXCEPT !.phase = "gave_up"]
    BY <1>7 DEF DeployRetries, botVars
  <2>2. deploy \in DeployRecords
    BY <1>1 DEF AsmTypes
  <2>3. deploy' \in DeployRecords /\ deploy'.batch = deploy.batch /\ deploy'.phase # "deployed"
    <3>0. /\ "sending" \in Phases /\ "gave_up" \in Phases
          /\ "sending" # "deployed" /\ "gave_up" # "deployed"
      BY DEF Phases
    <3>1. CASE deploy.try < DeployTries
      <4> DEFINE n == deploy.try + 1
                 d2 == deploy'
      <4>1. d2 = Tried(deploy, "sending", n)
        BY <2>1, <3>1 DEF Tried
      <4>2. n \in Nat
        BY <2>2 DEF DeployRecords
      <4> HIDE DEF n, d2
      <4>3. d2 \in DeployRecords /\ d2.batch = deploy.batch /\ d2.phase = "sending"
        BY <2>2, <3>0, <4>1, <4>2, DeployTried
      <4> QED  BY <3>0, <4>3 DEF d2
    <3>2. CASE ~(deploy.try < DeployTries)
      <4>1. deploy' = [deploy EXCEPT !.phase = "gave_up"]
        BY <2>1, <3>2
      <4> QED  BY <2>2, <3>0, <4>1, DeployKept
    <3> QED  BY <3>1, <3>2
  <2>4. AsmTypes'
    BY <1>1, <2>1, <2>3 DEF AsmTypes
  <2>5. BatchesLand'
    BY <1>1, <2>1, <2>3 DEF BatchesLand, InTable
  <2> QED  BY <2>1, <2>4, <2>5, Standing DEF AsmInv
<1>8. ASSUME NEW x \in extends, ExtendLands(x) PROVE AsmInv'
  <2> DEFINE old == entries[Grown]
             more == Batches[x.batch]
  <2>1. /\ UNCHANGED <<altNow, deploy, toolHash, altView, botHash, signed>>
        /\ entries' = [entries EXCEPT ![Grown] = old \o more]
        /\ extends' = (extends \ {x}) \cup {[x EXCEPT !.done = TRUE]}
    BY <1>8 DEF ExtendLands, botVars
  <2>2. x \in ExtendRecords /\ x.batch \in 1..Len(Batches) /\ entries \in [AltTables -> Seq(Nat)]
    BY <1>1 DEF AsmTypes, ExtendRecords, BatchNumbers
  <2>3. old \in Seq(Nat) /\ more \in Seq(Nat)
    BY <1>2, <2>2, BatchesAre
  <2> HIDE DEF old, more
  <2>4. /\ old \o more \in Seq(Nat) /\ Begins(old \o more, old)
        /\ Range(old) \subseteq Range(old \o more) /\ Range(more) \subseteq Range(old \o more)
    BY <2>3, BeginsCat
  <2>5. entries' \in [AltTables -> Seq(Nat)] /\ entries'[Grown] = old \o more
    BY <1>2, <2>1, <2>2, <2>4
  <2>6. \A t \in AltTables : Begins(entries'[t], entries[t])
    <3>1. ASSUME NEW t \in AltTables, t # Grown PROVE Begins(entries'[t], entries[t])
      <4>1. entries'[t] = entries[t]
        BY <2>1, <2>2, <3>1
      <4> QED  BY <4>1 DEF Begins
    <3> QED  BY <2>4, <2>5, <3>1 DEF old
  <2>7. [x EXCEPT !.done = TRUE] \in ExtendRecords /\ [x EXCEPT !.done = TRUE].batch = x.batch
    BY <2>2 DEF ExtendRecords
  <2>8. AsmTypes'
    BY <1>1, <2>1, <2>5, <2>7 DEF AsmTypes
  <2>9. BatchesLand'
    <3>1. \A b \in 1..Len(Batches) : InTable(b) => InTable(b)'
      BY <2>4, <2>5 DEF InTable, old
    <3>2. InTable(x.batch)'
      BY <2>4, <2>5 DEF InTable, more
    <3>3. ASSUME NEW b \in 1..Len(Batches), b < deploy'.batch \/ deploy'.phase = "deployed" PROVE InTable(b)'
      BY <1>1, <2>1, <3>1, <3>3 DEF BatchesLand
    <3>4. ASSUME NEW y \in extends', y.done PROVE InTable(y.batch)'
      <4>1. CASE y \in extends
        <5>1. InTable(y.batch) /\ y.batch \in 1..Len(Batches)
          BY <1>1, <3>4, <4>1 DEF BatchesLand, AsmTypes, ExtendRecords, BatchNumbers
        <5> QED  BY <3>1, <5>1
      <4>2. CASE y = [x EXCEPT !.done = TRUE]
        BY <2>7, <3>2, <4>2
      <4> QED  BY <2>1, <3>4, <4>1, <4>2
    <3> QED  BY <3>3, <3>4 DEF BatchesLand, InTable
  <2>10. ViewsBegin' /\ SignedBegins'
    BY <2>1, <2>5, <2>6, Growing
  <2> QED  BY <2>8, <2>9, <2>10 DEF AsmInv
<1>9. ASSUME NEW t \in AltTables, ResolveAlt(t) PROVE AsmInv'
  <2>1. UNCHANGED <<altNow, entries, extends, deploy, toolHash, botHash, signed>>
    BY <1>9 DEF ResolveAlt, deployVars
  <2>2. PICK keys \in {entries[t]} \cup {<<>>} : altView' = [altView EXCEPT ![t] = [at |-> altNow, keys |-> keys]]
    BY <1>9 DEF ResolveAlt
  <2>3. keys \in Seq(Nat) /\ Begins(entries[t], keys)
    <3>1. entries[t] \in Seq(Nat)
      BY <1>1 DEF AsmTypes
    <3>2. CASE keys = entries[t]
      BY <3>1, <3>2 DEF Begins
    <3>3. CASE keys = <<>>
      <4>1. Len(keys) = 0 /\ keys \in Seq(Nat)
        BY <3>3
      <4> QED  BY <4>1 DEF Begins
    <3> QED  BY <2>2, <3>2, <3>3
  <2>4. ASSUME NEW u \in AltTables, altView'[u] # Unread
        PROVE  altView'[u].keys \in Seq(Nat) /\ Begins(entries'[u], altView'[u].keys)
    <3>1. altView'[u] = altView[u] \/ (u = t /\ altView'[u].keys = keys)
      BY <2>2
    <3> QED  BY <1>1, <2>1, <2>3, <2>4, <3>1 DEF ViewsBegin
  <2>5. ViewsBegin'
    BY <2>4 DEF ViewsBegin
  <2>6. AsmTypes' /\ BatchesLand'
    BY <1>1, <2>1 DEF AsmTypes, BatchesLand, InTable
  <2> QED  BY <2>1, <2>5, <2>6, Standing DEF AsmInv
<1>10. ASSUME NEW job \in Jobs, BuildAndSign(job) PROVE AsmInv'
  <2> DEFINE view == [t \in AltTables |-> IF t \in Range(job.tables) THEN altView[t].keys ELSE <<>>]
  <2>1. /\ UNCHANGED <<altNow, entries, extends, deploy, toolHash, altView>> /\ botHash' = Blockhash(botHash)
        /\ signed' = IF Compile(job, view).signers # 1 THEN Unsigned
                     ELSE [job |-> job, hash |-> botHash', wire |-> WireOf(job, Compile(job, view), botHash')]
    BY <1>10, Zenon DEF BuildAndSign, deployVars
  <2>2. botHash' \in Nat
    BY <1>1, <2>1, HashIs DEF AsmTypes
  <2>3. \A t \in AltTables : view[t] \in Seq(Nat) /\ Begins(entries[t], view[t])
    <3>1. ASSUME NEW t \in AltTables PROVE view[t] \in Seq(Nat) /\ Begins(entries[t], view[t])
      <4>1. CASE t \in Range(job.tables)
        <5>1. altView[t] # Unread
          BY <1>10, <4>1 DEF BuildAndSign, Kept
        <5> QED  BY <1>1, <4>1, <5>1 DEF ViewsBegin
      <4>2. CASE t \notin Range(job.tables)
        BY <4>2 DEF Begins
      <4> QED  BY <4>1, <4>2
    <3> QED  BY <3>1
  <2>4. ViewOk(view)
    BY <2>3 DEF ViewOk
  <2>0. PICK seen : seen = view
    OBVIOUS
  <2> HIDE DEF view
  <2>5. ASSUME signed' # Unsigned PROVE SignedFrom(seen)'
    <3>1. /\ Compile(job, seen).signers = 1
          /\ signed' = [job |-> job, hash |-> botHash', wire |-> WireOf(job, Compile(job, seen), botHash')]
      BY <2>0, <2>1, <2>5
    <3>2. signed'.job = job /\ signed'.hash = botHash' /\ signed'.wire = WireOf(job, Compile(job, seen), botHash')
      BY <3>1
    <3>3. ViewOk(seen) /\ \A t \in AltTables : Begins(entries'[t], seen[t])
      BY <2>0, <2>1, <2>3, <2>4
    <3>4. signed'.job \in Jobs /\ signed'.hash \in Nat /\ Compile(signed'.job, seen).signers = 1
      BY <1>10, <2>2, <3>1, <3>2
    <3>5. signed'.wire = WireOf(signed'.job, Compile(signed'.job, seen), signed'.hash)
      BY <3>2
    <3> QED  BY <3>3, <3>4, <3>5 DEF SignedFrom
  <2>6. SignedBegins'
    BY <2>5 DEF SignedBegins
  <2>7. AsmTypes' /\ BatchesLand'
    BY <1>1, <2>1, <2>2 DEF AsmTypes, BatchesLand, InTable
  <2> QED  BY <2>1, <2>6, <2>7, Standing DEF AsmInv
<1>11. CASE UNCHANGED asmVars
  <2>1. UNCHANGED <<altNow, entries, extends, deploy, toolHash, altView, botHash, signed>>
    BY <1>11 DEF asmVars, deployVars, botVars
  <2>2. AsmTypes' /\ BatchesLand'
    BY <1>1, <2>1 DEF AsmTypes, BatchesLand, InTable
  <2> QED  BY <2>1, <2>2, Standing DEF AsmInv
<1> QED  BY <1>3, <1>4, <1>5, <1>6, <1>7, <1>8, <1>9, <1>10, <1>11 DEF AsmNext

\* It holds of every behaviour.
LEMMA AsmKeeps == AsmSpec => []AsmInv
<1>1. AsmInit => AsmInv
  BY AsmInits
<1>2. AsmInv /\ [AsmNext]_asmVars => AsmInv'
  BY AsmStep
<1> QED  BY <1>1, <1>2, PTL DEF AsmSpec

\* A signed transaction is read back as the instructions that were meant, with
\* the rights they ask for and nothing left over, whatever jobs that fit in a
\* packet, whatever the tables, what they grow by and when they were read; when
\* the tool reports success the table holds every batch; and lengths survive
\* their encoding.
THEOREM MessagesMeanWhatTheySay == AsmSpec => []AssemblySound
<1>1. ASSUME AsmInv PROVE AssemblySound
  <2>1. ASSUME signed # Unsigned
        PROVE  LET AsMeant(read) == Faithful(signed.job, read, Accounts(read)) /\ read.hash = signed.hash
               IN  AsMeant(Parse(signed.wire))
    <3>1. PICK view : SignedFrom(view)
      BY <1>1, <2>1 DEF AsmInv, SignedBegins
    <3>2. /\ ViewOk(view) /\ signed.job \in Jobs /\ signed.hash \in Nat
          /\ Compile(signed.job, view).signers = 1
          /\ signed.wire = WireOf(signed.job, Compile(signed.job, view), signed.hash)
      BY <3>1 DEF SignedFrom
    <3>3. Holds(view)
      BY <1>1, <3>1 DEF Holds, SignedFrom, Begins, AsmInv, AsmTypes
    <3> DEFINE read == Parse(signed.wire)
    <3>4. read = Parse(WireOf(signed.job, Compile(signed.job, view), signed.hash))
      BY <3>2
    <3> HIDE DEF read
    <3>5. Faithful(signed.job, read, Accounts(read)) /\ read.hash = signed.hash
      BY <3>2, <3>3, <3>4, SaysIt
    <3> QED  BY <3>5 DEF read
  <2>2. deploy.phase = "deployed" =>
          UNION {Range(Batches[b]) : b \in DOMAIN Batches} \subseteq Range(entries[Grown])
    BY <1>1, BatchesAre DEF AsmInv, BatchesLand, InTable
  <2> QED  BY <2>1, <2>2, LengthsDo, Zenon DEF AssemblySound
<1>2. AsmSpec => []AsmInv
  BY AsmKeeps
<1> QED  BY <1>1, <1>2, PTL
=============================================================================
