----------------------------- MODULE Native_proofs ----------------------------
(***************************************************************************)
(* What the native path promises. The opportunity ring and the worker that   *)
(* picks from it, for every capacity, age limit and interval: the ring stays *)
(* sound under any submissions and picks, and the interval neither bursts    *)
(* nor lets an opportunity compete twice. The runs of the executor, for any  *)
(* number of them and of permits: what each tip respects, and that the       *)
(* counters account for every run.                                           *)
(***************************************************************************)
EXTENDS NativeWorker, NativeExecutor, FiniteSetTheorems, WellFoundedInduction, TLAPS

(***************************************************************************)
(* The ring and the worker                                                 *)
(***************************************************************************)
\* A set of offers that is not empty has one with the least number.
LEMMA OldestExists ==
  ASSUME BufTypeOK, buf # {}
  PROVE  \E o \in buf : IsOldest(o)
<1> DEFINE ids == {o.id : o \in buf}
<1>1. ids \subseteq Nat /\ ids # {}
  BY DEF BufTypeOK, Offer
<1>2. PICK i \in ids : \A j \in ids : <<j, i>> \notin OpToRel(<, Nat)
  BY <1>1, NatLessThanWellFounded, WFMin
<1>3. \A j \in ids : ~(j < i)
  BY <1>1, <1>2 DEF OpToRel
<1>4. PICK o \in buf : o.id = i
  OBVIOUS
<1>5. \A p \in buf : p.id \in ids /\ p.id \in Nat
  BY <1>1
<1>6. i \in Nat
  BY <1>1
<1> HIDE DEF ids
<1>7. \A p \in buf : ~(p.id < i) /\ p.id \in Nat
  BY <1>3, <1>5
<1>8. \A p \in buf : o.id <= p.id
  BY <1>4, <1>6, <1>7
<1> QED  BY <1>8 DEF IsOldest

---------------------------------------------------------------------------
\* The parts of the invariant that need no assumption on the capacity, and
\* the two that need room for one offer.
BufInv == BufTypeOK /\ SubmissionOrder
Ledger == Conservation /\ HardCap

\* The empty ring has both.
LEMMA BufInitInv == BufInit => BufInv /\ Ledger
<1> SUFFICES ASSUME BufInit PROVE BufInv /\ Ledger
  OBVIOUS
<1>1. Cardinality({}) = 0 /\ IsFiniteSet({})
  BY FS_EmptySet
<1> QED  BY <1>1, BufferAssumption
         DEF BufInit, BufInv, Ledger, BufTypeOK, SubmissionOrder, Conservation, HardCap

\* Sizes before and after a submission.
LEMMA SubmitSizes ==
  ASSUME BufInv, Capacity > 0, NEW net \in Nets, Submit(net)
  PROVE  /\ IsFiniteSet(buf')
         /\ Cardinality(buf) \in Nat
         /\ Cardinality(buf') = IF Full THEN Cardinality(buf) ELSE Cardinality(buf) + 1
<1> DEFINE new  == [id |-> submitted, net |-> net, at |-> now]
           kept == IF Full THEN {o \in buf : ~IsOldest(o)} ELSE buf
<1>1. IsFiniteSet(buf) /\ Cardinality(buf) \in Nat
  BY FS_CardinalityType DEF BufInv, BufTypeOK
<1>2. buf' = kept \cup {new}
  BY DEF Submit, Evicted, SubmittedAt
<1>3. new \notin buf
  BY DEF BufInv, BufTypeOK, SubmissionOrder
<1>4. IsFiniteSet(kept) /\ new \notin kept
      /\ Cardinality(kept) = IF Full THEN Cardinality(buf) - 1 ELSE Cardinality(buf)
  <2>1. CASE ~Full
    BY <2>1, <1>1, <1>3
  <2>2. CASE Full
    <3>1. buf # {}
      BY <2>2, <1>1, FS_EmptySet, BufferAssumption DEF Full
    <3>2. PICK o \in buf : IsOldest(o)
      BY <3>1, OldestExists DEF BufInv
    <3>3. \A p \in buf : IsOldest(p) => p = o
      <4> SUFFICES ASSUME NEW p \in buf, IsOldest(p), p # o PROVE FALSE
        OBVIOUS
      <4>1. o.id <= p.id /\ p.id <= o.id /\ o.id \in Nat /\ p.id \in Nat
        BY <3>2 DEF IsOldest, BufInv, BufTypeOK, Offer
      <4>2. o.id # p.id
        BY DEF BufInv, SubmissionOrder
      <4> QED  BY <4>1, <4>2
    <3>4. kept = buf \ {o}
      BY <2>2, <3>2, <3>3
    <3>5. IsFiniteSet(buf \ {o}) /\ Cardinality(buf \ {o}) = Cardinality(buf) - 1
      BY <1>1, FS_RemoveElement
    <3> QED  BY <2>2, <3>4, <3>5, <1>3
  <2> QED  BY <2>1, <2>2
<1> HIDE DEF new, kept
<1>5. /\ IsFiniteSet(kept \cup {new})
      /\ Cardinality(kept \cup {new}) = Cardinality(kept) + 1
  BY <1>4, FS_AddElement
<1> QED  BY <1>1, <1>2, <1>4, <1>5

\* The offer that is added is the youngest.
LEMMA SubmitOrder ==
  ASSUME BufInv, NEW net \in Nets, Submit(net)
  PROVE  SubmissionOrder' /\ buf' \in SUBSET Offer
<1> DEFINE new == [id |-> submitted, net |-> net, at |-> now]
<1>1. new \in Offer
  BY DEF BufInv, BufTypeOK, Offer
<1>2. buf' \subseteq buf \cup {new}
  BY DEF Submit, Evicted, SubmittedAt
<1>3. \A o \in buf : o \in Offer /\ o.id < submitted /\ o.at <= now /\ o.id \in Nat
  BY DEF BufInv, BufTypeOK, SubmissionOrder, Offer
<1>4. submitted' = submitted + 1 /\ now' = now /\ submitted \in Nat /\ now \in Nat
  BY DEF Submit, Evicted, SubmittedAt, BufInv, BufTypeOK
<1>5. new.id = submitted /\ new.at = now
  OBVIOUS
<1> HIDE DEF new
<1>6. ASSUME NEW o \in buf'
      PROVE  /\ o.id < submitted' /\ o.at <= now'
             /\ \A p \in buf' \ {o} : o.id # p.id /\ (o.id < p.id => o.at <= p.at)
  <2>1. o.id < submitted' /\ o.at <= now'
    BY <1>2, <1>3, <1>4, <1>5
  <2>2. ASSUME NEW p \in buf' \ {o}
        PROVE  o.id # p.id /\ (o.id < p.id => o.at <= p.at)
    <3>1. CASE o \in buf /\ p \in buf
      BY <3>1 DEF BufInv, SubmissionOrder
    <3>2. CASE o = new
      BY <3>2, <1>2, <1>3, <1>4, <1>5
    <3>3. CASE p = new
      BY <3>3, <1>2, <1>3, <1>4, <1>5
    <3> QED  BY <1>2, <3>1, <3>2, <3>3
  <2> QED  BY <2>1, <2>2
<1> QED  BY <1>1, <1>2, <1>3, <1>6 DEF SubmissionOrder

\* A submission without a full ring, or with room for one offer.
LEMMA SubmitInv ==
  ASSUME BufInv, Capacity > 0, NEW net \in Nets, Submit(net)
  PROVE  BufInv' /\ (Ledger => Ledger')
<1>1. SubmissionOrder' /\ buf' \in SUBSET Offer
  BY SubmitOrder
<1>2. /\ IsFiniteSet(buf') /\ Cardinality(buf) \in Nat
      /\ Cardinality(buf') = IF Full THEN Cardinality(buf) ELSE Cardinality(buf) + 1
  BY SubmitSizes
<1>3. /\ submitted' = submitted + 1
      /\ overflow' = overflow + (IF Full THEN 1 ELSE 0)
      /\ maxSeen' = IF Cardinality(buf') > maxSeen THEN Cardinality(buf') ELSE maxSeen
      /\ UNCHANGED <<now, stale, selected>>
  BY DEF Submit, Evicted, SubmittedAt
<1>4. BufTypeOK'
  BY <1>1, <1>2, <1>3 DEF BufInv, BufTypeOK
<1>5. ASSUME Ledger PROVE Ledger'
  <2>1. Conservation'
    BY <1>2, <1>3, <1>5 DEF Ledger, Conservation, BufInv, BufTypeOK
  <2>2. Cardinality(buf') <= Capacity
    BY <1>2, <1>5, BufferAssumption DEF Full, Ledger, HardCap, BufInv, BufTypeOK
  <2>3. HardCap'
    BY <1>2, <1>3, <1>5, <2>2 DEF Ledger, HardCap, BufInv, BufTypeOK
  <2> QED  BY <2>1, <2>3 DEF Ledger
<1> QED  BY <1>1, <1>4, <1>5 DEF BufInv

---------------------------------------------------------------------------
\* What the two outcomes of a pick have in common: the ring shrinks, and the
\* stale offers are counted.
LEMMA FreshAndStale ==
  ASSUME BufInv
  PROVE  /\ IsFiniteSet(FreshOffers) /\ FreshOffers \subseteq buf
         /\ Cardinality(FreshOffers) \in Nat /\ Cardinality(buf \ FreshOffers) \in Nat
         /\ Cardinality(buf) = Cardinality(FreshOffers) + Cardinality(buf \ FreshOffers)
<1> DEFINE F == FreshOffers
           O == buf \ FreshOffers
<1>1. F \in SUBSET buf /\ O \in SUBSET buf /\ F \cup O = buf /\ F \cap O = {}
  BY DEF FreshOffers
<1>2. IsFiniteSet(F) /\ IsFiniteSet(O)
  BY <1>1, FS_Subset DEF BufInv, BufTypeOK
<1> HIDE DEF F, O
<1>3. Cardinality(F \cup O) = Cardinality(F) + Cardinality(O) - Cardinality(F \cap O)
  BY <1>2, FS_Union
<1>4. Cardinality(F \cap O) = 0
  BY <1>1, FS_EmptySet
<1>5. Cardinality(F) \in Nat /\ Cardinality(O) \in Nat
  BY <1>2, FS_CardinalityType
<1>6. Cardinality(F \cup O) = Cardinality(buf)
  BY <1>1
<1>7. Cardinality(buf) = Cardinality(F) + Cardinality(O)
  BY <1>3, <1>4, <1>5, <1>6
<1> QED  BY <1>1, <1>2, <1>5, <1>7 DEF F, O

\* A pick keeps what is fresh, in order, and counts what it drops.
LEMMA PickBestInv ==
  ASSUME BufInv, NEW o \in buf, PickBest(o)
  PROVE  BufInv' /\ (Ledger => Ledger')
<1>1. /\ o \in FreshOffers /\ buf' = FreshOffers \ {o}
      /\ stale' = stale + Cardinality(buf \ FreshOffers)
      /\ selected' = selected + 1
      /\ UNCHANGED <<now, submitted, overflow, maxSeen>>
  BY DEF PickBest, Rest, IsBest
<1>2. /\ IsFiniteSet(FreshOffers) /\ FreshOffers \subseteq buf
      /\ Cardinality(FreshOffers) \in Nat /\ Cardinality(buf \ FreshOffers) \in Nat
      /\ Cardinality(buf) = Cardinality(FreshOffers) + Cardinality(buf \ FreshOffers)
  BY FreshAndStale
<1>3. /\ IsFiniteSet(FreshOffers \ {o})
      /\ Cardinality(FreshOffers \ {o}) = Cardinality(FreshOffers) - 1
  BY <1>1, <1>2, FS_RemoveElement
<1>4. IsFiniteSet(buf') /\ Cardinality(buf') \in Nat
      /\ Cardinality(buf) = Cardinality(buf') + 1 + Cardinality(buf \ FreshOffers)
  BY <1>1, <1>2, <1>3, FS_CardinalityType
<1>5. buf' \subseteq buf
  BY <1>1, <1>2
<1>6. BufTypeOK'
  BY <1>1, <1>2, <1>4, <1>5 DEF BufInv, BufTypeOK
<1>7. SubmissionOrder'
  BY <1>1, <1>5 DEF BufInv, SubmissionOrder
<1>8. ASSUME Ledger PROVE Ledger'
  BY <1>1, <1>2, <1>4, <1>8, BufferAssumption
     DEF Ledger, Conservation, HardCap, BufInv, BufTypeOK
<1> QED  BY <1>6, <1>7, <1>8 DEF BufInv

\* So does a pick that finds nothing fresh.
LEMMA PickNoneInv ==
  ASSUME BufInv, PickNone
  PROVE  BufInv' /\ (Ledger => Ledger')
<1>1. /\ FreshOffers = {} /\ buf' = {} /\ stale' = stale + Cardinality(buf)
      /\ UNCHANGED <<now, submitted, overflow, selected, maxSeen>>
  BY DEF PickNone
<1>2. IsFiniteSet({}) /\ Cardinality({}) = 0
  BY FS_EmptySet
<1>3. Cardinality(buf) \in Nat
  BY FS_CardinalityType DEF BufInv, BufTypeOK
<1>4. BufTypeOK' /\ SubmissionOrder'
  BY <1>1, <1>2, <1>3 DEF BufInv, BufTypeOK, SubmissionOrder
<1>5. ASSUME Ledger PROVE Ledger'
  BY <1>1, <1>2, <1>3, <1>5, BufferAssumption
     DEF Ledger, Conservation, HardCap, BufInv, BufTypeOK
<1> QED  BY <1>4, <1>5 DEF BufInv

\* Time changes no offer.
LEMMA PassInv ==
  ASSUME BufInv, Pass
  PROVE  BufInv' /\ (Ledger => Ledger')
BY DEF Pass, BufInv, BufTypeOK, SubmissionOrder, Offer, Ledger, Conservation, HardCap

\* Every step of the ring keeps its invariant.
LEMMA BufNextInv ==
  ASSUME Capacity > 0, BufInv, Ledger, [BufNext]_bufVars
  PROVE  BufInv' /\ Ledger'
<1>1. ASSUME NEW net \in Nets, Submit(net) PROVE BufInv' /\ Ledger'
  BY <1>1, SubmitInv
<1>2. ASSUME NEW o \in buf, PickBest(o) PROVE BufInv' /\ Ledger'
  BY <1>2, PickBestInv
<1>3. CASE PickNone
  BY <1>3, PickNoneInv
<1>4. CASE Pass
  BY <1>4, PassInv
<1>5. CASE UNCHANGED bufVars
  BY <1>5 DEF bufVars, BufInv, BufTypeOK, SubmissionOrder, Ledger, Conservation, HardCap
<1> QED  BY <1>1, <1>2, <1>3, <1>4, <1>5 DEF BufNext

\* So it always holds.
LEMMA BufCorrect == ASSUME Capacity > 0 PROVE BufSpec => [](BufInv /\ Ledger)
<1>1. BufInv /\ Ledger /\ [BufNext]_bufVars => (BufInv /\ Ledger)'
  BY BufNextInv
<1> QED  BY BufInitInv, <1>1, PTL DEF BufSpec

---------------------------------------------------------------------------
\* Every submitted opportunity is in the ring or in exactly one counter.
THEOREM ConservationHolds == ASSUME Capacity > 0 PROVE BufSpec => []Conservation
BY BufCorrect, PTL DEF Ledger

\* The ring never outgrows its capacity, if that is not zero.
THEOREM HardCapHolds == ASSUME Capacity > 0 PROVE BufSpec => []HardCap
BY BufCorrect, PTL DEF Ledger

\* The ring keeps the order of submission.
THEOREM OrderHolds == ASSUME Capacity > 0 PROVE BufSpec => []SubmissionOrder
BY BufCorrect, PTL DEF BufInv

\* The ring is a bounded queue that loses nothing uncounted and keeps the order.
THEOREM RingHolds == ASSUME Capacity > 0 PROVE BufSpec => []RingSound
BY BufCorrect, PTL DEF Ledger, BufInv, RingSound

\* A fresh opportunity leaves as the best of a pick or as the oldest of a
\* full ring, and in no other way.
THEOREM FreshStay == ASSUME Capacity > 0 PROVE BufSpec => FreshOnesStay
<1> DEFINE Leaves(o) ==
      \/ selected' = selected + 1 /\ ~\E p \in FreshOffers : p # o /\ Beats(p, o)
      \/ submitted' = submitted + 1 /\ Full /\ IsOldest(o)
<1>1. ASSUME BufInv, [BufNext]_bufVars
      PROVE  [\A o \in FreshOffers \ buf' : Leaves(o)]_bufVars
  <2> SUFFICES ASSUME BufNext, NEW o \in FreshOffers \ buf' PROVE Leaves(o)
    BY <1>1
  <2>0. o \in buf
    BY DEF FreshOffers
  <2>1. ASSUME NEW net \in Nets, Submit(net) PROVE Leaves(o)
    BY <2>1, <2>0 DEF Submit, Evicted, SubmittedAt
  <2>2. ASSUME NEW b \in buf, PickBest(b) PROVE Leaves(o)
    <3>1. o = b /\ selected' = selected + 1
      BY <2>2 DEF PickBest, Rest
    <3>2. \A p \in FreshOffers \ {o} : Beats(o, p)
      BY <3>1, <2>2 DEF PickBest, Rest, IsBest
    <3>3. \A p \in FreshOffers : p.net \in Int /\ p.id \in Int
      <4>1. \A p \in Offer : p.net \in Nets /\ p.id \in Int
        BY DEF Offer
      <4>2. FreshOffers \subseteq Offer
        BY <1>1 DEF FreshOffers, BufInv, BufTypeOK
      <4>3. Nets \subseteq Int
        BY BufferAssumption
      <4> QED  BY <4>1, <4>2, <4>3
    <3>4. \A p \in FreshOffers : p # o => ~Beats(p, o)
      BY <3>2, <3>3 DEF Beats
    <3> QED  BY <3>1, <3>4
  <2>3. CASE PickNone
    BY <2>3 DEF PickNone
  <2>4. CASE Pass
    BY <2>4, <2>0 DEF Pass
  <2> QED  BY <2>1, <2>2, <2>3, <2>4 DEF BufNext
<1>2. BufSpec => []BufInv
  BY BufCorrect, PTL
<1> QED  BY <1>1, <1>2, PTL DEF BufSpec, FreshOnesStay

---------------------------------------------------------------------------
\* What division by a period means.
LEMMA PeriodOf ==
  ASSUME NEW i \in Nat \ {0}, NEW n \in Nat
  PROVE  n \div i \in Nat /\ i * (n \div i) <= n /\ n < i * (n \div i) + i
  OBVIOUS

\* Multiples of the interval are an interval apart.
LEMMA PeriodsApart ==
  ASSUME NEW i \in Nat \ {0}, NEW x \in Nat, NEW y \in Nat, x < y
  PROVE  i * x \in Nat /\ i * y \in Nat /\ i * x + i <= i * y
<1>1. PICK k \in Nat : y = x + 1 + k
  OBVIOUS
<1>2. i * y = i * x + i + i * k /\ i * k \in Nat /\ i * x \in Nat
  BY <1>1
<1> QED  BY <1>2

\* Two times of one period are less than an interval apart.
LEMMA SamePeriod ==
  ASSUME NEW i \in Nat \ {0}, NEW a \in Nat, NEW b \in Nat, NEW n \in Nat,
         i * a <= n, n < i * a + i, i * b <= n, n < i * b + i
  PROVE  a = b
<1>1. ~(a < b) /\ ~(b < a)
  BY PeriodsApart
<1> QED  BY <1>1

\* From a multiple of the interval, Skip goes to the first multiple after now.
LEMMA SkipsToNextTick ==
  ASSUME NEW i \in Nat \ {0}, NEW q \in Nat, NEW n \in Nat, i * q <= n
  PROVE  i * q + i * ((n - i * q) \div i + 1) = i * (n \div i + 1)
<1>1. i * q \in Nat /\ n - i * q \in Nat
  OBVIOUS
<1> DEFINE e == (n - i * q) \div i
           d == n \div i
<1>2. e \in Nat /\ i * e <= n - i * q /\ n - i * q < i * e + i
  BY <1>1, PeriodOf
<1>3. d \in Nat /\ i * d <= n /\ n < i * d + i
  BY PeriodOf
<1> HIDE DEF e, d
<1>4. i * (e + q) = i * e + i * q /\ i * e \in Nat
  BY <1>2
<1>5. i * (e + q) <= n /\ n < i * (e + q) + i
  BY <1>1, <1>2, <1>4
<1>6. e + q = d
  BY <1>2, <1>3, <1>5, SamePeriod
<1>7. i * q + i * (e + 1) = i * (d + 1)
  BY <1>2, <1>3, <1>6
<1> QED  BY <1>7 DEF e, d

\* A tick lies in a later period than every instant before it.
LEMMA LaterPeriod ==
  ASSUME NEW i \in Nat \ {0}, NEW q \in Nat, NEW l \in Nat, NEW n \in Nat,
         l < i * q, i * q <= n
  PROVE  n \div i > l \div i
<1> DEFINE a == l \div i
           b == n \div i
<1>1. a \in Nat /\ i * a <= l
  BY PeriodOf
<1>2. b \in Nat /\ n < i * b + i
  BY PeriodOf
<1> HIDE DEF a, b
<1>3. a < q
  <2>1. i * a \in Nat /\ i * q \in Nat
    BY <1>1
  <2> QED  BY <1>1, <2>1, PeriodsApart
<1>4. q <= b
  <2>1. i * b \in Nat /\ i * q \in Nat
    BY <1>2
  <2> QED  BY <1>2, <2>1, PeriodsApart
<1>5. a < b
  BY <1>1, <1>2, <1>3, <1>4
<1> QED  BY <1>5 DEF a, b

---------------------------------------------------------------------------
allWorker == <<bufVars, workerVars>>

\* The interval fires at multiples of its period, never again in a period that
\* had a pick. As long as no run outlasted a tick, time has not gone past the
\* next one, and what stayed behind at a pick is a period older than it.
WorkerInv ==
  /\ busy \in BOOLEAN /\ late \in BOOLEAN /\ lastPick \in Nat \cup {-1}
  /\ \E q \in Nat : deadline = Interval * q
  /\ lastPick < deadline
  /\ ~late => now <= deadline
  /\ \A o \in passedOver : o.at \in Nat /\ (~late => o.at + Interval <= deadline)

\* It holds at the start.
LEMMA WorkerInitInv == WorkerInit => WorkerInv
<1> SUFFICES ASSUME WorkerInit PROVE WorkerInv
  OBVIOUS
<1>1. 0 = Interval * 0 /\ 0 \in Nat
  BY WorkerAssumption
<1>2. \E q \in Nat : deadline = Interval * q
  BY <1>1 DEF WorkerInit
<1>3. busy \in BOOLEAN /\ late \in BOOLEAN
  BY DEF WorkerInit
<1>4. lastPick \in Nat \cup {-1} /\ lastPick < deadline /\ now <= deadline /\ passedOver = {}
  BY DEF WorkerInit, BufInit
<1> QED  BY <1>2, <1>3, <1>4 DEF WorkerInv

\* Where a tick moves the deadline to.
LEMMA TickMoves ==
  ASSUME BufTypeOK, WorkerInv, Due
  PROVE  /\ \E q \in Nat : NextDeadline = Interval * q
         /\ now < NextDeadline /\ deadline + Interval <= NextDeadline
         /\ deadline \in Nat /\ NextDeadline \in Nat
<1>1. Interval \in Nat \ {0} /\ now \in Nat
  BY WorkerAssumption DEF BufTypeOK
<1>2. PICK q \in Nat : deadline = Interval * q
  BY DEF WorkerInv
<1>3. Interval * q <= now /\ Interval * q \in Nat
  BY <1>1, <1>2 DEF Due
<1>4. NextDeadline = Interval * (now \div Interval + 1)
  BY <1>1, <1>2, <1>3, SkipsToNextTick DEF NextDeadline
<1>5. now \div Interval \in Nat /\ now < Interval * (now \div Interval) + Interval
  BY <1>1, PeriodOf
<1>6. (now - deadline) \div Interval \in Nat
  BY <1>1, <1>2, <1>3, PeriodOf
<1> DEFINE k == now \div Interval
           j == (now - deadline) \div Interval
<1>7. Interval * (k + 1) = Interval * k + Interval /\ k + 1 \in Nat /\ Interval * k \in Nat
  BY <1>1, <1>5
<1>8. Interval * (j + 1) = Interval * j + Interval /\ Interval * j \in Nat
  BY <1>1, <1>6
<1> HIDE DEF k, j
<1>9. \E r \in Nat : NextDeadline = Interval * r
  BY <1>4, <1>7 DEF k
<1>10. now < NextDeadline /\ NextDeadline \in Nat
  BY <1>1, <1>4, <1>5, <1>7 DEF k
<1>11. NextDeadline = deadline + Interval * (j + 1)
  BY DEF NextDeadline, j
<1> QED  BY <1>1, <1>2, <1>3, <1>8, <1>9, <1>10, <1>11

\* Every step of the worker keeps it.
LEMMA WorkerNextInv ==
  ASSUME BufInv, WorkerInv, [WorkerNext]_allWorker
  PROVE  WorkerInv'
<1> USE DEF workerVars
<1>0. Interval \in Nat \ {0} /\ now \in Nat /\ deadline \in Nat
  BY WorkerAssumption DEF WorkerInv, BufInv, BufTypeOK
<1>1. ASSUME NEW net \in Nets, Enqueue(net) PROVE WorkerInv'
  BY <1>1 DEF Enqueue, Submit, WorkerInv
<1>2. ASSUME NEW o \in buf, Work(o) PROVE WorkerInv'
  <2>1. /\ \E q \in Nat : deadline' = Interval * q
        /\ now < deadline' /\ deadline + Interval <= deadline' /\ deadline' \in Nat
    BY <1>2, TickMoves DEF Work, BufInv
  <2>2. now' = now /\ lastPick' = now /\ late' = late /\ busy' = TRUE
    BY <1>2 DEF Work, PickBest
  <2>3. ASSUME NEW p \in passedOver' PROVE p.at \in Nat /\ (~late => p.at + Interval <= deadline')
    <3>1. CASE p \in passedOver
      BY <3>1, <2>1, <1>0 DEF WorkerInv
    <3>2. CASE p \in buf
      <4>1. p.at \in Nat /\ p.at <= now
        BY <3>2 DEF BufInv, BufTypeOK, SubmissionOrder, Offer
      <4>2. ~late => now <= deadline
        BY DEF WorkerInv
      <4> QED  BY <4>1, <4>2, <2>1, <1>0
    <3>3. passedOver' \subseteq passedOver \cup buf
      BY <1>2 DEF Work, PickBest, Rest, FreshOffers
    <3> QED  BY <3>1, <3>2, <3>3
  <2> QED  BY <1>0, <2>1, <2>2, <2>3 DEF WorkerInv
<1>3. CASE Idle
  <2>1. /\ \E q \in Nat : deadline' = Interval * q
        /\ now < deadline' /\ deadline + Interval <= deadline' /\ deadline' \in Nat
    BY <1>3, TickMoves DEF Idle, BufInv
  <2> QED  BY <1>0, <1>3, <2>1 DEF Idle, PickNone, WorkerInv
<1>4. CASE RunEnds
  BY <1>4 DEF RunEnds, bufVars, WorkerInv
<1>5. CASE Elapse
  BY <1>0, <1>5 DEF Elapse, Pass, Due, WorkerInv
<1>6. CASE UNCHANGED allWorker
  BY <1>6 DEF allWorker, bufVars, WorkerInv
<1> QED  BY <1>1, <1>2, <1>3, <1>4, <1>5, <1>6 DEF WorkerNext

---------------------------------------------------------------------------
\* To the buffer every step of the worker is one of its own.
LEMMA WorkerUsesBuffer == [WorkerNext]_allWorker => [BufNext]_bufVars
  BY DEF WorkerNext, allWorker, Enqueue, Work, Idle, RunEnds, Elapse, BufNext

\* What holds of the ring holds under the worker.
LEMMA WorkerRunsBuffer == WorkerSpec => BufSpec
  BY WorkerUsesBuffer, PTL DEF WorkerSpec, BufSpec, WorkerInit, allWorker

\* The ring loses nothing uncounted, keeps its order and its cap whatever the
\* worker does, and however long its runs take.
THEOREM WorkerKeepsRing == ASSUME Capacity > 0 PROVE WorkerSpec => []RingSound
  BY WorkerRunsBuffer, RingHolds, PTL

\* Missed ticks are never made up for, and with a max_age of at most one interval
\* an opportunity competes once, as long as no run outlasts a tick.
THEOREM PicksHold ==
  ASSUME Capacity > 0, MaxAge <= Interval
  PROVE  WorkerSpec => PicksSound
<1>1. ASSUME BufInv, WorkerInv, WorkerNext
      PROVE  /\ lastPick' # lastPick => lastPick < 0 \/ now \div Interval > lastPick \div Interval
             /\ ~late /\ selected' = selected + 1
                  => (buf \ buf') \cap FreshOffers \cap passedOver = {}
  <2>0. /\ Interval \in Nat \ {0} /\ now \in Nat /\ deadline \in Nat
        /\ selected \in Nat /\ MaxAge \in Nat
    BY <1>1, WorkerAssumption, BufferAssumption DEF WorkerInv, BufInv, BufTypeOK
  <2>1. CASE \E o \in buf : Work(o)
    <3>1. deadline <= now
      BY <2>1, <2>0 DEF Work, Due
    <3>2. PICK q \in Nat : deadline = Interval * q
      BY <1>1 DEF WorkerInv
    <3>3. lastPick < 0 \/ now \div Interval > lastPick \div Interval
      <4>1. lastPick \in Nat \cup {-1} /\ lastPick < deadline
        BY <1>1 DEF WorkerInv
      <4>2. CASE lastPick \in Nat
        BY <4>1, <4>2, <3>1, <3>2, <2>0, LaterPeriod
      <4> QED  BY <4>1, <4>2
    <3>4. ASSUME ~late, NEW p \in passedOver PROVE ~FreshOffer(p)
      BY <1>1, <3>1, <3>4, <2>0 DEF WorkerInv, FreshOffer
    <3> QED  BY <3>3, <3>4 DEF FreshOffers
  <2>2. CASE ~\E o \in buf : Work(o)
    <3>1. lastPick' = lastPick /\ selected' = selected
      BY <1>1, <2>2 DEF WorkerNext, Enqueue, Submit, Idle, PickNone, RunEnds, bufVars, Elapse, Pass,
                        workerVars
    <3> QED  BY <3>1, <2>0
  <2> QED  BY <2>1, <2>2
<1>2. WorkerSpec => [](BufInv /\ WorkerInv)
  <2>1. WorkerInit => WorkerInv
    BY WorkerInitInv
  <2>2. BufInv /\ WorkerInv /\ [WorkerNext]_allWorker => WorkerInv'
    BY WorkerNextInv
  <2>3. WorkerSpec => []BufInv
    BY WorkerRunsBuffer, BufCorrect, PTL
  <2> QED  BY <2>1, <2>2, <2>3, PTL DEF WorkerSpec, allWorker
<1>3. BufInv /\ WorkerInv /\ [WorkerNext]_allWorker
        => [/\ lastPick' # lastPick => lastPick < 0 \/ now \div Interval > lastPick \div Interval
            /\ ~late /\ selected' = selected + 1
                 => (buf \ buf') \cap FreshOffers \cap passedOver = {}]_<<lastPick, bufVars>>
  BY <1>1 DEF allWorker, workerVars
<1> QED  BY <1>2, <1>3, PTL DEF WorkerSpec, allWorker, PicksSound

(***************************************************************************)
(* The runs of the native executor                                         *)
(***************************************************************************)
\* No tip is larger: the static ceiling, or one lamport where it is zero.
MaxTip == AtLeast(StaticCeiling, 1)

\* Where a call may be.
NatPlaces == {"new", "gates", "legs", "tip", "build", "sending", "ended"}

\* The percentiles an executor may read: each as some published row has it.
FloorInv ==
  /\ published \subseteq [DOMAIN StarterRow -> Nat]
  /\ tipRow \in published
  /\ tipFloor \in [DOMAIN StarterRow -> Nat]
  /\ \A p \in DOMAIN StarterRow : \E row \in published : tipFloor[p] = row[p]
  /\ tipStored \in 0..AllStored
  /\ StarterRow \in published

\* A call past the gate, or its transaction, may still pay its tip.
Pending == {c \in NatCalls : \/ natAt[c] \in {"build", "sending"}
                             \/ \E x \in natChain.taken : x.call = c}

\* Those of them that pay something.
Paying == {c \in Pending : natTip[c] > 0}

\* Types of the calls and the chain.
NatTypes ==
  /\ natAt \in [NatCalls -> NatPlaces]
  /\ natNet \in [NatCalls -> Int] /\ natTip \in [NatCalls -> Int]
  /\ DOMAIN natFloor = NatCalls
  /\ cachedBalance \in Nat /\ natChain.lamports \in Nat
  /\ natChain = [lamports |-> natChain.lamports, taken |-> natChain.taken]
  /\ tipOverlap \in Int /\ unaccounted \subseteq NatCalls

\* What left carries the tip of its call, and the call is over.
TakenInv ==
  \A x \in natChain.taken :
    /\ x = [call |-> x.call, tip |-> natTip[x.call]]
    /\ x.call \in NatCalls /\ natAt[x.call] = "ended"

\* A tip past the gate is sized, below the gain and below the ceiling.
TipsSized ==
  \A c \in Pending : natTip[c] \in 0..MaxTip /\ natTip[c] <= TipCap(natNet[c])

\* What is not in the polled balance is pending or was decided since the poll.
UnaccountedInv ==
  /\ Pending \subseteq unaccounted
  /\ \A c \in unaccounted : natAt[c] \in {"build", "sending", "ended"}

\* The wallet lost at most a ceiling for each call decided since the poll.
PolledInv == natChain.lamports >= cachedBalance - MaxTip * Cardinality(unaccounted \ Pending)

\* With the tips of calls S outstanding, of which all but one are only known to
\* be below the ceiling, a balance keeps the bound.
Covered(balance, S, bound) ==
  \/ S = {} /\ balance >= bound
  \/ \E c \in S : balance - natTip[c] - MaxTip * (Cardinality(S) - 1) >= bound

\* Unless too many calls overlapped to say, the wallet keeps its reserve so.
ReserveInv ==
  tipOverlap >= 0 => Covered(natChain.lamports, Paying, TipReserve - MaxTip * tipOverlap)

\* What holds of the calls, and with the percentiles: the inductive invariant.
CallInv == NatTypes /\ TakenInv /\ TipsSized /\ UnaccountedInv /\ PolledInv /\ ReserveInv

TipInv == FloorInv /\ FloorWasPublished /\ CallInv

\* For the counters the places of the calls are enough.
CountInv ==
  /\ metric \in [Counters -> Nat] /\ unseen \in Nat
  /\ natAt \in [NatCalls -> NatPlaces]
  /\ NativeLedger

\* It is a number of lamports.
LEMMA MaxTipType == MaxTip \in Nat /\ MaxTip >= 1
  BY NativeAssumption DEF MaxTip, AtLeast

\* The tips of n calls, without multiplying variables.
LEMMA Tips ==
  ASSUME NEW n \in Int, NEW m \in Int
  PROVE  /\ MaxTip * n \in Int /\ MaxTip * (n + 1) = MaxTip * n + MaxTip
         /\ MaxTip * (n - 1) = MaxTip * n - MaxTip
         /\ n <= m => MaxTip * n <= MaxTip * m
         /\ MaxTip * (n + m) = MaxTip * n + MaxTip * m
<1>1. MaxTip \in Nat
  BY MaxTipType
<1> HIDE DEF MaxTip
<1> QED  BY <1>1

\* Calls can be counted.
LEMMA CallsFinite ==
  ASSUME NEW S, S \subseteq NatCalls
  PROVE  IsFiniteSet(S) /\ Cardinality(S) \in Nat
  BY NativeAssumption, FS_Subset, FS_CardinalityType

\* percentile_lamports reads a published percentile, whatever rows are stored.
LEMMA FloorReads ==
  ASSUME FloorInv
  PROVE  /\ FloorRead \in Nat
         /\ FloorRead \in {PercentileOf(row, FloorPct) : row \in published} \cup {SenderMinTip}
<1> DEFINE p == IF FloorPct \in DOMAIN StarterRow THEN FloorPct ELSE FallbackPct
<1>1. p \in DOMAIN StarterRow
  BY TipAssumption
<1>2. PICK row \in published : tipFloor[p] = row[p]
  BY <1>1 DEF FloorInv
<1>3. PercentileLamports(FloorPct) = tipFloor[p] /\ PercentileOf(row, FloorPct) = row[p]
  BY DEF PercentileLamports, PercentileOf, FloorInv
<1>4. tipFloor[p] \in Nat /\ SenderMinTip \in Nat
  BY <1>1, NativeAssumption DEF FloorInv
<1> HIDE DEF p
<1> QED  BY <1>2, <1>3, <1>4 DEF FloorRead, AtLeast

\* apply() stores one percentile of the row it published.
LEMMA FloorStep == FloorInv /\ [TipNext]_tipVars => FloorInv'
<1> SUFFICES ASSUME FloorInv, [TipNext]_tipVars PROVE FloorInv'
  OBVIOUS
<1>0. AllStored \in Nat
  BY TipAssumption DEF AllStored
<1>1. ASSUME NEW row \in PolledRows, PollAnswered(row) PROVE FloorInv'
  <2>1. row \in [DOMAIN StarterRow -> Nat]
    BY TipAssumption
  <2> QED  BY <1>0, <1>1, <2>1 DEF FloorInv, PollAnswered
<1>2. CASE StorePercentile
  <2>1. tipStored' \in 1..AllStored /\ tipStored' \in DOMAIN Percentiles
    <3>1. tipStored \in 0..AllStored /\ tipStored < AllStored /\ tipStored' = tipStored + 1
      BY <1>2 DEF StorePercentile, FloorInv
    <3>2. DOMAIN Percentiles = 1..AllStored
      BY TipAssumption DEF AllStored
    <3> QED  BY <1>0, <3>1, <3>2
  <2> DEFINE q == Percentiles[tipStored']
  <2>2. q \in DOMAIN StarterRow
    BY <2>1, TipAssumption
  <2>3. tipFloor' = [tipFloor EXCEPT ![q] = tipRow[q]] /\ UNCHANGED <<tipRow, published>>
    BY <1>2 DEF StorePercentile, SourceOf
  <2>4. tipRow \in published /\ tipRow \in [DOMAIN StarterRow -> Nat]
    BY DEF FloorInv
  <2> HIDE DEF q
  <2>5. tipFloor' \in [DOMAIN StarterRow -> Nat]
    BY <2>2, <2>3, <2>4 DEF FloorInv
  <2>6. ASSUME NEW p \in DOMAIN StarterRow PROVE \E row \in published : tipFloor'[p] = row[p]
    BY <2>3, <2>4 DEF FloorInv
  <2>7. tipStored' \in 0..AllStored
    BY <2>1
  <2> QED  BY <2>3, <2>5, <2>6, <2>7 DEF FloorInv
<1>3. CASE UNCHANGED tipVars
  BY <1>3 DEF tipVars, FloorInv
<1> QED  BY <1>1, <1>2, <1>3 DEF TipNext

\* The cap on a tip is a number.
LEMMA CapType == ASSUME NEW n \in Int PROVE TipCap(n) \in Int
  BY DEF TipCap

\* dynamic_tip_with_floor: no tip, or one from the floor up to the cap.
LEMMA DynamicTipBounds ==
  ASSUME NEW n \in Int, NEW floor \in Nat, DynamicTip(n, TipPct, floor) # NoTip
  PROVE  /\ DynamicTip(n, TipPct, floor) \in Int /\ n # 0
         /\ floor <= DynamicTip(n, TipPct, floor) /\ DynamicTip(n, TipPct, floor) <= TipCap(n)
<1> DEFINE share == (n * TipPct) \div 100
<1>1. share \in Int /\ TipCap(n) \in Int
  <2>1. n * TipPct \in Int
    BY NativeAssumption
  <2> QED  BY <2>1, CapType
<1>2. DynamicTip(n, TipPct, floor) = AtMost(AtLeast(share, floor), TipCap(n)) /\ n # 0
      /\ floor <= TipCap(n)
  BY <1>1 DEF DynamicTip
<1> HIDE DEF share
<1> QED  BY <1>1, <1>2 DEF AtMost, AtLeast

\* Once a call's transaction is decided, or never leaves, the others stay covered
\* with what it left of its tip.
LEMMA CoveredWithout ==
  ASSUME NEW S, S \subseteq NatCalls, NEW c \in S, \A d \in S : natTip[d] \in 0..MaxTip,
         NEW balance \in Int, NEW left \in Int, left >= balance - natTip[c],
         NEW bound \in Int, Covered(balance, S, bound)
  PROVE  Covered(left, S \ {c}, bound)
<1>1. IsFiniteSet(S) /\ Cardinality(S) \in Nat /\ Cardinality(S \ {c}) = Cardinality(S) - 1
  BY CallsFinite, FS_RemoveElement
<1>2. PICK j \in S : balance - natTip[j] - MaxTip * (Cardinality(S) - 1) >= bound
  BY DEF Covered
<1>3. MaxTip \in Nat /\ natTip[j] \in 0..MaxTip /\ natTip[c] \in 0..MaxTip
  BY MaxTipType
<1> HIDE DEF MaxTip
<1> DEFINE n == Cardinality(S) - 1
<1>5. Cardinality(S \ {c}) = n /\ n \in Int
  BY <1>1
<1>6. balance - natTip[j] - MaxTip * n >= bound
  BY <1>2
<1> HIDE DEF n
<1>4. n \in Int /\ MaxTip * n \in Int /\ MaxTip * (n - 1) = MaxTip * n - MaxTip
  BY <1>5, Tips
<1>7. CASE S \ {c} = {}
  <2>1. Cardinality({}) = 0
    BY FS_EmptySet
  <2>2. n = 0
    BY <1>5, <1>7, <2>1
  <2>3. MaxTip * n = 0 /\ j = c
    BY <1>3, <1>7, <2>2
  <2>4. left >= bound
    BY <1>3, <1>6, <2>3
  <2> QED  BY <1>7, <2>4 DEF Covered
<1>8. CASE S \ {c} # {} /\ j = c
  <2>1. PICK i \in S \ {c} : TRUE
    BY <1>8
  <2>2. natTip[i] \in 0..MaxTip
    BY <2>1
  <2>3. left >= bound + MaxTip * n
    BY <1>3, <1>4, <1>6, <1>8
  <2>4. left - natTip[i] - MaxTip * (n - 1) >= bound
    BY <1>3, <1>4, <2>2, <2>3
  <2> QED  BY <1>5, <2>1, <2>4 DEF Covered
<1>9. CASE j # c
  <2>1. left - natTip[j] - MaxTip * (n - 1) >= bound
    BY <1>3, <1>4, <1>6
  <2> QED  BY <1>5, <1>9, <2>1 DEF Covered
<1> QED  BY <1>7, <1>8, <1>9

\* The calls that may still pay, and what they may pay.
LEMMA PendingTypes ==
  ASSUME CallInv
  PROVE  /\ Pending \subseteq NatCalls /\ Paying \subseteq NatCalls
         /\ \A c \in Paying : natTip[c] \in 0..MaxTip
         /\ natChain.lamports \in Int /\ TipReserve - MaxTip * tipOverlap \in Int
         /\ MaxTip * Cardinality(unaccounted \ Pending) \in Int
         /\ MaxTip * tipOverlap \in Int
<1>1. tipOverlap \in Int /\ unaccounted \ Pending \subseteq NatCalls /\ TipReserve \in Int
  BY NativeAssumption DEF CallInv, NatTypes
<1>2. MaxTip * tipOverlap \in Int
  BY <1>1, Tips
<1>3. MaxTip * Cardinality(unaccounted \ Pending) \in Int
  BY <1>1, CallsFinite, Tips
<1> QED  BY <1>1, <1>2, <1>3 DEF CallInv, NatTypes, TipsSized, Pending, Paying

\* Gates, legs and an early return before the tip touch no tip.
LEMMA BeforeTheTip ==
  ASSUME CallInv, NEW c \in NatCalls, NEW w \in {"gates", "legs", "tip", "ended"},
         natAt[c] \in {"new", "gates", "legs", "tip"}, natAt' = [natAt EXCEPT ![c] = w],
         natNet' \in [NatCalls -> Int], \A d \in NatCalls : d # c => natNet'[d] = natNet[d],
         DOMAIN natFloor' = NatCalls,
         UNCHANGED <<natTip, cachedBalance, natChain, unaccounted, tipOverlap>>
  PROVE  CallInv'
<1>1. natAt' \in [NatCalls -> NatPlaces] /\ natAt'[c] = w
      /\ \A d \in NatCalls : d # c => natAt'[d] = natAt[d]
  BY DEF CallInv, NatTypes, NatPlaces
<1>2. \A x \in natChain.taken : x.call # c
  BY DEF CallInv, TakenInv
<1>3. Pending' = Pending /\ c \notin Pending /\ c \notin unaccounted
  BY <1>1, <1>2 DEF Pending, CallInv, UnaccountedInv, NatTypes
<1>4. Paying' = Paying
  BY <1>3 DEF Paying
<1>5. NatTypes' /\ TakenInv'
  BY <1>1, <1>2 DEF CallInv, NatTypes, TakenInv
<1>6. TipsSized' /\ UnaccountedInv'
  <2>1. \A d \in Pending : d \in NatCalls /\ d # c
    BY <1>3 DEF Pending
  <2>2. TipsSized'
    BY <1>3, <2>1 DEF CallInv, TipsSized
  <2> QED  BY <1>1, <1>3, <2>2 DEF CallInv, UnaccountedInv, NatTypes
<1>7. PolledInv' /\ ReserveInv'
  BY <1>3, <1>4 DEF CallInv, PolledInv, ReserveInv, Covered
<1> QED  BY <1>5, <1>6, <1>7 DEF CallInv

\* A call past the gate that fails, or is not live, pays nothing.
LEMMA NeverLeaves ==
  ASSUME CallInv, NEW c \in NatCalls, natAt[c] \in {"build", "sending"},
         natAt' = [natAt EXCEPT ![c] = "ended"], unaccounted' = unaccounted \ {c},
         UNCHANGED <<natNet, natFloor, natTip, cachedBalance, natChain, tipOverlap>>
  PROVE  CallInv'
<1>1. natAt' \in [NatCalls -> NatPlaces] /\ natAt'[c] = "ended"
      /\ \A d \in NatCalls : d # c => natAt'[d] = natAt[d]
  BY DEF CallInv, NatTypes, NatPlaces
<1>2. \A x \in natChain.taken : x.call # c
  BY DEF CallInv, TakenInv
<1>3. Pending' = Pending \ {c} /\ c \in Pending
  BY <1>1, <1>2 DEF Pending
<1>4. Paying' = Paying \ {c}
  BY <1>3 DEF Paying
<1>5. NatTypes' /\ TakenInv'
  BY <1>1, <1>2 DEF CallInv, NatTypes, TakenInv
<1>6. TipsSized' /\ UnaccountedInv'
  BY <1>1, <1>3 DEF CallInv, TipsSized, UnaccountedInv, NatTypes
<1>7. PolledInv'
  <2>1. unaccounted' \ Pending' = unaccounted \ Pending
    BY <1>3
  <2> QED  BY <2>1 DEF CallInv, PolledInv
<1>8. ReserveInv'
  <2> SUFFICES ASSUME tipOverlap >= 0
               PROVE  Covered(natChain.lamports, Paying \ {c}, TipReserve - MaxTip * tipOverlap)
    BY <1>4 DEF ReserveInv, Covered
  <2>1. Covered(natChain.lamports, Paying, TipReserve - MaxTip * tipOverlap)
    BY DEF CallInv, ReserveInv
  <2>2. CASE c \in Paying
    <3>1. natTip[c] \in 0..MaxTip /\ MaxTip \in Nat
      BY <2>2, PendingTypes, MaxTipType
    <3>2. natChain.lamports >= natChain.lamports - natTip[c]
      BY <3>1, PendingTypes
    <3> QED  BY <2>1, <2>2, <3>2, PendingTypes, CoveredWithout
  <2>3. CASE c \notin Paying
    <3>1. Paying \ {c} = Paying
      BY <2>3
    <3> QED  BY <2>1, <3>1
  <2> QED  BY <2>2, <2>3
<1> QED  BY <1>5, <1>6, <1>7, <1>8 DEF CallInv

\* The request leaves, or its answer finds it taken: the tip stays outstanding.
LEMMA Leaves ==
  ASSUME CallInv, NEW c \in NatCalls,
         \/ /\ natAt[c] = "build" /\ natAt' = [natAt EXCEPT ![c] = "sending"]
            /\ UNCHANGED natChain
         \/ /\ natAt[c] = "sending" /\ natAt' = [natAt EXCEPT ![c] = "ended"]
            /\ natChain' = [natChain EXCEPT !.taken = @ \cup {[call |-> c, tip |-> natTip[c]]}],
         UNCHANGED <<natNet, natFloor, natTip, cachedBalance, unaccounted, tipOverlap>>
  PROVE  CallInv'
<1>1. natAt' \in [NatCalls -> NatPlaces] /\ natAt'[c] \in {"sending", "ended"}
      /\ \A d \in NatCalls : d # c => natAt'[d] = natAt[d]
  BY DEF CallInv, NatTypes, NatPlaces
<1>2. \A x \in natChain.taken : x.call # c
  BY DEF CallInv, TakenInv
<1>3. /\ natChain'.lamports = natChain.lamports
      /\ natChain' = [lamports |-> natChain'.lamports, taken |-> natChain'.taken]
      /\ natChain'.taken = IF natAt'[c] = "sending" THEN natChain.taken
                           ELSE natChain.taken \cup {[call |-> c, tip |-> natTip[c]]}
  <2>1. natChain = [lamports |-> natChain.lamports, taken |-> natChain.taken]
    BY DEF CallInv, NatTypes
  <2>2. natAt'[c] = IF natAt[c] = "build" THEN "sending" ELSE "ended"
    BY DEF CallInv, NatTypes
  <2> QED  BY <2>1, <2>2
<1>4. Pending' = Pending /\ c \in Pending
  <2>1. c \in Pending
    BY DEF Pending
  <2>2. c \in Pending'
    <3>1. natAt'[c] # "sending" => [call |-> c, tip |-> natTip[c]] \in natChain'.taken
      BY <1>3
    <3> QED  BY <3>1 DEF Pending
  <2>3. ASSUME NEW d \in NatCalls, d # c PROVE d \in Pending' <=> d \in Pending
    <3>1. (\E x \in natChain'.taken : x.call = d) <=> \E x \in natChain.taken : x.call = d
      BY <1>3, <2>3
    <3> QED  BY <1>1, <2>3, <3>1 DEF Pending
  <2> QED  BY <2>1, <2>2, <2>3 DEF Pending
<1>5. Paying' = Paying
  BY <1>4 DEF Paying
<1>6. NatTypes'
  BY <1>1, <1>3 DEF CallInv, NatTypes
<1>7. TakenInv'
  BY <1>1, <1>2, <1>3 DEF CallInv, TakenInv
<1>8. TipsSized' /\ UnaccountedInv'
  BY <1>1, <1>4 DEF CallInv, TipsSized, UnaccountedInv, NatTypes
<1>9. PolledInv' /\ ReserveInv'
  BY <1>3, <1>4, <1>5 DEF CallInv, PolledInv, ReserveInv, Covered
<1> QED  BY <1>6, <1>7, <1>8, <1>9 DEF CallInv

\* The chain takes at most the tip of one call, or drops it.
LEMMA DecidedOnce ==
  ASSUME CallInv, NEW x \in natChain.taken, NEW landed \in BOOLEAN, TxDecided(x, landed)
  PROVE  CallInv'
<1> DEFINE c == x.call
<1>1. /\ x = [call |-> c, tip |-> natTip[c]] /\ c \in NatCalls /\ natAt[c] = "ended"
      /\ c \in Pending /\ natTip[c] \in 0..MaxTip
  BY DEF CallInv, TakenInv, Pending, TipsSized
<1>2. /\ natChain'.taken = natChain.taken \ {x}
      /\ natChain' = [lamports |-> natChain'.lamports, taken |-> natChain'.taken]
      /\ natChain'.lamports \in Nat
      /\ natChain'.lamports <= natChain.lamports
      /\ natChain'.lamports >= natChain.lamports - natTip[c]
  <2>1. x.tip = natTip[c] /\ natChain.lamports \in Nat
    BY <1>1 DEF CallInv, NatTypes
  <2>2. natTip[c] \in Nat
    BY <1>1, MaxTipType
  <2> QED  BY <2>1, <2>2 DEF TxDecided
<1>3. UNCHANGED <<natAt, natNet, natFloor, natTip, cachedBalance, unaccounted, tipOverlap>>
  BY DEF TxDecided
<1>4. \A y \in natChain.taken : y.call = c => y = x
  BY <1>1 DEF CallInv, TakenInv
<1>5. Pending' = Pending \ {c}
  BY <1>1, <1>2, <1>3, <1>4 DEF Pending
<1>6. Paying' = Paying \ {c}
  BY <1>3, <1>5 DEF Paying
<1>7. NatTypes' /\ TakenInv' /\ TipsSized' /\ UnaccountedInv'
  BY <1>2, <1>3, <1>5 DEF CallInv, NatTypes, TakenInv, TipsSized, UnaccountedInv
<1>8. PolledInv'
  <2> DEFINE decided == unaccounted \ Pending
  <2>1. unaccounted' \ Pending' = decided \cup {c} /\ c \notin decided /\ decided \subseteq NatCalls
    BY <1>1, <1>3, <1>5 DEF CallInv, UnaccountedInv, NatTypes
  <2>2. Cardinality(decided) \in Nat /\ Cardinality(decided \cup {c}) = Cardinality(decided) + 1
    BY <2>1, CallsFinite, FS_AddElement
  <2> HIDE DEF decided
  <2>3. /\ MaxTip * Cardinality(decided \cup {c}) = MaxTip * Cardinality(decided) + MaxTip
        /\ MaxTip * Cardinality(decided) \in Int
    BY <2>2, Tips
  <2>4. natChain.lamports >= cachedBalance - MaxTip * Cardinality(decided)
    BY DEF decided, CallInv, PolledInv
  <2>5. natTip[c] <= MaxTip /\ natTip[c] \in Int /\ MaxTip \in Int /\ cachedBalance \in Int
        /\ natChain.lamports \in Int
    BY <1>1, MaxTipType DEF CallInv, NatTypes
  <2>6. natChain'.lamports >= cachedBalance - MaxTip * Cardinality(decided \cup {c})
    BY <1>2, <2>3, <2>4, <2>5
  <2> QED  BY <1>3, <2>1, <2>6 DEF PolledInv
<1> HIDE DEF c
<1>9. ReserveInv'
  <2> SUFFICES ASSUME tipOverlap >= 0
               PROVE  Covered(natChain'.lamports, Paying \ {c}, TipReserve - MaxTip * tipOverlap)
    BY <1>3, <1>6 DEF ReserveInv, Covered
  <2>1. Covered(natChain.lamports, Paying, TipReserve - MaxTip * tipOverlap)
    BY DEF CallInv, ReserveInv
  <2>2. CASE c \in Paying
    <3>1. natChain'.lamports \in Int /\ natChain.lamports \in Int
      BY <1>2, PendingTypes
    <3>2. /\ Paying \subseteq NatCalls /\ TipReserve - MaxTip * tipOverlap \in Int
          /\ \A d \in Paying : natTip[d] \in 0..MaxTip
      BY PendingTypes
    <3> QED  BY <1>2, <2>1, <2>2, <3>1, <3>2, CoveredWithout
  <2>3. CASE c \notin Paying
    <3>1. Paying \ {c} = Paying /\ natTip[c] = 0
      BY <1>1, <2>3, MaxTipType DEF Paying
    <3>2. natChain'.lamports = natChain.lamports
      BY <1>2, <3>1, PendingTypes
    <3> QED  BY <2>1, <3>1, <3>2
  <2> QED  BY <2>2, <2>3
<1> QED  BY <1>7, <1>8, <1>9 DEF CallInv

\* A balance that was read holds all that was decided.
LEMMA PolledAnew == CallInv /\ BalancePolled => CallInv'
<1> SUFFICES ASSUME CallInv, BalancePolled PROVE CallInv'
  OBVIOUS
<1>1. /\ cachedBalance' = natChain.lamports
      /\ UNCHANGED <<natAt, natNet, natFloor, natTip, natChain, tipOverlap>>
      /\ unaccounted' = {c \in unaccounted : c \in Running \/ \E x \in natChain.taken : x.call = c}
  BY DEF BalancePolled
<1>2. Pending' = Pending /\ Paying' = Paying
  BY <1>1 DEF Pending, Paying
<1>3. unaccounted' = Pending
  BY <1>1 DEF CallInv, UnaccountedInv, Pending, Running, NatTypes
<1>4. NatTypes' /\ TakenInv' /\ TipsSized' /\ UnaccountedInv'
  BY <1>1, <1>2, <1>3 DEF CallInv, NatTypes, TakenInv, TipsSized, UnaccountedInv
<1>5. PolledInv'
  <2>1. unaccounted' \ Pending' = {} /\ Cardinality({}) = 0
    BY <1>2, <1>3, FS_EmptySet
  <2>2. MaxTip * Cardinality(unaccounted' \ Pending') = 0
    <3>1. MaxTip \in Int
      BY MaxTipType
    <3>2. MaxTip * 0 = 0
      BY <3>1
    <3> QED  BY <2>1, <3>2
  <2>3. natChain.lamports \in Int
    BY DEF CallInv, NatTypes
  <2> QED  BY <1>1, <2>2, <2>3 DEF PolledInv
<1>6. ReserveInv'
  BY <1>1, <1>2 DEF CallInv, ReserveInv, Covered
<1> QED  BY <1>4, <1>5, <1>6 DEF CallInv

\* The tip sized: a share of the gain, not below the floor read, and with a polled
\* balance not out of the reserve.
LEMMA SizedTip ==
  ASSUME FloorInv, NatTypes, NEW c \in NatCalls, NEW priced \in BOOLEAN, SizeTip(c, priced),
         natAt'[c] = "build"
  PROVE  /\ natTip' = [natTip EXCEPT ![c] = natTip'[c]]
         /\ natTip'[c] \in 0..MaxTip /\ natTip'[c] <= TipCap(natNet[c])
         /\ cachedBalance # 0 /\ natTip'[c] > 0 => natTip'[c] <= cachedBalance - TipReserve
<1> DEFINE tip == DynamicTip(Profit(c, priced), TipPct, FloorRead)
<1>1. tip # NoTip /\ ~BudgetShort /\ natTip' = [natTip EXCEPT ![c] = Clamped(Ceiled(tip))]
  BY DEF SizeTip, Leave, GoTo, NatTypes
<1>2. natTip'[c] = Clamped(Ceiled(tip))
  BY <1>1 DEF NatTypes
<1>3. Profit(c, priced) \in Int /\ FloorRead \in Nat /\ natNet[c] \in Int
  BY FloorReads DEF Profit, NatTypes
<1>4. tip \in Int /\ FloorRead <= tip /\ tip <= TipCap(natNet[c]) /\ TipCap(natNet[c]) \in Int
  <2>1. tip \in Int /\ FloorRead <= tip /\ tip <= TipCap(Profit(c, priced)) /\ Profit(c, priced) # 0
    BY <1>1, <1>3, DynamicTipBounds
  <2>2. Profit(c, priced) = natNet[c]
    BY <2>1 DEF Profit
  <2> QED  BY <1>3, <2>1, <2>2, CapType
<1> HIDE DEF tip
<1>5. Ceiled(tip) \in 0..MaxTip /\ Ceiled(tip) <= tip
  <2>1. MaxTip \in Nat /\ Ceiled(tip) = AtMost(tip, MaxTip)
    BY MaxTipType DEF Ceiled, MaxTip
  <2> QED  BY <1>3, <1>4, <2>1 DEF AtMost
<1>6. TipBudget \in Nat /\ (TipBudget > 0 => TipBudget = cachedBalance - TipReserve)
  <2>1. cachedBalance - TipReserve \in Int
    BY NativeAssumption DEF NatTypes
  <2> QED  BY <2>1 DEF TipBudget, AtLeast
<1>7. /\ Clamped(Ceiled(tip)) \in 0..MaxTip /\ Clamped(Ceiled(tip)) <= tip
      /\ cachedBalance # 0 => Clamped(Ceiled(tip)) <= TipBudget
  <2>1. Ceiled(tip) \in Int /\ MaxTip \in Nat
    BY <1>5, MaxTipType
  <2> QED  BY <1>4, <1>5, <1>6, <2>1 DEF Clamped, AtMost
<1>8. cachedBalance # 0 /\ natTip'[c] > 0 => natTip'[c] <= cachedBalance - TipReserve
  <2>1. natTip'[c] \in Int /\ TipBudget \in Int
    BY <1>2, <1>6, <1>7, MaxTipType
  <2> QED  BY <1>2, <1>6, <1>7, <2>1
<1>9. natTip'[c] <= TipCap(natNet[c])
  <2>1. natTip'[c] \in Int /\ natTip'[c] <= tip
    BY <1>2, <1>7, MaxTipType
  <2> QED  BY <1>4, <2>1
<1> QED  BY <1>1, <1>2, <1>7, <1>8, <1>9

\* The gate: the tip fits in what the polled balance leaves above the reserve, and
\* everyone else past the gate is counted in the overlap.
LEMMA PastTheGate ==
  ASSUME FloorInv, CallInv, NEW c \in NatCalls, NEW priced \in BOOLEAN, SizeTip(c, priced),
         natAt'[c] = "build"
  PROVE  CallInv'
<1>1. /\ natAt[c] = "tip" /\ natAt' = [natAt EXCEPT ![c] = "build"]
      /\ unaccounted' = unaccounted \cup {c}
      /\ tipOverlap' = IF tipOverlap < 0 \/ cachedBalance = 0 THEN -1
                       ELSE AtLeast(tipOverlap, Cardinality(unaccounted \ {c}))
      /\ UNCHANGED <<natNet, cachedBalance, natChain>>
      /\ DOMAIN natFloor' = NatCalls
  BY DEF SizeTip, Leave, GoTo, CallInv, NatTypes
<1>2. /\ natTip' = [natTip EXCEPT ![c] = natTip'[c]]
      /\ natTip'[c] \in 0..MaxTip /\ natTip'[c] <= TipCap(natNet[c])
      /\ cachedBalance # 0 /\ natTip'[c] > 0 => natTip'[c] <= cachedBalance - TipReserve
  BY SizedTip DEF CallInv
<1>3. \A x \in natChain.taken : x.call # c
  BY <1>1 DEF CallInv, TakenInv
<1>4. c \notin Pending /\ c \notin unaccounted /\ unaccounted \ {c} = unaccounted
  BY <1>1, <1>3 DEF Pending, CallInv, UnaccountedInv
<1>5. /\ natAt'[c] = "build" /\ natAt' \in [NatCalls -> NatPlaces]
      /\ \A d \in NatCalls : d # c => natAt'[d] = natAt[d] /\ natTip'[d] = natTip[d]
      /\ natTip' \in [NatCalls -> Int] /\ natTip'[c] \in Nat
  <2>1. natTip'[c] \in Nat
    BY <1>2, MaxTipType
  <2>2. natTip' \in [NatCalls -> Int]
    BY <1>2, <2>1 DEF CallInv, NatTypes
  <2>3. \A d \in NatCalls : d # c => natTip'[d] = natTip[d]
    BY <1>2 DEF CallInv, NatTypes
  <2> QED  BY <1>1, <2>1, <2>2, <2>3 DEF CallInv, NatTypes, NatPlaces
<1>6. Pending' = Pending \cup {c}
  <2>1. \A d \in NatCalls : d # c => (d \in Pending' <=> d \in Pending)
    BY <1>1, <1>5 DEF Pending
  <2>2. c \in Pending'
    BY <1>5 DEF Pending
  <2> QED  BY <2>1, <2>2 DEF Pending
<1>7. /\ unaccounted \subseteq NatCalls /\ Cardinality(unaccounted) \in Nat
      /\ Pending \subseteq unaccounted /\ Cardinality(Pending) \in Nat
      /\ Paying \subseteq Pending /\ Cardinality(Paying) \in Nat /\ IsFiniteSet(Paying)
      /\ Cardinality(Paying) <= Cardinality(Pending)
      /\ Cardinality(unaccounted \ Pending) \in Nat
      /\ Cardinality(unaccounted) = Cardinality(unaccounted \ Pending) + Cardinality(Pending)
  <2>1. unaccounted \subseteq NatCalls /\ Pending \subseteq unaccounted /\ Paying \subseteq Pending
    BY DEF CallInv, UnaccountedInv, NatTypes, Paying
  <2>2. /\ IsFiniteSet(unaccounted) /\ IsFiniteSet(Pending) /\ IsFiniteSet(Paying)
        /\ Cardinality(unaccounted) \in Nat /\ Cardinality(Pending) \in Nat
        /\ Cardinality(Paying) \in Nat /\ Cardinality(unaccounted \ Pending) \in Nat
    BY <2>1, CallsFinite
  <2>3. Cardinality(Paying) <= Cardinality(Pending)
    BY <2>1, <2>2, FS_Subset
  <2>4. Cardinality(unaccounted) = Cardinality(unaccounted \ Pending) + Cardinality(Pending)
    <3>1. Cardinality(unaccounted \ Pending)
            = Cardinality(unaccounted) - Cardinality(unaccounted \cap Pending)
      BY <2>2, FS_Difference
    <3>2. unaccounted \cap Pending = Pending
      BY <2>1
    <3>3. Cardinality(unaccounted \ Pending) = Cardinality(unaccounted) - Cardinality(Pending)
      BY <3>1, <3>2
    <3> QED  BY <2>2, <3>3
  <2> QED  BY <2>1, <2>2, <2>3, <2>4
<1>8. tipOverlap \in Int /\ tipOverlap' \in Int
      /\ (tipOverlap' >= 0 => /\ tipOverlap >= 0 /\ cachedBalance # 0
                              /\ tipOverlap' >= tipOverlap
                              /\ tipOverlap' >= Cardinality(unaccounted))
  <2>1. tipOverlap' = IF tipOverlap < 0 \/ cachedBalance = 0 THEN -1
                      ELSE AtLeast(tipOverlap, Cardinality(unaccounted))
    BY <1>1, <1>4
  <2>2. tipOverlap \in Int /\ Cardinality(unaccounted) \in Int
    BY <1>7 DEF CallInv, NatTypes
  <2> QED  BY <2>1, <2>2 DEF AtLeast
<1>9. NatTypes' /\ TakenInv'
  BY <1>1, <1>3, <1>5, <1>8 DEF CallInv, NatTypes, TakenInv
<1>10. TipsSized' /\ UnaccountedInv'
  BY <1>1, <1>2, <1>4, <1>5, <1>6, <1>7 DEF CallInv, TipsSized, UnaccountedInv
<1>11. PolledInv'
  <2>1. unaccounted' \ Pending' = unaccounted \ Pending
    BY <1>1, <1>4, <1>6
  <2> QED  BY <1>1, <2>1 DEF CallInv, PolledInv
<1>12. ASSUME tipOverlap' >= 0, natTip'[c] = 0 PROVE ReserveInv'
  <2>1. Paying' = Paying /\ \A d \in Paying : natTip'[d] = natTip[d]
    BY <1>4, <1>5, <1>6, <1>12 DEF Paying, Pending
  <2>2. MaxTip * tipOverlap <= MaxTip * tipOverlap'
    BY <1>8, <1>12, Tips
  <2>3. MaxTip * tipOverlap \in Int /\ MaxTip * tipOverlap' \in Int /\ TipReserve \in Int
        /\ natChain.lamports \in Int
    BY <1>8, Tips, NativeAssumption DEF CallInv, NatTypes
  <2> DEFINE bound == TipReserve - MaxTip * tipOverlap
             after == TipReserve - MaxTip * tipOverlap'
  <2>4. bound \in Int /\ after \in Int /\ after <= bound
    BY <2>2, <2>3
  <2>5. Covered(natChain.lamports, Paying, bound)
    BY <1>8, <1>12 DEF CallInv, ReserveInv
  <2> HIDE DEF bound
  <2>6. \/ Paying = {} /\ natChain.lamports >= after
        \/ \E d \in Paying : natChain.lamports - natTip[d] - MaxTip * (Cardinality(Paying) - 1) >= after
    <3>1. ASSUME NEW d \in Paying,
                 natChain.lamports - natTip[d] - MaxTip * (Cardinality(Paying) - 1) >= bound
          PROVE  natChain.lamports - natTip[d] - MaxTip * (Cardinality(Paying) - 1) >= after
      <4>1. natTip[d] \in Int /\ MaxTip * (Cardinality(Paying) - 1) \in Int
        <5>1. Cardinality(Paying) - 1 \in Int
          BY <1>7
        <5>2. MaxTip * (Cardinality(Paying) - 1) \in Int
          BY <5>1, Tips
        <5> QED  BY <5>2 DEF CallInv, NatTypes, Paying, Pending
      <4> HIDE DEF after
      <4> QED  BY <2>3, <2>4, <3>1, <4>1
    <3> HIDE DEF after
    <3> QED  BY <2>3, <2>4, <2>5, <3>1 DEF Covered
  <2>7. natChain' = natChain
    BY <1>1
  <2> QED  BY <2>1, <2>6, <2>7 DEF ReserveInv, Covered
<1>13. ASSUME tipOverlap' >= 0, natTip'[c] # 0 PROVE ReserveInv'
  <2>1. natTip'[c] > 0
    BY <1>5, <1>13
  <2>2. Paying' = Paying \cup {c} /\ c \notin Paying
    BY <1>4, <1>5, <1>6, <2>1 DEF Paying, Pending
  <2>3. Cardinality(Paying \cup {c}) - 1 = Cardinality(Paying)
    <3>1. Cardinality(Paying \cup {c}) = Cardinality(Paying) + 1
      BY <1>7, <2>2, FS_AddElement
    <3> QED  BY <1>7, <3>1
  <2>4. /\ natTip'[c] <= cachedBalance - TipReserve /\ natTip'[c] \in Int
        /\ cachedBalance \in Int /\ TipReserve \in Int /\ natChain.lamports \in Int
    BY <1>2, <1>5, <1>8, <1>13, <2>1, NativeAssumption DEF CallInv, NatTypes
  <2>5. natChain.lamports >= cachedBalance - MaxTip * Cardinality(unaccounted \ Pending)
    BY DEF CallInv, PolledInv
  <2>6. MaxTip * Cardinality(unaccounted)
          = MaxTip * Cardinality(unaccounted \ Pending) + MaxTip * Cardinality(Pending)
    <3>1. MaxTip * (Cardinality(unaccounted \ Pending) + Cardinality(Pending))
            = MaxTip * Cardinality(unaccounted \ Pending) + MaxTip * Cardinality(Pending)
      BY <1>7, Tips
    <3> QED  BY <1>7, <3>1
  <2>7. /\ MaxTip * Cardinality(Paying) <= MaxTip * Cardinality(Pending)
        /\ MaxTip * Cardinality(unaccounted) <= MaxTip * tipOverlap'
    <3>1. Cardinality(Paying) <= Cardinality(Pending)
          => MaxTip * Cardinality(Paying) <= MaxTip * Cardinality(Pending)
      BY <1>7, Tips
    <3>2. Cardinality(unaccounted) <= tipOverlap'
          => MaxTip * Cardinality(unaccounted) <= MaxTip * tipOverlap'
      <4>1. Cardinality(unaccounted) \in Int /\ tipOverlap' \in Int
        BY <1>7, <1>8
      <4> HIDE DEF MaxTip
      <4> QED  BY <4>1, Tips
    <3> QED  BY <1>7, <1>8, <1>13, <3>1, <3>2
  <2>8. {MaxTip * Cardinality(unaccounted \ Pending), MaxTip * Cardinality(Pending),
         MaxTip * Cardinality(Paying), MaxTip * tipOverlap'} \subseteq Int
    BY <1>7, <1>8, Tips
  <2>9. natChain.lamports - natTip'[c] - MaxTip * Cardinality(Paying)
          >= TipReserve - MaxTip * tipOverlap'
    BY <2>4, <2>5, <2>6, <2>7, <2>8
  <2>10. natChain' = natChain /\ c \in Paying'
         /\ natChain.lamports - natTip'[c] - MaxTip * (Cardinality(Paying') - 1)
              >= TipReserve - MaxTip * tipOverlap'
    BY <1>1, <2>2, <2>3, <2>9
  <2> QED  BY <2>10 DEF ReserveInv, Covered
<1>14. ReserveInv'
  BY <1>12, <1>13 DEF ReserveInv
<1> QED  BY <1>9, <1>10, <1>11, <1>14 DEF CallInv

\* Whatever comes of the tip, its gate keeps the invariant.
LEMMA SizeStep ==
  ASSUME FloorInv, CallInv, NEW c \in NatCalls, NEW priced \in BOOLEAN, SizeTip(c, priced)
  PROVE  CallInv'
<1>1. CASE natAt'[c] = "build"
  BY <1>1, PastTheGate
<1>2. CASE natAt'[c] # "build"
  <2>1. /\ natAt[c] = "tip" /\ natAt' = [natAt EXCEPT ![c] = "ended"]
        /\ UNCHANGED <<natNet, natTip, cachedBalance, natChain, unaccounted, tipOverlap>>
        /\ DOMAIN natFloor' = NatCalls
    BY <1>2 DEF SizeTip, Leave, GoTo, CallInv, NatTypes
  <2>2. natNet' \in [NatCalls -> Int]
    BY <2>1 DEF CallInv, NatTypes
  <2> QED  BY <2>1, <2>2, BeforeTheTip
<1> QED  BY <1>1, <1>2

\* No call has begun and the chain has what the wallet starts with.
LEMMA TipInitInv == NatInit => TipInv
<1> SUFFICES ASSUME NatInit PROVE TipInv
  OBVIOUS
<1>1. FloorInv
  <2>1. StarterRow \in [DOMAIN StarterRow -> Nat] /\ AllStored \in Nat
    BY TipAssumption DEF AllStored
  <2> QED  BY <2>1 DEF NatInit, TipInit, FloorInv
<1>2. FloorWasPublished
  BY DEF NatInit, TipInit, FloorWasPublished
<1>3. Pending = {} /\ Paying = {}
  BY DEF NatInit, Pending, Paying
<1>4. NatTypes
  BY NativeAssumption DEF NatInit, NatTypes, NatPlaces, NoTip
<1>5. TakenInv /\ TipsSized /\ UnaccountedInv
  BY <1>3 DEF NatInit, TakenInv, TipsSized, UnaccountedInv
<1>6. PolledInv /\ ReserveInv
  <2>1. MaxTip \in Int /\ TipReserve \in Int /\ NatWallet \in Int /\ NatWallet >= TipReserve
        /\ NatWallet >= 0
    BY MaxTipType, NativeAssumption
  <2>2. unaccounted \ Pending = {} /\ Cardinality({}) = 0
    BY FS_EmptySet DEF NatInit
  <2>3. natChain.lamports = NatWallet /\ tipOverlap = 0 /\ cachedBalance = 0
    BY DEF NatInit
  <2>4. MaxTip * 0 = 0
    BY <2>1
  <2>5. PolledInv
    <3>1. MaxTip * Cardinality(unaccounted \ Pending) = 0
      BY <2>2, <2>4
    <3> QED  BY <2>1, <2>3, <3>1 DEF PolledInv
  <2>6. ReserveInv
    BY <1>3, <2>1, <2>3, <2>4 DEF ReserveInv, Covered
  <2> QED  BY <2>5, <2>6
<1> QED  BY <1>1, <1>2, <1>4, <1>5, <1>6 DEF TipInv, CallInv

\* A floor is read in one step, and what was published stays published.
LEMMA FloorsStep ==
  ASSUME FloorInv, FloorWasPublished, [NatNext]_<<tipVars, natVars>>
  PROVE  FloorInv' /\ FloorWasPublished'
<1>1. FloorInv' /\ published \subseteq published'
  <2>1. [TipNext]_tipVars
    BY DEF NatNext, Begin, LegacyGates, AttemptAges, LegFails, OracleSkips, LegsQuoted, SizeTip,
           BuildFailsWith, StartSend, SendEnds, StatusPolled, TxDecided, BalancePolled
  <2> QED  BY <2>1, FloorStep DEF TipNext, PollAnswered, StorePercentile, tipVars
<1>2. CASE UNCHANGED natFloor
  BY <1>1, <1>2 DEF FloorWasPublished
<1>3. ASSUME NEW c \in NatCalls, NEW priced \in BOOLEAN, SizeTip(c, priced)
      PROVE  FloorWasPublished'
  BY <1>1, <1>3, FloorReads DEF FloorWasPublished, SizeTip
<1>4. UNCHANGED natFloor
      \/ \E c \in NatCalls, priced \in BOOLEAN : SizeTip(c, priced)
  BY DEF NatNext, natVars, Begin, LegacyGates, AttemptAges, LegFails, OracleSkips, LegsQuoted,
         BuildFailsWith, StartSend, SendEnds, StatusPolled, TxDecided, BalancePolled
<1> QED  BY <1>1, <1>2, <1>3, <1>4

\* Every step of a call, the poller and the chain keeps the calls in order.
LEMMA CallStep ==
  ASSUME FloorInv, CallInv, [NatNext]_<<tipVars, natVars>>
  PROVE  CallInv'
<1>0. natNet \in [NatCalls -> Int] /\ DOMAIN natFloor = NatCalls
  BY DEF CallInv, NatTypes
<1>1. ASSUME UNCHANGED <<natAt, natNet, natFloor, natTip, cachedBalance, natChain, unaccounted,
                         tipOverlap>>
      PROVE  CallInv'
  BY <1>1 DEF CallInv, NatTypes, TakenInv, TipsSized, UnaccountedInv, PolledInv, ReserveInv,
              Covered, Pending, Paying
<1>2. ASSUME NEW c \in NatCalls,
             \/ Begin(c) \/ OracleSkips(c) \/ \E eligible \in BOOLEAN : LegacyGates(c, eligible)
             \/ \E k \in {"noMarket", "buildErr"} : LegFails(c, k)
      PROVE  CallInv'
  <2>1. \E w \in {"gates", "legs", "tip", "ended"} : natAt' = [natAt EXCEPT ![c] = w]
    BY <1>2 DEF Begin, OracleSkips, LegacyGates, LegFails, Leave, GoTo
  <2>2. /\ natAt[c] \in {"new", "gates", "legs", "tip"}
        /\ UNCHANGED <<natNet, natFloor, natTip, cachedBalance, natChain, unaccounted, tipOverlap>>
    BY <1>2 DEF Begin, OracleSkips, LegacyGates, LegFails
  <2> QED  BY <1>0, <2>1, <2>2, BeforeTheTip
<1>3. ASSUME NEW c \in NatCalls, NEW net \in NatNets, LegsQuoted(c, net) PROVE CallInv'
  <2>1. \E w \in {"tip", "ended"} : natAt' = [natAt EXCEPT ![c] = w]
    BY <1>3 DEF LegsQuoted, Leave, GoTo
  <2>2. /\ natAt[c] = "legs"
        /\ UNCHANGED <<natFloor, natTip, cachedBalance, natChain, unaccounted, tipOverlap>>
        /\ natNet' = natNet \/ natNet' = [natNet EXCEPT ![c] = net]
    BY <1>3 DEF LegsQuoted
  <2>3. natNet' \in [NatCalls -> Int] /\ \A d \in NatCalls : d # c => natNet'[d] = natNet[d]
    BY <1>0, <2>2, NativeAssumption
  <2> QED  BY <1>0, <2>1, <2>2, <2>3, BeforeTheTip
<1>4. ASSUME NEW c \in NatCalls, NEW k \in {"buildErr", "sendErr"}, BuildFailsWith(c, k)
      PROVE  CallInv'
  BY <1>4, NeverLeaves DEF BuildFailsWith, Leave, GoTo
<1>5. ASSUME NEW c \in NatCalls, StartSend(c) PROVE CallInv'
  BY <1>5, NeverLeaves, Leaves DEF StartSend, Leave, GoTo
<1>6. ASSUME NEW c \in NatCalls, NEW taken \in BOOLEAN, NEW answered \in BOOLEAN,
             SendEnds(c, taken, answered)
      PROVE  CallInv'
  BY <1>6, NeverLeaves, Leaves DEF SendEnds, Leave, GoTo
<1>7. ASSUME NEW c \in NatCalls, NEW landed \in BOOLEAN, StatusPolled(c, landed) PROVE CallInv'
  BY <1>1, <1>7 DEF StatusPolled
<1>8. CASE AttemptAges \/ UNCHANGED natVars
  BY <1>1, <1>8 DEF AttemptAges, natVars
<1> QED  BY <1>2, <1>3, <1>4, <1>5, <1>6, <1>7, <1>8, SizeStep, DecidedOnce, PolledAnew
         DEF NatNext

\* native_executor.rs, maybe_execute from the tip on: for any number of calls at
\* once, any rows and any reserve, no tip is above the gain predicted for it,
\* none comes from two rows mixed up, and the wallet keeps its reserve but for
\* the tips that were past the gate and not in the polled balance.
THEOREM TipsCorrect == NatSpec => []TipIsSound
<1>1. TipInv => TipIsSound
  <2> SUFFICES ASSUME TipInv PROVE TipIsSound
    OBVIOUS
  <2>1. TipLeavesProfit
    <3> SUFFICES ASSUME NEW x \in natChain.taken PROVE x.tip <= TipCap(natNet[x.call])
      BY DEF TipLeavesProfit
    <3> QED  BY DEF TipInv, CallInv, TakenInv, TipsSized, Pending
  <2>2. TipOvershoot
    <3> SUFFICES ASSUME tipOverlap >= 0
                 PROVE  natChain.lamports >= TipReserve - MaxTip * tipOverlap
      BY DEF TipOvershoot, MaxTip
    <3> DEFINE bound == TipReserve - MaxTip * tipOverlap
    <3>1. Covered(natChain.lamports, Paying, bound)
      BY DEF TipInv, CallInv, ReserveInv
    <3>2. bound \in Int /\ natChain.lamports \in Int
      BY PendingTypes DEF TipInv
    <3> HIDE DEF bound
    <3>3. ASSUME NEW d \in Paying,
                 natChain.lamports - natTip[d] - MaxTip * (Cardinality(Paying) - 1) >= bound
          PROVE  natChain.lamports >= bound
      <4>1. natTip[d] \in Nat
        BY PendingTypes, MaxTipType DEF TipInv
      <4>2. IsFiniteSet(Paying) /\ Cardinality(Paying) \in Nat /\ Cardinality(Paying) # 0
        BY PendingTypes, CallsFinite, FS_EmptySet DEF TipInv
      <4>3. Cardinality(Paying) - 1 \in Nat
        BY <4>2
      <4>4. MaxTip * 0 <= MaxTip * (Cardinality(Paying) - 1)
            /\ MaxTip * (Cardinality(Paying) - 1) \in Int
        BY <4>3, Tips
      <4>5. MaxTip * 0 = 0
        BY MaxTipType
      <4> QED  BY <3>2, <3>3, <4>1, <4>4, <4>5
    <3>4. natChain.lamports >= bound
      BY <3>1, <3>3 DEF Covered
    <3> QED  BY <3>4 DEF bound
  <2> QED  BY <2>1, <2>2 DEF TipInv, TipIsSound
<1>2. TipInv /\ [NatNext]_<<tipVars, natVars>> => TipInv'
  BY FloorsStep, CallStep DEF TipInv
<1> QED  BY <1>1, <1>2, TipInitInv, PTL DEF NatSpec

---------------------------------------------------------------------------
\* Every call that ends is counted once.

\* No call has begun, none is counted.
LEMMA CountInitInv == NatInit => CountInv
<1> SUFFICES ASSUME NatInit PROVE CountInv
  OBVIOUS
<1>1. Ended = {} /\ Cardinality({}) = 0
  BY FS_EmptySet DEF NatInit, Ended
<1>2. metric = [k \in Counters |-> 0] /\ unseen = 0
  BY DEF NatInit
<1>3. CallsCounted = 0
  BY <1>2 DEF CallsCounted, Counters
<1> QED  BY <1>1, <1>2, <1>3 DEF NatInit, CountInv, NativeLedger, NatPlaces

\* One counter goes up by one, and so does their sum.
LEMMA OneMoreCounted ==
  ASSUME metric \in [Counters -> Nat], NEW k \in Counters, Count(k)
  PROVE  /\ metric' \in [Counters -> Nat] /\ CallsCounted \in Nat
         /\ CallsCounted' = CallsCounted + 1
<1>1. \A l \in Counters : metric[l] \in Nat
                         /\ metric'[l] = IF l = k THEN metric[l] + 1 ELSE metric[l]
  BY DEF Count
<1>2. metric' \in [Counters -> Nat]
  BY DEF Count
<1>3. CallsCounted \in Nat
  BY <1>1 DEF CallsCounted, Counters
<1>4. CallsCounted' = CallsCounted + 1
  BY <1>1 DEF CallsCounted, Counters
<1> QED  BY <1>2, <1>3, <1>4

\* One call more has ended.
LEMMA OneMoreEnded ==
  ASSUME natAt \in [NatCalls -> NatPlaces], NEW c \in NatCalls, natAt[c] # "ended",
         GoTo(c, "ended")
  PROVE  /\ natAt' \in [NatCalls -> NatPlaces]
         /\ Cardinality(Ended) \in Nat /\ Cardinality(Ended') = Cardinality(Ended) + 1
<1>1. Ended' = Ended \cup {c} /\ c \notin Ended /\ Ended \subseteq NatCalls
  BY DEF GoTo, Ended
<1>2. IsFiniteSet(Ended) /\ Cardinality(Ended) \in Nat
  BY <1>1, CallsFinite
<1>3. natAt' \in [NatCalls -> NatPlaces]
  BY DEF GoTo, NatPlaces
<1> QED  BY <1>1, <1>2, <1>3, FS_AddElement

\* A call that ends by the way out of its counter keeps the ledger.
LEMMA CountedLeave ==
  ASSUME CountInv, NEW c \in NatCalls, natAt[c] # "ended", NEW k \in Counters, Leave(c, k),
         UNCHANGED unseen
  PROVE  CountInv'
<1>1. /\ metric' \in [Counters -> Nat] /\ CallsCounted \in Nat
      /\ CallsCounted' = CallsCounted + 1
  BY OneMoreCounted DEF Leave, CountInv
<1>2. /\ natAt' \in [NatCalls -> NatPlaces]
      /\ Cardinality(Ended) \in Nat /\ Cardinality(Ended') = Cardinality(Ended) + 1
  BY OneMoreEnded DEF Leave, CountInv
<1>3. unseen \in Nat /\ unseen' = unseen /\ Cardinality(Ended) = CallsCounted + unseen
  BY DEF CountInv, NativeLedger
<1>4. Cardinality(Ended') = CallsCounted' + unseen'
  BY <1>1, <1>2, <1>3
<1>5. NativeLedger'
  BY <1>4 DEF NativeLedger
<1> QED  BY <1>1, <1>2, <1>3, <1>5 DEF CountInv

\* A call that goes on ends nothing and counts nothing.
LEMMA GoesOn ==
  ASSUME CountInv, NEW c \in NatCalls, natAt[c] # "ended", NEW w \in NatPlaces, w # "ended",
         GoTo(c, w), UNCHANGED <<metric, unseen>>
  PROVE  CountInv'
<1>1. natAt' \in [NatCalls -> NatPlaces] /\ Ended' = Ended
  BY DEF CountInv, GoTo, Ended
<1>2. CallsCounted' = CallsCounted
  BY DEF CallsCounted
<1> QED  BY <1>1, <1>2 DEF CountInv, NativeLedger

\* Every step ends a call with its counter or neither.
LEMMA CountStep ==
  ASSUME CountInv, [NatNext]_<<tipVars, natVars>>
  PROVE  CountInv'
<1> USE DEF NatPlaces, Counters
<1>1. ASSUME UNCHANGED <<natAt, metric, unseen>> PROVE CountInv'
  BY <1>1 DEF CountInv, NativeLedger, CallsCounted, Ended
<1>2. ASSUME NEW c \in NatCalls, Begin(c) PROVE CountInv'
  BY <1>2, CountedLeave, GoesOn DEF Begin
<1>3. ASSUME NEW c \in NatCalls, NEW eligible \in BOOLEAN, LegacyGates(c, eligible) PROVE CountInv'
  <2>1. natAt[c] = "gates" /\ UNCHANGED unseen
    BY <1>3 DEF LegacyGates
  <2>2. \/ \E k \in {"throttle", "dailyCap", "notNative"} : Leave(c, k)
        \/ GoTo(c, "legs") /\ UNCHANGED metric
    BY <1>3 DEF LegacyGates
  <2> QED  BY <2>1, <2>2, CountedLeave, GoesOn
<1>4. ASSUME NEW c \in NatCalls, NEW k \in {"noMarket", "buildErr"}, LegFails(c, k) PROVE CountInv'
  BY <1>4, CountedLeave DEF LegFails
<1>5. ASSUME NEW c \in NatCalls, OracleSkips(c) PROVE CountInv'
  <2>1. /\ natAt' \in [NatCalls -> NatPlaces]
        /\ Cardinality(Ended) \in Nat /\ Cardinality(Ended') = Cardinality(Ended) + 1
    BY <1>5, OneMoreEnded DEF OracleSkips, CountInv
  <2>2. unseen \in Nat /\ unseen' = unseen + 1 /\ metric' = metric /\ CallsCounted' = CallsCounted
    BY <1>5 DEF OracleSkips, CountInv, CallsCounted
  <2>3. CallsCounted \in Nat /\ Cardinality(Ended) = CallsCounted + unseen
    BY DEF CountInv, NativeLedger, CallsCounted
  <2>4. Cardinality(Ended') = CallsCounted' + unseen'
    BY <2>1, <2>2, <2>3
  <2> QED  BY <2>1, <2>2, <2>4 DEF CountInv, NativeLedger
<1>6. ASSUME NEW c \in NatCalls, NEW net \in NatNets, LegsQuoted(c, net) PROVE CountInv'
  BY <1>6, CountedLeave, GoesOn DEF LegsQuoted
<1>7. ASSUME NEW c \in NatCalls, NEW priced \in BOOLEAN, SizeTip(c, priced) PROVE CountInv'
  BY <1>7, CountedLeave, GoesOn DEF SizeTip
<1>8. ASSUME NEW c \in NatCalls, NEW k \in {"buildErr", "sendErr"}, BuildFailsWith(c, k)
      PROVE  CountInv'
  BY <1>8, CountedLeave DEF BuildFailsWith
<1>9. ASSUME NEW c \in NatCalls, StartSend(c) PROVE CountInv'
  BY <1>9, CountedLeave, GoesOn DEF StartSend
<1>10. ASSUME NEW c \in NatCalls, NEW taken \in BOOLEAN, NEW answered \in BOOLEAN,
              SendEnds(c, taken, answered)
       PROVE  CountInv'
  BY <1>10, CountedLeave DEF SendEnds
<1>11. UNCHANGED <<natAt, metric, unseen>>
       \/ \E c \in NatCalls :
            \/ Begin(c) \/ \E eligible \in BOOLEAN : LegacyGates(c, eligible)
            \/ \E k \in {"noMarket", "buildErr"} : LegFails(c, k)
            \/ OracleSkips(c) \/ \E net \in NatNets : LegsQuoted(c, net)
            \/ \E priced \in BOOLEAN : SizeTip(c, priced)
            \/ \E k \in {"buildErr", "sendErr"} : BuildFailsWith(c, k)
            \/ StartSend(c) \/ \E taken, answered \in BOOLEAN : SendEnds(c, taken, answered)
  BY DEF NatNext, natVars, AttemptAges, StatusPolled, TxDecided, BalancePolled
<1> QED  BY <1>1, <1>2, <1>3, <1>4, <1>5, <1>6, <1>7, <1>8, <1>9, <1>10, <1>11

\* NativeMetrics: for any number of calls at once, every one that ended is in
\* exactly one counter, whichever of the early returns of maybe_execute it took,
\* but for those the price-oracle guard let go.
THEOREM LedgerBalances == NatSpec => []NativeLedger
<1>1. CountInv => NativeLedger
  BY DEF CountInv
<1> QED  BY <1>1, CountInitInv, CountStep, PTL DEF NatSpec
=============================================================================
