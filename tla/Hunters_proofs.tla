---------------------------- MODULE Hunters_proofs ----------------------------
(***************************************************************************)
(* What the three liquidation hunters promise, for any accounts, reserves  *)
(* and banks, any prices and any order of their feeds: the Solend scan     *)
(* loop, the MarginFi hunter and the Kamino hunter.                        *)
(***************************************************************************)
EXTENDS SolendScan, MarginFiHunter, KaminoHunter, FiniteSetTheorems, TLAPS

\* What was tried and stayed under water is in the set of the last scan.
ScanInv == ScanSound /\ attempted \subseteq prevUnderwater

\* run_solend_liquidator: no oracle update is lost between two scans, and with
\* FreshOnly an obligation is attempted once for each time it crosses, for any
\* number of obligations and scans.
THEOREM ScanIsSound == ScanSpec => []ScanSound
<1> USE DEF ScanSound, UpdateIsPending, OncePerCrossing
<1>1. ScanInit => ScanInv
  BY DEF ScanInit, ScanInv
<1>2. ScanInv /\ [ScanNext]_scanVars => ScanInv'
  <2> SUFFICES ASSUME ScanInv, [ScanNext]_scanVars PROVE ScanInv'
    OBVIOUS
  <2>1. ASSUME NEW o \in Obligations, PriceMoves(o) PROVE ScanInv'
    BY <2>1 DEF PriceMoves, PermitStored, scanHistory, ScanInv
  <2>2. ASSUME NEW byPing \in BOOLEAN, WakeUp(byPing) PROVE ScanInv'
    BY <2>2 DEF WakeUp, scanHistory, ScanInv
  <2>3. CASE Fetch \/ FetchFails
    BY <2>3 DEF Fetch, FetchFails, scanHistory, ScanInv
  <2>4. ASSUME NEW passing \in SUBSET Obligations, Attempt(passing) PROVE ScanInv'
    <3> DEFINE tried == {o \in passing : Fresh(o)}
    <3>1. /\ scan = "attempt" /\ passing \subseteq snapshot /\ prevUnderwater' = snapshot
          /\ attempted' = (attempted \cap snapshot) \cup tried
          /\ again' = (again \/ tried \cap attempted \cap snapshot # {})
          /\ UNCHANGED <<ping, unread, failed>>
      BY <2>4 DEF Attempt, RolledForward
    <3>2. UpdateIsPending'
      BY <3>1 DEF ScanInv
    <3>3. FreshOnly => tried \cap prevUnderwater = {}
      BY DEF Fresh
    <3>4. OncePerCrossing'
      BY <3>1, <3>3 DEF ScanInv
    <3>5. attempted' \subseteq prevUnderwater'
      BY <3>1
    <3> QED  BY <3>2, <3>4, <3>5 DEF ScanInv
  <2>5. CASE UNCHANGED scanVars
    BY <2>5 DEF scanVars, scanHistory, ScanInv
  <2> QED  BY <2>1, <2>2, <2>3, <2>4, <2>5 DEF ScanNext
<1>3. ScanInv => ScanSound
  BY DEF ScanInv
<1> QED  BY <1>1, <1>2, <1>3, PTL DEF ScanSpec

---------------------------------------------------------------------------
\* Where the tick, a worker and the refresh may be.
TickPlaces   == {"idle", "marks", "judge"}
WorkerPlaces == {"idle", "lock", "attempt", "too large", "healthy"}
RefreshPlaces == {"idle", "fetch", "cache", "accounts", "index", "prices", "marks"}

\* Whoever is past a lock of the bank cache is among its readers, and nobody else.
ReadersKnown ==
  /\ mtick.at \in TickPlaces
  /\ mtick = [at |-> mtick.at, affected |-> mtick.affected]
  /\ refresh.at \in RefreshPlaces
  /\ refresh = [at |-> refresh.at, runs |-> refresh.runs, prices |-> refresh.prices,
                accounts |-> refresh.accounts]
  /\ mworker = [w \in MWorkers |-> mworker[w]]
  /\ \A w \in MWorkers : /\ mworker[w].at \in WorkerPlaces
                         /\ mworker[w] = [at |-> mworker[w].at, acct |-> mworker[w].acct]
  /\ cacheReaders = {w \in MWorkers : mworker[w].at = "attempt"}
                      \cup (IF mtick.at = "judge" THEN {"tick"} ELSE {})

\* Nobody reads the bank cache at the start.
LEMMA MfiInitInv == MfiInit => ReadersKnown
<1> SUFFICES ASSUME MfiInit PROVE ReadersKnown
  OBVIOUS
<1>1. mtick = [at |-> "idle", affected |-> {}] /\ cacheReaders = {}
  BY DEF MfiInit
<1>2. refresh = [at |-> "idle", runs |-> 0, prices |-> AllBanks, accounts |-> {}]
  BY DEF MfiInit
<1>3. mworker = [w \in MWorkers |-> [at |-> "idle", acct |-> CHOOSE a \in MAccounts : TRUE]]
  BY DEF MfiInit
<1> HIDE DEF AllBanks
<1> QED  BY <1>1, <1>2, <1>3 DEF ReadersKnown, TickPlaces, WorkerPlaces, RefreshPlaces

\* Every step leaves the set of readers the set of those who are past the lock.
LEMMA MfiNextInv == ReadersKnown /\ [MfiNext]_mfiVars => ReadersKnown'
<1> SUFFICES ASSUME ReadersKnown, [MfiNext]_mfiVars PROVE ReadersKnown'
  OBVIOUS
<1> USE MfiAssumption DEF ReadersKnown, TickPlaces, WorkerPlaces, RefreshPlaces
<1>1. ASSUME UNCHANGED <<mtick, mworker, refresh, cacheReaders>> PROVE ReadersKnown'
  BY <1>1
<1>2. CASE (\E o \in Oracles : OracleMoves(o)) \/ ShredAlert \/ SendRefetched \/ MTime
           \/ \E a \in MAccounts : OwnerRepays(a)
  BY <1>1, <1>2 DEF OracleMoves, ShredAlert, SendRefetched, MTime, OwnerRepays
<1>3. CASE TakeTick
  BY <1>3 DEF TakeTick
<1>4. CASE TickReadsCache
  BY <1>4 DEF TickReadsCache
<1>5. CASE Judge
  BY <1>5 DEF Judge
<1>6. ASSUME NEW w \in MWorkers, TakeFire(w) PROVE ReadersKnown'
  BY <1>6 DEF TakeFire
<1>7. ASSUME NEW w \in MWorkers, WorkerReadsCache(w) PROVE ReadersKnown'
  BY <1>7 DEF WorkerReadsCache
<1>8. ASSUME NEW w \in MWorkers, TryLiquidate(w) PROVE ReadersKnown'
  <2> HIDE DEF WorkerPlaces
  <2>1. PICK s \in WorkerPlaces : s # "attempt" /\ mworker' = [mworker EXCEPT ![w].at = s]
    BY <1>8 DEF TryLiquidate, Simulated, WorkerPlaces
  <2>2. mworker[w].at = "attempt" /\ cacheReaders' = cacheReaders \ {w}
    BY <1>8 DEF TryLiquidate, Keeps
  <2>3. UNCHANGED <<mtick, refresh>>
    BY <1>8 DEF TryLiquidate
  <2>4. mworker' = [v \in MWorkers |-> mworker'[v]]
    BY <2>1
  <2>5. ASSUME NEW v \in MWorkers
        PROVE  /\ mworker'[v].at \in WorkerPlaces
               /\ mworker'[v] = [at |-> mworker'[v].at, acct |-> mworker'[v].acct]
               /\ mworker'[v].at = "attempt" <=> mworker[v].at = "attempt" /\ v # w
    <3>1. CASE v = w
      <4>1. mworker[w] = [at |-> mworker[w].at, acct |-> mworker[w].acct]
        OBVIOUS
      <4>2. mworker'[v] = [mworker[w] EXCEPT !.at = s]
        BY <2>1, <3>1
      <4>3. mworker'[v] = [at |-> s, acct |-> mworker[w].acct]
        BY <4>1, <4>2
      <4> QED  BY <2>1, <3>1, <4>3
    <3>2. CASE v # w
      <4>1. mworker'[v] = mworker[v]
        BY <2>1, <3>2
      <4> QED  BY <3>2, <4>1
    <3> QED  BY <3>1, <3>2
  <2>6. cacheReaders' = {v \in MWorkers : mworker'[v].at = "attempt"}
                          \cup (IF mtick'.at = "judge" THEN {"tick"} ELSE {})
    <3>1. w # "tick"
      BY MfiAssumption
    <3> QED  BY <2>2, <2>3, <2>5, <3>1
  <2> QED  BY <2>3, <2>4, <2>5, <2>6
<1>9. ASSUME NEW w \in MWorkers, MarkAccount(w) PROVE ReadersKnown'
  BY <1>9 DEF MarkAccount
<1>10. CASE FetchPrices \/ FetchAccounts \/ ReplaceCache \/ ReplaceAccounts \/ ReplaceMfiIndex
            \/ ReplacePrices \/ ClearMarks
  <2>1. UNCHANGED <<mtick, mworker, cacheReaders>>
    BY <1>10 DEF FetchPrices, FetchAccounts, ReplaceCache, ReplaceAccounts, ReplaceMfiIndex,
       ReplacePrices, ClearMarks
  <2> HIDE DEF AllBanks
  <2>2. /\ refresh'.at \in RefreshPlaces
        /\ refresh' = [at |-> refresh'.at, runs |-> refresh'.runs, prices |-> refresh'.prices,
                       accounts |-> refresh'.accounts]
    <3>1. CASE FetchPrices
      BY <3>1 DEF FetchPrices
    <3>2. CASE FetchAccounts
      BY <3>2 DEF FetchAccounts
    <3>3. CASE ReplaceCache \/ ReplaceAccounts \/ ReplaceMfiIndex \/ ReplacePrices \/ ClearMarks
      BY <3>3 DEF ReplaceCache, ReplaceAccounts, ReplaceMfiIndex, ReplacePrices, ClearMarks
    <3> QED  BY <1>10, <3>1, <3>2, <3>3
  <2> QED  BY <2>1, <2>2
<1>11. CASE UNCHANGED mfiVars
  BY <1>1, <1>11 DEF mfiVars
<1> QED  BY <1>2, <1>3, <1>4, <1>5, <1>6, <1>7, <1>8, <1>9, <1>10, <1>11 DEF MfiNext

\* marginfi-hunter.rs, tick_processor, the workers and background_refresh: for any
\* accounts, banks and number of workers, whoever waits for a lock waits for
\* somebody who holds it and can go on.
THEOREM HunterNeverStuck == MfiSpec => []NobodyStandsStill
<1>1. ReadersKnown => NobodyStandsStill
  <2> SUFFICES ASSUME ReadersKnown, NEW p \in Procs, Waits(p) PROVE \E q \in Procs : Runs(q)
    BY DEF NobodyStandsStill
  <2> USE MfiAssumption DEF ReadersKnown, TickPlaces, WorkerPlaces, RefreshPlaces, Procs, Waits, MayReadCache, MayMark, MarksRead
  <2>1. ASSUME NEW r \in cacheReaders PROVE Runs(r) /\ r \in Procs
    BY <2>1 DEF Runs
  <2>2. refresh.at = "cache" /\ cacheReaders = {} => Runs("refresh")
    BY DEF Runs
  <2>3. mtick.at = "marks" /\ refresh.at # "cache" => Runs("tick")
    BY DEF Runs
  <2>4. mtick.at = "judge" => Runs("tick")
    BY DEF Runs
  <2> QED  BY <2>1, <2>2, <2>3, <2>4
<1> QED  BY <1>1, MfiInitInv, MfiNextInv, PTL DEF MfiSpec

---------------------------------------------------------------------------
\* Types of the vector, the index and the queue.
HunterTypes ==
  /\ universe \in Seq(KObligations) /\ indexed \in Seq(KObligations)
  /\ rebuild.fetched \in Seq(KObligations)
  /\ rebuild = [at |-> rebuild.at, fetched |-> rebuild.fetched, done |-> rebuild.done]
  /\ fireQueue \in Seq(KObligations)
  /\ kNow \in Int

\* The prices an update or a rebuild left: override or cache.
PricesInv ==
  /\ DOMAIN cached = KReserves /\ DOMAIN newest = KReserves
  /\ DOMAIN overrides \subseteq KReserves
  /\ NewestPriceCounts

\* The slots a tick goes on with are those the index gives now, unless a rebuild
\* replaced the index under it.
SlotsInv == tick.at = "affected" /\ ~torn => tick.slots = AffectedBy(tick.reserve)

\* What was queued was marked as fired at that time or later.
FiredInv ==
  /\ fired \in [KObligations -> Int] /\ queuedAt \in [KObligations -> Int]
  /\ \A o \in KObligations : queuedAt[o] <= fired[o] /\ fired[o] <= kNow

\* The inductive invariant.
HunterInv ==
  HunterTypes /\ PricesInv /\ SlotsInv /\ FiredInv /\ AffectedAreLooked /\ QueuedOncePerWindow

\* The vector and the fetched one list obligations.
LEMMA OrdersOfASet ==
  ASSUME NEW S, S \subseteq KObligations, NEW q \in SetToSeqs(S)
  PROVE  q \in Seq(KObligations) /\ ToSet(q) \subseteq S
<1>1. Cardinality(S) \in Nat
  BY HunterAssumption, FS_Subset, FS_CardinalityType
<1>2. q \in [1..Cardinality(S) -> S]
  BY DEF SetToSeqs
<1> QED  BY <1>1, <1>2 DEF ToSet

\* So does the vector the hunter starts with.
LEMMA VectorOfAll == SetToSeq(KObligations) \in Seq(KObligations)
<1>1. PICK n \in Nat : ExistsBijection(1..n, KObligations)
  BY HunterAssumption, FS_NatBijection
<1>2. Cardinality(KObligations) = n
  BY <1>1, FS_CountingElements
<1>3. PICK f \in Bijection(1..n, KObligations) : TRUE
  BY <1>1 DEF ExistsBijection
<1>4. f \in [1..n -> KObligations] /\ IsInjective(f)
  BY <1>3 DEF Bijection, Injection, IsInjective
<1>5. SetToSeq(KObligations) \in [1..n -> KObligations]
  BY <1>2, <1>4 DEF SetToSeq
<1> QED  BY <1>5

\* The candidates taken are candidates.
LEMMA FirstOnes ==
  ASSUME NEW S, NEW q \in Seq(S), NEW n \in Int
  PROVE  First(n, q) \in Seq(S) /\ ToSet(First(n, q)) \subseteq ToSet(q)
<1> DEFINE k == IF Len(q) < n THEN Len(q) ELSE n
<1>1. k \in Int /\ k <= Len(q)
  OBVIOUS
<1>2. First(n, q) = SubSeq(q, 1, k)
  BY DEF First
<1> HIDE DEF k
<1>3. SubSeq(q, 1, k) = [i \in 1..k |-> q[i]]
  BY <1>1
<1>4. \A i \in 1..k : i \in DOMAIN q
  BY <1>1
<1>5. SubSeq(q, 1, k) \in Seq(S)
  BY <1>1, <1>3, <1>4
<1> QED  BY <1>2, <1>3, <1>4, <1>5 DEF ToSet

\* It holds before the first price arrives.
LEMMA HunterInitInv == HunterInit => HunterInv
<1> SUFFICES ASSUME HunterInit PROVE HunterInv
  OBVIOUS
<1>1. HunterTypes
  BY VectorOfAll DEF HunterInit, HunterTypes
<1>2. PricesInv
  BY DEF HunterInit, PricesInv, NewestPriceCounts, PriceOf
<1>3. SlotsInv /\ AffectedAreLooked /\ QueuedOncePerWindow
  BY DEF HunterInit, SlotsInv, AffectedAreLooked, QueuedOncePerWindow
<1>4. FiredInv
  BY DEF HunterInit, FiredInv
<1> QED  BY <1>1, <1>2, <1>3, <1>4 DEF HunterInv

\* Whatever the order of the hits, one that is queued was not tried in the window.
LEMMA FiredStep ==
  ASSUME HunterInv, Evaluate
  PROVE  FiredInv' /\ QueuedOncePerWindow' /\ fireQueue' \in Seq(KObligations)
<1>1. PICK hits \in ByDebt(Hits) : \E order \in ByDebt(Picks(hits)) :
         FireAt(Picks(hits), First(Room, order))
  BY DEF Evaluate
<1>2. PICK order \in ByDebt(Picks(hits)) : FireAt(Picks(hits), First(Room, order))
  BY <1>1
<1>3. Looked \subseteq KObligations
  BY DEF Looked, HunterInv, HunterTypes
<1>4. hits \in Seq(KObligations) /\ ToSet(hits) \subseteq KObligations
  <2>1. Hits \subseteq KObligations /\ hits \in SetToSeqs(Hits)
    BY <1>3 DEF Hits, ByDebt
  <2> QED  BY <2>1, OrdersOfASet
<1>5. Picks(hits) \subseteq KObligations
  BY <1>4, FirstOnes, HunterAssumption DEF Picks
<1>6. order \in Seq(KObligations) /\ ToSet(order) \subseteq Picks(hits)
  BY <1>5, OrdersOfASet DEF ByDebt
<1> DEFINE queued == First(Room, order)
<1>7. queued \in Seq(KObligations) /\ ToSet(queued) \subseteq Picks(hits)
  <2>1. Room \in Int
    BY HunterAssumption DEF Room, HunterInv, HunterTypes
  <2> QED  BY <1>6, <2>1, FirstOnes
<1> HIDE DEF queued
<1>8. FireAt(Picks(hits), queued)
  BY <1>2 DEF queued
<1>9. \A o \in Picks(hits) : ~(fired[o] >= 0 /\ kNow - fired[o] < Suppress)
  BY DEF Picks, TriedLately
<1>10. kNow \in Int /\ kNow' = kNow /\ Suppress \in Int /\ ~tooSoon
  BY HunterAssumption DEF HunterInv, HunterTypes, Evaluate, QueuedOncePerWindow
<1>11. fireQueue' \in Seq(KObligations)
  BY <1>7, <1>8 DEF FireAt, HunterInv, HunterTypes
<1>12. \A o \in KObligations : fired[o] \in Int /\ queuedAt[o] \in Int /\ queuedAt[o] <= fired[o]
                               /\ fired[o] <= kNow
  BY DEF HunterInv, FiredInv
<1>13. ASSUME NEW o \in ToSet(queued) PROVE ~(queuedAt[o] >= 0 /\ kNow - queuedAt[o] < Suppress)
  <2>1. o \in Picks(hits) /\ o \in KObligations
    BY <1>5, <1>7
  <2> QED  BY <1>9, <1>10, <1>12, <2>1
<1>14. QueuedOncePerWindow'
  BY <1>8, <1>10, <1>13 DEF FireAt, QueuedOncePerWindow
<1>15. FiredInv'
  BY <1>7, <1>8, <1>10, <1>12 DEF FireAt, FiredInv
<1> QED  BY <1>11, <1>14, <1>15

\* Every step of the feeds, the tick and the rebuild keeps it.
LEMMA HunterNextInv == HunterInv /\ [HunterNext]_kHunterVars => HunterInv'
<1> SUFFICES ASSUME HunterInv, [HunterNext]_kHunterVars PROVE HunterInv'
  OBVIOUS
<1>1. ASSUME UNCHANGED <<universe, indexed, rebuild, fireQueue, kNow>> PROVE HunterTypes'
  BY <1>1 DEF HunterInv, HunterTypes
<1>2. ASSUME UNCHANGED <<cached, overrides, newest, cleared>> PROVE PricesInv'
  BY <1>2 DEF HunterInv, PricesInv, NewestPriceCounts, PriceOf
<1>3. ASSUME UNCHANGED <<tick, torn, indexed>> PROVE SlotsInv'
  BY <1>3 DEF HunterInv, SlotsInv, AffectedBy
<1>4. ASSUME UNCHANGED <<fired, queuedAt, tooSoon, kNow>> PROVE FiredInv' /\ QueuedOncePerWindow'
  BY <1>4 DEF HunterInv, FiredInv, QueuedOncePerWindow
<1>5. ASSUME UNCHANGED missed, torn => torn' PROVE AffectedAreLooked'
  BY <1>5 DEF HunterInv, AffectedAreLooked
<1>6. ASSUME NEW m \in [kind : {"reserve", "pyth", "scope"}, reserve : KReserves, price : 0..MaxPrice],
             TakeUpdate(m)
      PROVE  HunterInv'
  <2>1. UNCHANGED <<kNow, universe, indexed, fired, fireQueue, worker, rebuild, missed, torn,
                    queuedAt, tooSoon>>
    BY <1>6 DEF TakeUpdate
  <2>2. PricesInv'
    <3> DEFINE r == m.reserve
    <3>1. r \in KReserves
      OBVIOUS
    <3>2. CASE m.kind = "reserve"
      <4>1. /\ cached' = [cached EXCEPT ![r] = m.price] /\ overrides' = WithoutOverride(r)
            /\ newest' = [newest EXCEPT ![r] = m.price] /\ cleared' = cleared \ {r}
        BY <1>6, <3>2 DEF TakeUpdate
      <4> QED  BY <3>1, <4>1 DEF HunterInv, PricesInv, NewestPriceCounts, PriceOf, WithoutOverride
    <3>3. CASE m.kind # "reserve" /\ Sane(m)
      <4>1. /\ cached' = cached /\ overrides' = Overridden(m)
            /\ newest' = [newest EXCEPT ![r] = m.price] /\ cleared' = cleared \ {r}
        BY <1>6, <3>3 DEF TakeUpdate
      <4> QED  BY <3>1, <4>1 DEF HunterInv, PricesInv, NewestPriceCounts, PriceOf, Overridden
    <3>4. CASE m.kind # "reserve" /\ ~Sane(m)
      BY <1>2, <1>6, <3>4 DEF TakeUpdate
    <3> QED  BY <3>2, <3>3, <3>4
  <2>3. SlotsInv'
    BY <1>6, <2>1 DEF TakeUpdate, HunterInv, SlotsInv, AffectedBy
  <2> QED  BY <1>1, <1>4, <1>5, <2>1, <2>2, <2>3 DEF HunterInv
<1>7. CASE Evaluate
  <2>1. UNCHANGED <<kNow, cached, overrides, universe, indexed, worker, rebuild, newest, cleared>>
        /\ tick' = [at |-> "recv"]
    BY <1>7 DEF Evaluate, kPrices
  <2>2. SlotsInv'
    BY <2>1 DEF SlotsInv
  <2>3. AffectedAreLooked'
    <3> SUFFICES ASSUME ~torn' PROVE ~missed'
      BY DEF AffectedAreLooked
    <3>1. ~torn /\ indexed = universe /\ ~missed /\ tick.at = "affected"
      BY <1>7 DEF Evaluate, HunterInv, AffectedAreLooked
    <3>2. tick.slots = AffectedBy(tick.reserve)
      BY <3>1 DEF HunterInv, SlotsInv
    <3>3. ASSUME NEW o \in ToSet(universe), tick.reserve \in Refers(o) PROVE o \in Looked
      <4>1. PICK i \in DOMAIN universe : o = universe[i]
        BY DEF ToSet
      <4>2. i \in tick.slots
        BY <3>1, <3>2, <3>3, <4>1 DEF AffectedBy, IndexedUnder
      <4> QED  BY <4>1, <4>2 DEF Looked
    <3> QED  BY <1>7, <3>1, <3>3 DEF Evaluate
  <2>4. HunterTypes'
    BY <1>7, <2>1, FiredStep DEF HunterInv, HunterTypes
  <2> QED  BY <1>2, <1>7, <2>1, <2>2, <2>3, <2>4, FiredStep DEF HunterInv
<1>8. ASSUME NEW w \in KWorkers, WorkerTakes(w) PROVE HunterInv'
  <2>1. UNCHANGED <<kNow, cached, overrides, universe, indexed, tick, fired, rebuild, newest,
                    cleared, missed, torn, queuedAt, tooSoon>>
        /\ fireQueue # <<>> /\ fireQueue' = Tail(fireQueue)
    BY <1>8 DEF WorkerTakes, kPrices, kHistory
  <2>2. HunterTypes'
    BY <2>1 DEF HunterInv, HunterTypes
  <2> QED  BY <1>2, <1>3, <1>4, <1>5, <2>1, <2>2 DEF HunterInv
<1>9. ASSUME UNCHANGED <<kNow, kPrices, universe, indexed, tick, fired, fireQueue, rebuild, kHistory>>
      PROVE  HunterInv'
  BY <1>1, <1>2, <1>3, <1>4, <1>5, <1>9 DEF HunterInv, kPrices, kHistory
<1>10. ASSUME NEW seq \in SetToAllKPermutations(KObligations), RebuildFetches(seq) PROVE HunterInv'
  <2>1. seq \in Seq(KObligations)
    BY OrdersOfASet DEF SetToAllKPermutations
  <2>2. UNCHANGED <<kNow, cached, overrides, universe, indexed, tick, fired, fireQueue, worker,
                    newest, cleared, missed, torn, queuedAt, tooSoon>>
        /\ rebuild' = [rebuild EXCEPT !.at = "fetched", !.fetched = seq]
    BY <1>10 DEF RebuildFetches, kPrices, kHistory
  <2>3. HunterTypes'
    BY <2>1, <2>2 DEF HunterInv, HunterTypes
  <2> QED  BY <1>2, <1>3, <1>4, <1>5, <2>2, <2>3 DEF HunterInv
<1>11. CASE ReplaceUniverse
  <2>1. UNCHANGED <<kNow, cached, overrides, indexed, tick, fired, fireQueue, worker, newest,
                    cleared, missed, torn, queuedAt, tooSoon>>
        /\ rebuild' = [rebuild EXCEPT !.at = "index"] /\ universe' = rebuild.fetched
    BY <1>11 DEF ReplaceUniverse, kPrices, kHistory
  <2>2. HunterTypes'
    BY <2>1 DEF HunterInv, HunterTypes
  <2> QED  BY <1>2, <1>3, <1>4, <1>5, <2>1, <2>2 DEF HunterInv
<1>12. CASE ReplaceIndex
  <2>1. UNCHANGED <<kNow, cached, overrides, universe, tick, fired, fireQueue, worker, newest,
                    cleared, missed, queuedAt, tooSoon>>
        /\ rebuild' = [rebuild EXCEPT !.at = "clear"] /\ indexed' = rebuild.fetched
        /\ torn' = (torn \/ tick.at = "affected")
    BY <1>12 DEF ReplaceIndex, kPrices
  <2>2. HunterTypes'
    BY <2>1 DEF HunterInv, HunterTypes
  <2>3. SlotsInv'
    BY <2>1 DEF SlotsInv
  <2> QED  BY <1>2, <1>4, <1>5, <2>1, <2>2, <2>3 DEF HunterInv
<1>13. CASE ClearOverrides
  <2>1. UNCHANGED <<kNow, cached, universe, indexed, tick, fired, fireQueue, worker, newest, missed,
                    torn, queuedAt, tooSoon>>
        /\ rebuild' = [at |-> "sleep", fetched |-> <<>>, done |-> rebuild.done + 1]
        /\ overrides' = [r \in {} |-> 0] /\ cleared' = cleared \cup DOMAIN overrides
    BY <1>13 DEF ClearOverrides
  <2>2. HunterTypes'
    BY <2>1 DEF HunterInv, HunterTypes
  <2>3. PricesInv'
    BY <2>1 DEF HunterInv, PricesInv, NewestPriceCounts, PriceOf
  <2> QED  BY <1>3, <1>4, <1>5, <2>1, <2>2, <2>3 DEF HunterInv
<1>14. CASE HunterTick
  <2>1. UNCHANGED <<cached, overrides, universe, indexed, tick, fired, fireQueue, worker, rebuild,
                    newest, cleared, missed, torn, queuedAt, tooSoon>>
        /\ kNow' = kNow + 1
    BY <1>14 DEF HunterTick, kPrices, kHistory
  <2>2. HunterTypes' /\ FiredInv' /\ QueuedOncePerWindow'
    BY <2>1 DEF HunterInv, HunterTypes, FiredInv, QueuedOncePerWindow
  <2> QED  BY <1>2, <1>3, <1>5, <2>1, <2>2 DEF HunterInv
<1> QED  BY <1>6, <1>7, <1>8, <1>9, <1>10, <1>11, <1>12, <1>13, <1>14
         DEF HunterNext, AttemptEnds, Refetched, kHunterVars

\* kamino-hunter.rs, tick_processor beside background_refresh: for any obligations,
\* prices and queue, an update looks at everything that refers to its reserve
\* unless a rebuild got between, by the newest price, and queues nothing twice
\* in the window.
THEOREM KaminoSound == HunterSpec => []HunterSound
<1>1. HunterInv => HunterSound
  BY DEF HunterInv, PricesInv, HunterSound
<1> QED  BY <1>1, HunterInitInv, HunterNextInv, PTL DEF HunterSpec
=============================================================================
