-------------------------- MODULE PumpTraders_proofs --------------------------
(***************************************************************************)
(* What the three traders of pump.fun tokens promise, whatever launches,   *)
(* buys, pools and losses of replies come and however long they run: the   *)
(* launch sniper, the positions of the copy-trade and trending detectors,  *)
(* and the PumpSwap watcher.                                               *)
(***************************************************************************)
EXTENDS LaunchSniper, PumpPositions, PumpSwapWatcher, FiniteSetTheorems, SequenceTheorems, TLAPS

\* Types of what the sniper remembers.
SniperTypes ==
  /\ launchTime \in Nat
  /\ DOMAIN recentDevs \subseteq Devs
  /\ \A d \in DOMAIN recentDevs : recentDevs[d] \in 0 .. launchTime
  /\ lastTry \in [Devs -> Int]
  /\ \A d \in Devs : lastTry[d] <= launchTime

\* A creator tried within the window is remembered, at no earlier a time.
TriedIsRecent ==
  \A d \in Devs :
    lastTry[d] >= 0 /\ launchTime - lastTry[d] < DevWindow
      => d \in DOMAIN recentDevs /\ recentDevs[d] >= lastTry[d]

\* What is counted is finite.
FiniteBooks ==
  /\ page \subseteq Launches /\ sniperPositions \subseteq Launches /\ spawned \subseteq Launches
  /\ crowd \in Nat

\* The inductive invariant.
SniperInv == SniperTypes /\ TriedIsRecent /\ FiniteBooks /\ ~serial /\ LimitOvershoot

\* It holds before the first launch.
LEMMA SniperInitInv == SniperInit => SniperInv
<1> SUFFICES ASSUME SniperInit PROVE SniperInv
  OBVIOUS
<1>1. SniperTypes
  BY DEF SniperInit, SniperTypes
<1>2. TriedIsRecent
  BY DEF SniperInit, TriedIsRecent
<1>3. FiniteBooks /\ LimitOvershoot
  BY DEF SniperInit, FiniteBooks, LimitOvershoot
<1>4. ~serial
  BY DEF SniperInit
<1> QED  BY <1>1, <1>2, <1>3, <1>4 DEF SniperInv

\* The map after the retain of a round.
LEMMA RetainedFacts ==
  /\ DOMAIN Retained = {e \in DOMAIN recentDevs : launchTime - recentDevs[e] < DevWindow}
  /\ \A d \in DOMAIN Retained : Retained[d] = recentDevs[d]
  BY DEF Retained

\* Looking at a launch keeps it.
LEMMA ConsiderInv ==
  ASSUME SniperInv, NEW l \in Launches, Consider(l)
  PROVE  SniperInv'
<1> DEFINE d == Dev[l]
<1>1. d \in Devs /\ l \in page /\ launchTime \in Nat /\ DevWindow \in Nat
  BY LaunchAssumption DEF SniperInv, SniperTypes, Consider
<1>2. UNCHANGED <<launchTime, sniperPositions>> /\ page' \subseteq page
  BY DEF Consider
<1>3. CASE LaunchedLately(d)
  <2>1. recentDevs' = Retained /\ UNCHANGED <<spawned, lastTry, serial, crowd>>
    BY <1>3 DEF Consider, sniperHistory
  <2>2. SniperTypes'
    BY <1>2, <2>1, RetainedFacts DEF SniperInv, SniperTypes
  <2>3. TriedIsRecent'
    BY <1>1, <1>2, <2>1, RetainedFacts DEF SniperInv, SniperTypes, TriedIsRecent
  <2>4. FiniteBooks' /\ LimitOvershoot' /\ ~serial'
    BY <1>2, <2>1 DEF SniperInv, FiniteBooks, LimitOvershoot
  <2> QED  BY <2>2, <2>3, <2>4 DEF SniperInv
<1>4. CASE ~LaunchedLately(d)
  <2>1. recentDevs' = [e \in DOMAIN Retained \cup {d} |-> IF e = d THEN launchTime ELSE Retained[e]]
    BY <1>4 DEF Consider
  <2>2. \/ UNCHANGED <<spawned, lastTry, serial, crowd>>
        \/ /\ ~AtLimit
           /\ spawned' = spawned \cup {l}
           /\ lastTry' = [lastTry EXCEPT ![d] = launchTime]
           /\ serial' = (serial \/ (lastTry[d] >= 0 /\ launchTime - lastTry[d] < DevWindow))
           /\ crowd' = IF Cardinality(spawned') > crowd THEN Cardinality(spawned') ELSE crowd
    BY <1>4 DEF Consider, sniperHistory
  <2>3. ~(lastTry[d] >= 0 /\ launchTime - lastTry[d] < DevWindow)
    BY <1>1, <1>4, RetainedFacts DEF SniperInv, SniperTypes, TriedIsRecent, LaunchedLately
  <2>4. ~serial'
    BY <2>2, <2>3 DEF SniperInv
  <2>5. lastTry' = lastTry \/ lastTry' = [lastTry EXCEPT ![d] = launchTime]
    BY <2>2
  <2>6. SniperTypes'
    BY <1>1, <1>2, <2>1, <2>5, RetainedFacts DEF SniperInv, SniperTypes
  <2>7. TriedIsRecent'
    BY <1>1, <1>2, <2>1, <2>5, RetainedFacts DEF SniperInv, SniperTypes, TriedIsRecent
  <2>8. FiniteBooks' /\ LimitOvershoot'
    <3>1. CASE UNCHANGED <<spawned, lastTry, serial, crowd>>
      BY <1>2, <3>1 DEF SniperInv, FiniteBooks, LimitOvershoot
    <3>2. CASE ~AtLimit /\ spawned' = spawned \cup {l}
               /\ crowd' = IF Cardinality(spawned') > crowd THEN Cardinality(spawned') ELSE crowd
      <4>1. spawned' \subseteq Launches
        BY <3>2 DEF SniperInv, FiniteBooks
      <4>2. /\ IsFiniteSet(spawned') /\ Cardinality(spawned') \in Nat
            /\ Cardinality(sniperPositions) \in Nat
        BY <4>1, LaunchAssumption, FS_Subset, FS_CardinalityType DEF SniperInv, FiniteBooks
      <4>3. crowd' \in Nat /\ crowd' >= Cardinality(spawned')
        BY <3>2, <4>2 DEF SniperInv, FiniteBooks
      <4>4. Cardinality(sniperPositions) < MaxPositions
        BY <3>2, <4>2, LaunchAssumption DEF AtLimit
      <4>5. Cardinality(sniperPositions) + Cardinality(spawned') < MaxPositions + crowd'
        BY <4>2, <4>3, <4>4, LaunchAssumption
      <4> QED  BY <1>2, <4>1, <4>3, <4>5 DEF SniperInv, FiniteBooks, LimitOvershoot
    <3> QED  BY <2>2, <3>1, <3>2
  <2> QED  BY <2>4, <2>6, <2>7, <2>8 DEF SniperInv
<1> QED  BY <1>3, <1>4

\* So does the return of a swap.
LEMMA SwapReturnsInv ==
  ASSUME SniperInv, NEW l \in Launches, NEW ok \in BOOLEAN, SwapReturns(l, ok)
  PROVE  SniperInv'
<1>1. /\ l \in spawned /\ spawned' = spawned \ {l}
      /\ sniperPositions' \in {sniperPositions, sniperPositions \cup {l}}
      /\ UNCHANGED <<launchTime, page, recentDevs, lastTry, serial, crowd>>
  BY DEF SwapReturns, sniperHistory
<1>2. SniperTypes' /\ TriedIsRecent' /\ FiniteBooks' /\ ~serial'
  BY <1>1 DEF SniperInv, SniperTypes, TriedIsRecent, FiniteBooks
<1>3. IsFiniteSet(spawned) /\ IsFiniteSet(sniperPositions)
  BY LaunchAssumption, FS_Subset DEF SniperInv, FiniteBooks
<1>4. Cardinality(spawned') = Cardinality(spawned) - 1 /\ Cardinality(spawned) \in Nat
  BY <1>1, <1>3, FS_RemoveElement, FS_CardinalityType
<1>5. /\ Cardinality(sniperPositions) \in Nat
      /\ Cardinality(sniperPositions \cup {l})
           \in {Cardinality(sniperPositions), Cardinality(sniperPositions) + 1}
  BY <1>3, FS_AddElement, FS_CardinalityType
<1>6. /\ Cardinality(sniperPositions') \in Nat /\ Cardinality(spawned') \in Nat
      /\ Cardinality(sniperPositions') + Cardinality(spawned')
           <= Cardinality(sniperPositions) + Cardinality(spawned)
  <2>1. Cardinality(spawned') \in Nat
    BY <1>1, <1>3, FS_RemoveElement, FS_CardinalityType
  <2>2. CASE sniperPositions' = sniperPositions
    BY <1>4, <1>5, <2>1, <2>2
  <2>3. CASE sniperPositions' = sniperPositions \cup {l}
    BY <1>4, <1>5, <2>1, <2>3
  <2> QED  BY <1>1, <2>2, <2>3
<1>7. LimitOvershoot'
  <2>1. crowd' = crowd /\ crowd \in Nat /\ MaxPositions \in Nat
    BY <1>1, LaunchAssumption DEF SniperInv, FiniteBooks
  <2>2. crowd > 0 => Cardinality(sniperPositions) + Cardinality(spawned) < MaxPositions + crowd
    BY DEF SniperInv, LimitOvershoot
  <2> QED  BY <1>4, <1>5, <1>6, <2>1, <2>2 DEF LimitOvershoot
<1> QED  BY <1>2, <1>7 DEF SniperInv

\* Every step keeps it.
LEMMA SniperNextInv == SniperInv /\ [SniperNext]_sniperVars => SniperInv'
<1> SUFFICES ASSUME SniperInv, [SniperNext]_sniperVars PROVE SniperInv'
  OBVIOUS
<1>1. ASSUME NEW l \in Launches, PassOver(l) PROVE SniperInv'
  BY <1>1 DEF PassOver, sniperHistory, SniperInv, SniperTypes, TriedIsRecent, FiniteBooks,
              LimitOvershoot
<1>2. ASSUME NEW some \in SUBSET Launches, FetchPage(some) PROVE SniperInv'
  BY <1>2 DEF FetchPage, sniperHistory, SniperInv, SniperTypes, TriedIsRecent, FiniteBooks,
              LimitOvershoot
<1>3. CASE LaunchTick
  <2>1. launchTime' = launchTime + 1
        /\ UNCHANGED <<page, recentDevs, sniperPositions, spawned, lastTry, serial, crowd>>
    BY <1>3 DEF LaunchTick, sniperHistory
  <2>2. SniperTypes'
    BY <2>1 DEF SniperInv, SniperTypes
  <2>3. TriedIsRecent'
    BY <2>1, LaunchAssumption DEF SniperInv, SniperTypes, TriedIsRecent
  <2> QED  BY <2>1, <2>2, <2>3 DEF SniperInv, FiniteBooks, LimitOvershoot
<1>4. CASE UNCHANGED sniperVars
  BY <1>4 DEF sniperVars, sniperHistory, SniperInv, SniperTypes, TriedIsRecent, FiniteBooks,
              LimitOvershoot
<1> QED  BY <1>1, <1>2, <1>3, <1>4, ConsiderInv, SwapReturnsInv DEF SniperNext

\* run_pump_fun_executor: two attempts for one creator are a window apart, and
\* the limit on positions is passed by no more than the tasks alive at a test,
\* for any number of launches, tasks and rounds.
THEOREM SniperIsBounded == SniperSpec => []SniperBounds
<1>1. SniperInv => SniperBounds
  BY DEF SniperInv, SniperBounds, SerialDevsSkipped
<1> QED  BY <1>1, SniperInitInv, SniperNextInv, PTL DEF SniperSpec

---------------------------------------------------------------------------
\* Tasks past the check of the wallet whose request has not been answered.
Buying == {j \in DOMAIN jobs : jobs[j].at = "buy"}

\* Types of what an entry goes through.
EntryTypes ==
  /\ clock \in Int /\ wallet \in Int /\ overlap \in Nat
  /\ jobs \in Seq(Job) /\ held \in Seq(Position)
  /\ booked \subseteq PosMints /\ tokens \subseteq PosMints /\ buysOut \subseteq PosMints

\* Even if every buy outstanding lands, the wallet keeps its floor but for the
\* overlap.
FloorInv == wallet - EstCost * Outstanding >= MinReserve - EstCost * overlap

\* A mint is booked before its position is on its way to the list, and it is on
\* its way, or on the list as bought, in one place only.
EntryInv ==
  /\ \A i \in DOMAIN held : ~held[i].seeded =>
       /\ held[i].mint \in booked
       /\ \A k \in DOMAIN held : held[k].mint = held[i].mint /\ ~held[k].seeded => k = i
       /\ \A j \in DOMAIN jobs : jobs[j].at = "push" => jobs[j].mint # held[i].mint
  /\ \A j \in DOMAIN jobs : jobs[j].at = "push" =>
       /\ jobs[j].mint \in booked
       /\ \A k \in DOMAIN jobs : jobs[k].at = "push" /\ jobs[k].mint = jobs[j].mint => k = j

\* The inductive invariant.
PosInv == EntryTypes /\ FloorInv /\ EntryInv /\ BuysAreTracked

\* It holds before the first transaction is seen.
LEMMA PosInitInv == PosInit => PosInv
<1> SUFFICES ASSUME PosInit PROVE PosInv
  OBVIOUS
<1>1. jobs = <<>> /\ held = <<>> /\ clock = 0 /\ overlap = 0 /\ booked = {} /\ tokens = Bags
      /\ buysOut = {} /\ wallet \in WalletStarts
  BY DEF PosInit
<1>2. jobs \in Seq(Job) /\ held \in Seq(Position) /\ DOMAIN jobs = {} /\ DOMAIN held = {}
  BY <1>1, EmptySeq
<1>3. EntryTypes
  BY <1>1, <1>2, PositionAssumption DEF EntryTypes
<1>4. Outstanding = 0
  BY <1>1, <1>2, FS_EmptySet DEF Outstanding
<1>5. FloorInv
  BY <1>1, <1>4, PositionAssumption DEF FloorInv
<1>6. EntryInv /\ BuysAreTracked
  BY <1>1, <1>2 DEF EntryInv, BuysAreTracked
<1> QED  BY <1>3, <1>5, <1>6 DEF PosInv

---------------------------------------------------------------------------
\* Counting what is outstanding.
LEMMA OutstandingCounted ==
  ASSUME EntryTypes
  PROVE  /\ IsFiniteSet(Buying) /\ IsFiniteSet(buysOut)
         /\ Cardinality(Buying) \in Nat /\ Cardinality(buysOut) \in Nat
         /\ Outstanding = Cardinality(Buying) + Cardinality(buysOut) /\ Outstanding \in Nat
<1>1. DOMAIN jobs = 1..Len(jobs) /\ Len(jobs) \in Nat
  BY LenProperties DEF EntryTypes
<1>2. IsFiniteSet(DOMAIN jobs) /\ Buying \in SUBSET DOMAIN jobs
  <2>1. IsFiniteSet(1..Len(jobs))
    BY <1>1, FS_Interval
  <2>2. Buying \in SUBSET DOMAIN jobs
    BY DEF Buying
  <2> QED  BY <1>1, <2>1, <2>2
<1>3. IsFiniteSet(Buying) /\ IsFiniteSet(buysOut)
  BY <1>2, FS_Subset, PositionAssumption DEF EntryTypes
<1>4. Cardinality(Buying) \in Nat /\ Cardinality(buysOut) \in Nat
  BY <1>3, FS_CardinalityType
<1>5. Outstanding = Cardinality(Buying) + Cardinality(buysOut)
  BY DEF Outstanding, Buying
<1> QED  BY <1>3, <1>4, <1>5

\* A task starts or stops buying.
LEMMA OneMore ==
  ASSUME EntryTypes, NEW j, j \notin Buying, Buying' = Buying \cup {j}, UNCHANGED buysOut
  PROVE  Outstanding' = Outstanding + 1
<1>1. IsFiniteSet(Buying) /\ Cardinality(Buying) \in Nat /\ Cardinality(buysOut) \in Nat
  BY OutstandingCounted
<1>2. Cardinality(Buying') = Cardinality(Buying) + 1
  BY <1>1, FS_AddElement
<1>3. Outstanding' = Cardinality(Buying') + Cardinality(buysOut')
      /\ Outstanding = Cardinality(Buying) + Cardinality(buysOut)
  BY DEF Outstanding, Buying
<1> QED  BY <1>1, <1>2, <1>3

\* A task stops buying.
LEMMA OneLess ==
  ASSUME EntryTypes, NEW j \in Buying, Buying' = Buying \ {j}, UNCHANGED buysOut
  PROVE  Outstanding' = Outstanding - 1
<1>1. IsFiniteSet(Buying) /\ Cardinality(Buying) \in Nat /\ Cardinality(buysOut) \in Nat
  BY OutstandingCounted
<1>2. Cardinality(Buying') = Cardinality(Buying) - 1
  BY <1>1, FS_RemoveElement
<1>3. Outstanding' = Cardinality(Buying') + Cardinality(buysOut')
      /\ Outstanding = Cardinality(Buying) + Cardinality(buysOut)
  BY DEF Outstanding, Buying
<1> QED  BY <1>1, <1>2, <1>3

\* A task goes on.
LEMMA JobMoves ==
  ASSUME EntryTypes, NEW j \in DOMAIN jobs, NEW where \in {"buy", "push", "done"}, JobGoes(j, where)
  PROVE  /\ jobs' \in Seq(Job) /\ DOMAIN jobs' = DOMAIN jobs
         /\ \A k \in DOMAIN jobs : k # j => jobs'[k] = jobs[k]
         /\ jobs'[j].mint = jobs[j].mint /\ jobs'[j].at = where
         /\ jobs[j].at = "buy" /\ where # "buy" => Buying' = Buying \ {j} /\ j \in Buying
         /\ jobs[j].at # "buy" /\ where = "buy" => Buying' = Buying \cup {j} /\ j \notin Buying
         /\ jobs[j].at # "buy" /\ where # "buy" => Buying' = Buying
<1>1. j \in 1..Len(jobs) /\ jobs[j] \in Job /\ DOMAIN jobs = 1..Len(jobs) /\ Len(jobs) \in Nat
  BY LenProperties, ElementOfSeq DEF EntryTypes
<1> DEFINE moved == [jobs[j] EXCEPT !.at = where]
<1>2. moved \in Job /\ moved.mint = jobs[j].mint /\ moved.at = where
  BY <1>1 DEF Job
<1>3. jobs' = [jobs EXCEPT ![j] = moved]
  BY DEF JobGoes
<1> HIDE DEF moved
<1>4. /\ jobs' \in Seq(Job) /\ Len(jobs') = Len(jobs)
      /\ \A k \in 1..Len(jobs) : jobs'[k] = IF k = j THEN moved ELSE jobs[k]
  BY <1>1, <1>2, <1>3, ExceptSeq DEF EntryTypes
<1>5. DOMAIN jobs' = 1..Len(jobs)
  BY <1>4, LenProperties
<1> QED  BY <1>1, <1>2, <1>4, <1>5 DEF Buying

\* The list gets longer by tasks that have not looked at the wallet yet.
LEMMA JobsJoin ==
  ASSUME EntryTypes, NEW new \in Seq(Job), \A i \in DOMAIN new : new[i].at = "check",
         jobs' = jobs \o new
  PROVE  /\ jobs' \in Seq(Job)
         /\ \A k \in DOMAIN jobs : k \in DOMAIN jobs' /\ jobs'[k] = jobs[k]
         /\ \A k \in DOMAIN jobs' : k \notin DOMAIN jobs => jobs'[k].at = "check"
         /\ Buying' = Buying
<1>1. /\ DOMAIN jobs = 1..Len(jobs) /\ Len(jobs) \in Nat
      /\ DOMAIN new = 1..Len(new) /\ Len(new) \in Nat
  BY LenProperties DEF EntryTypes
<1>2. /\ jobs' \in Seq(Job) /\ Len(jobs') = Len(jobs) + Len(new)
      /\ \A i \in 1..Len(jobs) + Len(new) :
           jobs'[i] = IF i <= Len(jobs) THEN jobs[i] ELSE new[i - Len(jobs)]
  BY ConcatProperties DEF EntryTypes
<1>3. DOMAIN jobs' = 1..Len(jobs) + Len(new)
  BY <1>2, LenProperties
<1>4. ASSUME NEW k \in DOMAIN jobs', k \notin DOMAIN jobs PROVE jobs'[k].at = "check"
  <2>1. k - Len(jobs) \in DOMAIN new /\ jobs'[k] = new[k - Len(jobs)]
    BY <1>1, <1>2, <1>3, <1>4
  <2> QED  BY <2>1
<1>5. \A k \in DOMAIN jobs : k \in DOMAIN jobs' /\ jobs'[k] = jobs[k]
  BY <1>1, <1>2, <1>3
<1> QED  BY <1>2, <1>4, <1>5 DEF Buying

\* The tasks are tasks.
LEMMA JobTypes ==
  ASSUME EntryTypes, NEW j \in DOMAIN jobs
  PROVE  jobs[j] \in Job /\ jobs[j].mint \in PosMints
<1>1. j \in 1..Len(jobs) /\ jobs \in Seq(Job)
  BY LenProperties DEF EntryTypes
<1>2. jobs[j] \in Job
  BY <1>1, ElementOfSeq
<1> QED  BY <1>2 DEF Job

---------------------------------------------------------------------------
\* The price of n buys.
LEMMA PriceOfBuys ==
  ASSUME NEW n \in Int, NEW m \in Int
  PROVE  /\ EstCost * n \in Int /\ EstCost * (n + 1) = EstCost * n + EstCost
         /\ EstCost * (n - 1) = EstCost * n - EstCost
         /\ n <= m => EstCost * n <= EstCost * m
  BY PositionAssumption

\* Marking a position leaves the list as it is but for the mark.
LEMMA MarkedList ==
  ASSUME EntryTypes
  PROVE  /\ Marked \in Seq(Position) /\ DOMAIN Marked = DOMAIN held
         /\ \A i \in DOMAIN held : Marked[i].mint = held[i].mint /\ Marked[i].seeded = held[i].seeded
<1>1. held \in Seq(Position) /\ DOMAIN held = 1..Len(held)
  BY LenProperties DEF EntryTypes
<1>2. CASE monitor.pos \in 1..Len(held)
  <2> DEFINE sold == [held[monitor.pos] EXCEPT !.sold = TRUE]
  <2>1. held[monitor.pos] \in Position
    BY <1>1, <1>2, ElementOfSeq
  <2>2. sold \in Position /\ sold.mint = held[monitor.pos].mint
        /\ sold.seeded = held[monitor.pos].seeded
    BY <2>1 DEF Position
  <2>3. Marked = [held EXCEPT ![monitor.pos] = sold]
    BY DEF Marked
  <2> HIDE DEF sold
  <2>4. /\ Marked \in Seq(Position) /\ Len(Marked) = Len(held)
        /\ \A i \in 1..Len(held) : Marked[i] = IF i = monitor.pos THEN sold ELSE held[i]
    BY <1>1, <1>2, <2>2, <2>3, ExceptSeq
  <2>5. DOMAIN Marked = 1..Len(held)
    BY <2>4, LenProperties
  <2> QED  BY <1>1, <2>2, <2>4, <2>5
<1>3. CASE monitor.pos \notin 1..Len(held)
  <2>1. held \in [1..Len(held) -> Position]
    BY <1>1, LenProperties
  <2>2. Marked = held
    BY <1>1, <1>3, <2>1 DEF Marked
  <2> QED  BY <1>1, <2>2
<1> QED  BY <1>2, <1>3

\* The boot scan puts seeded positions behind what is there.
LEMMA SeedsAreHeld ==
  ASSUME EntryTypes, NEW found \in {tokens, {}}, BootScanStep(found)
  PROVE  /\ held' \in Seq(Position)
         /\ \A i \in DOMAIN held : i \in DOMAIN held' /\ held'[i] = held[i]
         /\ \A i \in DOMAIN held' : i \notin DOMAIN held => held'[i].seeded
<1> DEFINE new   == {m \in found : \A i \in DOMAIN held : held[i].mint # m}
           seeds == {Seed(m) : m \in new}
<1>1. new \subseteq PosMints /\ IsFiniteSet(new)
  BY FS_Subset, PositionAssumption DEF EntryTypes
<1>2. seeds \subseteq Position /\ \A x \in seeds : x.seeded = TRUE
  <2> SUFFICES ASSUME NEW m \in new PROVE Seed(m) \in Position /\ Seed(m).seeded = TRUE
    OBVIOUS
  <2>1. m \in PosMints /\ clock - (HoldTimeout + 1) \in Int
    BY <1>1, PositionAssumption DEF EntryTypes
  <2> QED  BY <2>1 DEF Seed, Position
<1>3. Cardinality(new) \in Nat /\ ExistsBijection(1..Cardinality(new), new)
  BY <1>1, FS_CardinalityType
<1>4. PICK f \in Bijection(1..Cardinality(new), new) : TRUE
  BY <1>3 DEF ExistsBijection
<1>5. f \in [1..Cardinality(new) -> new] /\ \A m \in new : \E i \in 1..Cardinality(new) : f[i] = m
  BY <1>4 DEF Bijection, Surjection
<1> DEFINE g == [i \in 1..Cardinality(new) |-> Seed(f[i])]
           Fits(s) == {s[i] : i \in DOMAIN s} = seeds
<1>6. g \in [1..Cardinality(new) -> seeds] /\ Fits(g)
  BY <1>5
<1>7. BootScanned(found) = CHOOSE s \in [1..Cardinality(new) -> seeds] : Fits(s)
  BY DEF BootScanned
<1> HIDE DEF new, seeds, g, Fits
<1>8. BootScanned(found) \in [1..Cardinality(new) -> seeds]
  BY <1>6, <1>7
<1>9. BootScanned(found) \in Seq(seeds)
  BY <1>3, <1>8, SeqDef
<1> DEFINE s == BootScanned(found)
<1>10. s \in Seq(Position) /\ \A i \in DOMAIN s : s[i].seeded = TRUE
  BY <1>2, <1>8, <1>9, SeqMonotonic
<1> HIDE DEF s
<1>11. /\ DOMAIN held = 1..Len(held) /\ Len(held) \in Nat
       /\ DOMAIN s = 1..Len(s) /\ Len(s) \in Nat
  BY <1>10, LenProperties DEF EntryTypes
<1>12. CASE BootScan
  <2>1. /\ held' \in Seq(Position) /\ Len(held') = Len(held) + Len(s)
        /\ \A i \in 1..Len(held) + Len(s) :
             held'[i] = IF i <= Len(held) THEN held[i] ELSE s[i - Len(held)]
    BY <1>10, <1>12, ConcatProperties DEF BootScanStep, EntryTypes, s
  <2>2. DOMAIN held' = 1..Len(held) + Len(s)
    BY <2>1, LenProperties
  <2>3. ASSUME NEW i \in DOMAIN held', i \notin DOMAIN held PROVE held'[i].seeded
    <3>1. i - Len(held) \in DOMAIN s /\ held'[i] = s[i - Len(held)]
      BY <1>11, <2>1, <2>2, <2>3
    <3> QED  BY <1>10, <3>1
  <2> QED  BY <1>11, <2>1, <2>2, <2>3
<1>13. CASE ~BootScan
  BY <1>13 DEF BootScanStep, EntryTypes
<1> QED  BY <1>12, <1>13

\* Every step keeps the types.
LEMMA TypesStep == EntryTypes /\ [PosNext]_posVars => EntryTypes'
<1> SUFFICES ASSUME EntryTypes, [PosNext]_posVars PROVE EntryTypes'
  OBVIOUS
<1>1. ASSUME NEW m \in PosMints, NEW k \in Kols \cup {NoKol}, SeeBuy(m, k) PROVE EntryTypes'
  <2>1. <<NewJob(m)>> \in Seq(Job) /\ <<>> \in Seq(Job)
    BY DEF NewJob, Job
  <2>2. jobs' \in Seq(Job)
    BY <1>1, <2>1, ConcatProperties DEF SeeBuy, EntryTypes
  <2> QED  BY <1>1, <2>2 DEF SeeBuy, EntryTypes, chainVars
<1>2. ASSUME NEW j \in DOMAIN jobs, NEW bal \in {wallet, 0}, CheckReserve(j, bal) PROVE EntryTypes'
  <2>1. jobs' \in Seq(Job)
    BY <1>2, JobMoves DEF CheckReserve
  <2>2. overlap' \in Nat
    BY <1>2, OutstandingCounted DEF CheckReserve, EntryTypes
  <2> QED  BY <1>2, <2>1, <2>2 DEF CheckReserve, EntryTypes, chainVars
<1>3. ASSUME NEW j \in DOMAIN jobs, BuySkipped(j) PROVE EntryTypes'
  <2>1. jobs' \in Seq(Job)
    BY <1>3, JobMoves DEF BuySkipped
  <2> QED  BY <1>3, <2>1 DEF BuySkipped, EntryTypes, chainVars
<1>4. ASSUME NEW j \in DOMAIN jobs, NEW taken \in BOOLEAN, NEW answered \in BOOLEAN,
             BuySends(j, taken, answered)
      PROVE  EntryTypes'
  <2>1. jobs' \in Seq(Job)
    BY <1>4, JobMoves DEF BuySends
  <2>2. jobs[j].mint \in PosMints
    BY JobTypes
  <2> QED  BY <1>4, <2>1, <2>2 DEF BuySends, EntryTypes
<1>5. ASSUME NEW j \in DOMAIN jobs, PushPosition(j) PROVE EntryTypes'
  <2>1. jobs' \in Seq(Job)
    BY <1>5, JobMoves DEF PushPosition
  <2>2. Bought(j) \in Position
    BY JobTypes DEF EntryTypes, Bought, Position
  <2>3. held' \in Seq(Position)
    BY <1>5, <2>2, AppendProperties DEF PushPosition, LockAndPush, EntryTypes
  <2> QED  BY <1>5, <2>1, <2>3 DEF PushPosition, EntryTypes, chainVars
<1>6. ASSUME NEW found \in {tokens, {}}, BootScanStep(found) PROVE EntryTypes'
  BY <1>6, SeedsAreHeld DEF BootScanStep, EntryTypes, chainVars, jobVars
<1>7. ASSUME UNCHANGED <<clock, jobVars, chainVars>>, held' \in {held, Marked} PROVE EntryTypes'
  BY <1>7, MarkedList DEF EntryTypes, jobVars, chainVars
<1>8. ASSUME NEW readable \in BOOLEAN, NEW read \in BOOLEAN, NEW target \in BOOLEAN,
             Wake \/ ReadCurve(readable) \/ ReadTokens(read, target)
      PROVE  EntryTypes'
  BY <1>7, <1>8 DEF Wake, ReadCurve, ReadTokens
<1>9. ASSUME NEW taken \in BOOLEAN, NEW answered \in BOOLEAN, Sell(taken, answered)
      PROVE  EntryTypes'
  BY <1>9, MarkedList DEF Sell, EntryTypes, jobVars
<1>10. ASSUME NEW m \in PosMints, BuyLands(m) \/ BuyDies(m) PROVE EntryTypes'
  BY <1>10, PositionAssumption DEF BuyLands, BuyDies, EntryTypes, jobVars
<1>11. ASSUME NEW m \in PosMints, NEW landed \in BOOLEAN, SaleDecided(m, landed) PROVE EntryTypes'
  BY <1>11 DEF SaleDecided, EntryTypes, jobVars
<1>12. CASE PosTick
  BY <1>12 DEF PosTick, EntryTypes, jobVars, chainVars
<1>13. CASE UNCHANGED posVars
  BY <1>13 DEF posVars, jobVars, chainVars, EntryTypes
<1> QED
  BY <1>1, <1>2, <1>3, <1>4, <1>5, <1>6, <1>8, <1>9, <1>10, <1>11, <1>12, <1>13 DEF PosNext
---------------------------------------------------------------------------
\* Nothing the entries depend on changes.
LEMMA EntriesKept ==
  ASSUME PosInv, UNCHANGED <<wallet, overlap, jobs, held, booked, untracked>>,
         tokens' \subseteq tokens, UNCHANGED buysOut
  PROVE  (FloorInv /\ EntryInv /\ BuysAreTracked)'
<1>1. Outstanding' = Outstanding
  BY DEF Outstanding
<1> QED  BY <1>1 DEF PosInv, FloorInv, EntryInv, BuysAreTracked

\* Every step keeps the floor, and books a mint before its position is listed.
LEMMA EntriesStep == PosInv /\ [PosNext]_posVars => (FloorInv /\ EntryInv /\ BuysAreTracked)'
<1> SUFFICES ASSUME PosInv, [PosNext]_posVars PROVE (FloorInv /\ EntryInv /\ BuysAreTracked)'
  OBVIOUS
<1> USE DEF PosInv
<1>0. EntryTypes'
  BY TypesStep
<1>1. ASSUME NEW m \in PosMints, NEW k \in Kols \cup {NoKol}, SeeBuy(m, k)
      PROVE  (FloorInv /\ EntryInv /\ BuysAreTracked)'
  <2> DEFINE one == IF Confluence(m, k) THEN <<NewJob(m)>> ELSE <<>>
             two == IF Trending(m) THEN <<NewJob(m)>> ELSE <<>>
  <2>1. one \in Seq(Job) /\ two \in Seq(Job)
    <3>1. <<NewJob(m)>> \in Seq(Job) /\ <<>> \in Seq(Job)
      BY DEF NewJob, Job
    <3> QED  BY <3>1
  <2>2. /\ \A i \in DOMAIN one : one[i].at = "check"
        /\ \A i \in DOMAIN two : two[i].at = "check"
    BY DEF NewJob
  <2>3. jobs' = (jobs \o one) \o two
    BY <1>1 DEF SeeBuy
  <2> HIDE DEF one, two
  <2>4. jobs' = jobs \o (one \o two)
    BY <2>1, <2>3, ConcatAssociative DEF EntryTypes
  <2>5. one \o two \in Seq(Job) /\ \A i \in DOMAIN (one \o two) : (one \o two)[i].at = "check"
    <3>1. /\ one \o two \in Seq(Job) /\ Len(one \o two) = Len(one) + Len(two)
          /\ \A i \in 1..Len(one) + Len(two) :
               (one \o two)[i] = IF i <= Len(one) THEN one[i] ELSE two[i - Len(one)]
      BY <2>1, ConcatProperties
    <3>2. /\ DOMAIN (one \o two) = 1..Len(one) + Len(two) /\ Len(one) \in Nat /\ Len(two) \in Nat
          /\ DOMAIN one = 1..Len(one) /\ DOMAIN two = 1..Len(two)
      BY <2>1, <3>1, LenProperties
    <3>3. ASSUME NEW i \in DOMAIN (one \o two) PROVE (one \o two)[i].at = "check"
      <4>1. CASE i <= Len(one)
        <5>1. i \in DOMAIN one /\ (one \o two)[i] = one[i]
          BY <3>1, <3>2, <4>1
        <5> QED  BY <2>2, <5>1
      <4>2. CASE i > Len(one)
        <5>1. i - Len(one) \in DOMAIN two /\ (one \o two)[i] = two[i - Len(one)]
          BY <3>1, <3>2, <4>2
        <5> QED  BY <2>2, <5>1
      <4> QED  BY <3>2, <4>1, <4>2
    <3> QED  BY <3>1, <3>3
  <2>6. /\ \A j \in DOMAIN jobs : j \in DOMAIN jobs' /\ jobs'[j] = jobs[j]
        /\ \A j \in DOMAIN jobs' : j \notin DOMAIN jobs => jobs'[j].at = "check"
        /\ Buying' = Buying
    BY <2>4, <2>5, JobsJoin
  <2>7. UNCHANGED <<wallet, overlap, held, booked, untracked, tokens, buysOut>>
    BY <1>1 DEF SeeBuy, chainVars
  <2>8. Outstanding' = Outstanding
    BY <1>0, <2>6, <2>7, OutstandingCounted DEF Outstanding, Buying
  <2>9. FloorInv'
    BY <2>7, <2>8 DEF FloorInv
  <2>10. EntryInv'
    BY <2>6, <2>7 DEF EntryInv
  <2>11. BuysAreTracked'
    BY <2>6, <2>7 DEF BuysAreTracked
  <2> QED  BY <2>9, <2>10, <2>11
<1>2. ASSUME NEW j \in DOMAIN jobs, NEW bal \in {wallet, 0}, CheckReserve(j, bal)
      PROVE  (FloorInv /\ EntryInv /\ BuysAreTracked)'
  <2>1. UNCHANGED <<wallet, held, booked, untracked, tokens, buysOut>> /\ jobs[j].at = "check"
    BY <1>2 DEF CheckReserve, chainVars
  <2>2. PICK where \in {"buy", "done"} : JobGoes(j, where) /\ (where = "buy" <=> AboveFloor(bal))
    BY <1>2 DEF CheckReserve
  <2>3. /\ DOMAIN jobs' = DOMAIN jobs /\ jobs'[j].mint = jobs[j].mint /\ jobs'[j].at = where
        /\ \A k \in DOMAIN jobs : k # j => jobs'[k] = jobs[k]
    BY <2>2, JobMoves
  <2>4. EntryInv' /\ BuysAreTracked'
    BY <2>1, <2>2, <2>3 DEF EntryInv, BuysAreTracked
  <2>5. CASE where = "done"
    <3>1. Buying' = Buying /\ overlap' = overlap
      BY <1>2, <2>1, <2>2, <2>5, JobMoves DEF CheckReserve
    <3>2. Outstanding' = Outstanding
      BY <2>1, <3>1 DEF Outstanding, Buying
    <3> QED  BY <2>1, <2>4, <3>1, <3>2 DEF FloorInv
  <2>6. CASE where = "buy"
    <3>1. Buying' = Buying \cup {j} /\ j \notin Buying
      BY <2>1, <2>2, <2>6, JobMoves
    <3>2. Outstanding' = Outstanding + 1 /\ Outstanding \in Nat
      BY <2>1, <3>1, OutstandingCounted, OneMore DEF PosInv
    <3>3. overlap' \in Nat /\ overlap' >= Outstanding
      BY <1>0, <1>2, <2>2, <2>6, <3>2 DEF CheckReserve, EntryTypes
    <3>4. wallet >= EstCost + MinReserve
      BY <2>2, <2>6, PositionAssumption DEF AboveFloor
    <3>5. EstCost * Outstanding' = EstCost * Outstanding + EstCost
          /\ EstCost * Outstanding <= EstCost * overlap'
          /\ EstCost * Outstanding \in Int /\ EstCost * overlap' \in Int
      BY <3>2, <3>3, PriceOfBuys
    <3>6. FloorInv'
      <4>1. wallet' = wallet /\ wallet \in Int /\ MinReserve \in Int /\ EstCost \in Int
        BY <2>1, PositionAssumption DEF EntryTypes
      <4> QED  BY <3>4, <3>5, <4>1 DEF FloorInv
    <3> QED  BY <2>4, <3>6
  <2> QED  BY <2>5, <2>6
<1>3. ASSUME NEW j \in DOMAIN jobs, BuySkipped(j) PROVE (FloorInv /\ EntryInv /\ BuysAreTracked)'
  <2>1. /\ UNCHANGED <<wallet, overlap, held, booked, untracked, tokens, buysOut>>
        /\ jobs[j].at = "buy" /\ JobGoes(j, "done")
    BY <1>3 DEF BuySkipped, chainVars
  <2>2. /\ DOMAIN jobs' = DOMAIN jobs /\ jobs'[j].mint = jobs[j].mint /\ jobs'[j].at = "done"
        /\ \A k \in DOMAIN jobs : k # j => jobs'[k] = jobs[k]
        /\ Buying' = Buying \ {j} /\ j \in Buying
    BY <2>1, JobMoves
  <2>3. Outstanding' = Outstanding - 1 /\ Outstanding \in Nat
    BY <2>1, <2>2, OutstandingCounted, OneLess DEF PosInv
  <2>4. FloorInv'
    BY <2>1, <2>3, PriceOfBuys, PositionAssumption DEF FloorInv, EntryTypes
  <2>5. EntryInv' /\ BuysAreTracked'
    BY <2>1, <2>2 DEF EntryInv, BuysAreTracked
  <2> QED  BY <2>4, <2>5
<1>4. ASSUME NEW j \in DOMAIN jobs, NEW taken \in BOOLEAN, NEW answered \in BOOLEAN,
             BuySends(j, taken, answered)
      PROVE  (FloorInv /\ EntryInv /\ BuysAreTracked)'
  <2> DEFINE m == jobs[j].mint
  <2>1. /\ UNCHANGED <<wallet, overlap, held, tokens>> /\ jobs[j].at = "buy" /\ m \notin booked
        /\ booked' = booked \cup {m}
        /\ buysOut' = IF taken THEN buysOut \cup {m} ELSE buysOut
        /\ untracked' = IF taken /\ ~answered THEN untracked \cup {m} ELSE untracked
    BY <1>4 DEF BuySends, MayBook
  <2>2. PICK where \in {"push", "done"} :
          JobGoes(j, where) /\ (where = "push" <=> taken /\ answered)
    BY <1>4 DEF BuySends
  <2>3. /\ DOMAIN jobs' = DOMAIN jobs /\ jobs'[j].mint = m /\ jobs'[j].at = where
        /\ \A k \in DOMAIN jobs : k # j => jobs'[k] = jobs[k]
        /\ Buying' = Buying \ {j} /\ j \in Buying
    BY <2>1, <2>2, JobMoves
  <2> HIDE DEF m
  <2>4. Cardinality(buysOut') <= Cardinality(buysOut) + 1 /\ Cardinality(buysOut') \in Nat
    <3>1. IsFiniteSet(buysOut) /\ Cardinality(buysOut) \in Nat
      BY OutstandingCounted
    <3>2. Cardinality(buysOut \cup {m}) \in {Cardinality(buysOut), Cardinality(buysOut) + 1}
      BY <3>1, FS_AddElement
    <3> QED  BY <2>1, <3>1, <3>2
  <2>5. Outstanding' <= Outstanding /\ Outstanding' \in Nat /\ Outstanding \in Nat
    <3>1. IsFiniteSet(Buying) /\ Cardinality(Buying) \in Nat /\ Cardinality(buysOut) \in Nat
      BY OutstandingCounted
    <3>2. Cardinality(Buying') = Cardinality(Buying) - 1
      BY <2>3, <3>1, FS_RemoveElement
    <3>3. Cardinality(Buying') \in Nat
      <4>1. IsFiniteSet(Buying')
        BY <2>3, <3>1, FS_RemoveElement
      <4> QED  BY <4>1, FS_CardinalityType
    <3>4. Outstanding' = Cardinality(Buying') + Cardinality(buysOut')
          /\ Outstanding = Cardinality(Buying) + Cardinality(buysOut)
      BY DEF Outstanding, Buying
    <3> QED  BY <2>4, <3>1, <3>2, <3>3, <3>4
  <2>6. FloorInv'
    <3>1. EstCost * Outstanding' <= EstCost * Outstanding
          /\ EstCost * Outstanding' \in Int /\ EstCost * Outstanding \in Int
          /\ EstCost * overlap \in Int
      <4>1. overlap \in Int /\ Outstanding' \in Int /\ Outstanding \in Int
        BY <2>5 DEF EntryTypes
      <4>2. EstCost * Outstanding' <= EstCost * Outstanding
        BY <2>5, <4>1, PriceOfBuys
      <4> QED  BY <4>1, <4>2, PriceOfBuys
    <3>2. wallet' = wallet /\ overlap' = overlap /\ wallet \in Int /\ MinReserve \in Int
      BY <2>1, PositionAssumption DEF EntryTypes
    <3> QED  BY <3>1, <3>2 DEF FloorInv
  <2>7. EntryInv'
    BY <2>1, <2>2, <2>3 DEF EntryInv
  <2>8. BuysAreTracked'
    BY <2>1, <2>2, <2>3 DEF BuysAreTracked
  <2> QED  BY <2>6, <2>7, <2>8
<1>5. ASSUME NEW j \in DOMAIN jobs, PushPosition(j) PROVE (FloorInv /\ EntryInv /\ BuysAreTracked)'
  <2>1. /\ UNCHANGED <<wallet, overlap, booked, untracked, tokens, buysOut>>
        /\ jobs[j].at = "push" /\ JobGoes(j, "done")
        /\ held' = Append(held, Bought(j))
    BY <1>5 DEF PushPosition, LockAndPush, chainVars
  <2>2. /\ DOMAIN jobs' = DOMAIN jobs /\ jobs'[j].mint = jobs[j].mint /\ jobs'[j].at = "done"
        /\ \A k \in DOMAIN jobs : k # j => jobs'[k] = jobs[k]
        /\ Buying' = Buying
    BY <2>1, JobMoves
  <2>3. Bought(j) \in Position /\ Bought(j).mint = jobs[j].mint /\ ~Bought(j).seeded
    BY JobTypes DEF EntryTypes, Bought, Position
  <2>4. /\ Len(held') = Len(held) + 1 /\ held'[Len(held) + 1] = Bought(j)
        /\ \A i \in 1..Len(held) : held'[i] = held[i]
        /\ DOMAIN held = 1..Len(held) /\ Len(held) \in Nat /\ DOMAIN held' = 1..Len(held) + 1
    BY <1>0, <2>1, <2>3, AppendProperties, LenProperties DEF EntryTypes
  <2>5. Outstanding' = Outstanding
    BY <2>1, <2>2 DEF Outstanding, Buying
  <2>6. FloorInv'
    BY <2>1, <2>5 DEF FloorInv
  <2>7. \A i \in DOMAIN held' : (i \in DOMAIN held /\ held'[i] = held[i])
                               \/ (i = Len(held) + 1 /\ held'[i] = Bought(j))
    BY <2>4
  <2>8. EntryInv'
    BY <2>1, <2>2, <2>3, <2>7 DEF EntryInv
  <2>9. BuysAreTracked'
    BY <2>1, <2>2, <2>3, <2>4 DEF BuysAreTracked
  <2> QED  BY <2>6, <2>8, <2>9
<1>6. ASSUME NEW found \in {tokens, {}}, BootScanStep(found)
      PROVE  (FloorInv /\ EntryInv /\ BuysAreTracked)'
  <2>1. UNCHANGED <<wallet, overlap, jobs, booked, untracked, tokens, buysOut>>
    BY <1>6 DEF BootScanStep, jobVars, chainVars
  <2>2. /\ \A i \in DOMAIN held : i \in DOMAIN held' /\ held'[i] = held[i]
        /\ \A i \in DOMAIN held' : i \notin DOMAIN held => held'[i].seeded
    BY <1>6, SeedsAreHeld
  <2>3. Outstanding' = Outstanding
    BY <2>1 DEF Outstanding
  <2> QED  BY <2>1, <2>2, <2>3 DEF FloorInv, EntryInv, BuysAreTracked
<1>7. ASSUME UNCHANGED <<jobVars, wallet, tokens, buysOut>>, held' \in {held, Marked}
      PROVE  (FloorInv /\ EntryInv /\ BuysAreTracked)'
  <2>1. /\ DOMAIN held' = DOMAIN held
        /\ \A i \in DOMAIN held : held'[i].mint = held[i].mint /\ held'[i].seeded = held[i].seeded
    BY <1>7, MarkedList
  <2>2. UNCHANGED <<wallet, overlap, jobs, booked, untracked, tokens, buysOut>>
    BY <1>7 DEF jobVars
  <2>3. Outstanding' = Outstanding
    BY <2>2 DEF Outstanding
  <2> QED  BY <2>1, <2>2, <2>3 DEF FloorInv, EntryInv, BuysAreTracked
<1>8. ASSUME NEW readable \in BOOLEAN, NEW read \in BOOLEAN, NEW target \in BOOLEAN,
             Wake \/ ReadCurve(readable) \/ ReadTokens(read, target)
      PROVE  (FloorInv /\ EntryInv /\ BuysAreTracked)'
  BY <1>7, <1>8 DEF Wake, ReadCurve, ReadTokens, chainVars
<1>9. ASSUME NEW taken \in BOOLEAN, NEW answered \in BOOLEAN, Sell(taken, answered)
      PROVE  (FloorInv /\ EntryInv /\ BuysAreTracked)'
  BY <1>7, <1>9 DEF Sell
<1>10. ASSUME NEW m \in PosMints, BuyLands(m) \/ BuyDies(m)
       PROVE  (FloorInv /\ EntryInv /\ BuysAreTracked)'
  <2>1. /\ UNCHANGED <<overlap, jobs, held, booked, untracked>>
        /\ m \in buysOut /\ buysOut' = buysOut \ {m}
        /\ wallet' \in {wallet, wallet - EstCost}
        /\ tokens' \subseteq tokens \cup {m}
    BY <1>10 DEF BuyLands, BuyDies, jobVars
  <2>2. Outstanding' = Outstanding - 1 /\ Outstanding \in Nat
    <3>1. IsFiniteSet(buysOut) /\ Cardinality(Buying) \in Nat /\ Cardinality(buysOut) \in Nat
          /\ Outstanding \in Nat
      BY OutstandingCounted
    <3>2. Cardinality(buysOut') = Cardinality(buysOut) - 1
      BY <2>1, <3>1, FS_RemoveElement
    <3>3. Buying' = Buying
      BY <2>1 DEF Buying
    <3>4. Outstanding' = Cardinality(Buying') + Cardinality(buysOut')
          /\ Outstanding = Cardinality(Buying) + Cardinality(buysOut)
      BY DEF Outstanding, Buying
    <3> QED  BY <3>1, <3>2, <3>3, <3>4
  <2>3. FloorInv'
    BY <2>1, <2>2, PriceOfBuys, PositionAssumption DEF FloorInv, EntryTypes
  <2> QED  BY <2>1, <2>3 DEF EntryInv, BuysAreTracked
<1>11. ASSUME NEW m \in PosMints, NEW landed \in BOOLEAN, SaleDecided(m, landed)
       PROVE  (FloorInv /\ EntryInv /\ BuysAreTracked)'
  BY <1>11, EntriesKept DEF SaleDecided, jobVars
<1>12. CASE PosTick
  BY <1>12, EntriesKept DEF PosTick, jobVars, chainVars
<1>13. CASE UNCHANGED posVars
  BY <1>13, EntriesKept DEF posVars, jobVars, chainVars
<1> QED
  BY <1>1, <1>2, <1>3, <1>4, <1>5, <1>6, <1>8, <1>9, <1>10, <1>11, <1>12, <1>13 DEF PosNext

\* scout.rs, the trending and copy-trade detectors and the position monitor: for any
\* wallet, mints and number of buys under way, the wallet keeps its floor but for the
\* buys that overlapped, a mint is entered once, and what was bought is tracked.
THEOREM EntriesCorrect == PosSpec => []EntriesTracked
<1>1. PosInv => EntriesTracked
  <2> SUFFICES ASSUME PosInv PROVE EntriesTracked
    OBVIOUS
  <2>1. FloorOvershoot
    <3>1. Outstanding \in Nat
      BY OutstandingCounted DEF PosInv
    <3>2. EstCost * Outstanding >= 0 /\ EstCost * Outstanding \in Int /\ EstCost * overlap \in Int
      BY <3>1, PriceOfBuys, PositionAssumption DEF PosInv, EntryTypes
    <3> QED  BY <3>2, PositionAssumption DEF PosInv, FloorInv, FloorOvershoot, EntryTypes
  <2>2. OneEntryPerMint
    BY DEF PosInv, EntryInv, OneEntryPerMint
  <2> QED  BY <2>1, <2>2 DEF PosInv, EntriesTracked
<1>2. PosInv /\ [PosNext]_posVars => PosInv'
  BY TypesStep, EntriesStep DEF PosInv
<1> QED  BY <1>1, <1>2, PosInitInv, PTL DEF PosSpec

---------------------------------------------------------------------------
\* Where the task of a pool may be.
TaskPlaces == {"unseen", "noSol", "age", "stale", "failed", "depth", "shallow", "given up",
               "owner", "quote", "swap", "sim", "send", "dry run", "done"}

\* Tasks that no counter shows yet, and those that never will be.
Undecided == {p \in Pools : taskAt[p] \in {"age", "depth", "failed"}}

\* Types of the feeds, the tasks and the counters.
WatchTypes ==
  /\ taskAt \in [Pools -> TaskPlaces] /\ updates \in Seq(Pools)
  /\ DOMAIN program = Pools /\ DOMAIN probe = Pools /\ DOMAIN flying = TargetMints
  /\ watchStats \in [{"new", "stale", "lowQuote", "noSol", "candidates"} -> Int]
  /\ warmed = [done |-> warmed.done, pools |-> warmed.pools]

\* What a task knows at each gate it passed.
GatesPassed ==
  /\ fired \subseteq {p \in Pools : taskAt[p] = "done"}
  /\ \A p \in Pools : taskAt[p] \in {"depth", "done"} \cup Trading => PageReaches[p] <= FreshMaxAge
  /\ \A p \in Pools : taskAt[p] \in {"done"} \cup Trading => probe[p] \in MinProbe..ProbeCeiling
  /\ \A p \in Pools : taskAt[p] \in {"send", "done"} => program[p] = TokenProgram(TargetMint[p])

\* Who trades a dead-lettered mint was under way when it became one.
DeadLetters ==
  \A p \in Pools : taskAt[p] \in Trading /\ TargetMint[p] \in dead => p \in flying[TargetMint[p]]

\* What was listed is on its way, and what the first listing held is not.
Listings ==
  /\ listed \subseteq (IF mode.native THEN {} ELSE warmed.pools) \cup pushing \cup Range(updates) \cup watched
  /\ ~mode.native => pushing \cap warmed.pools = {}
  /\ warmed.pools \subseteq listed /\ (~warmed.done => warmed.pools = {})

\* A pool nobody took has no task, and the others are in one counter.
PoolsCounted ==
  /\ \A p \in Pools \ watched : taskAt[p] = "unseen"
  /\ watchStats.new = watchStats.noSol + watchStats.stale + watchStats.lowQuote
                        + watchStats.candidates + Cardinality(Undecided)

\* The inductive invariant.
WatchInv == WatchTypes /\ GatesPassed /\ DeadLetters /\ Listings /\ PoolsCounted

\* They can be counted.
LEMMA UndecidedFinite == IsFiniteSet(Undecided) /\ Cardinality(Undecided) \in Nat
<1>1. Undecided \subseteq Pools
  BY DEF Undecided
<1> QED  BY <1>1, WatchAssumption, FS_Subset, FS_CardinalityType

\* Nothing is watched at the start.
LEMMA WatchInitInv == WatchInit => WatchInv
<1> SUFFICES ASSUME WatchInit PROVE WatchInv
  OBVIOUS
<1>1. WatchTypes
  BY DEF WatchInit, WatchTypes, TaskPlaces
<1>2. GatesPassed /\ DeadLetters
  BY DEF WatchInit, GatesPassed, DeadLetters, Trading
<1>3. Listings
  BY DEF WatchInit, Listings
<1>4. PoolsCounted
  <2>1. Undecided = {} /\ Cardinality({}) = 0
    BY FS_EmptySet DEF WatchInit, Undecided
  <2> QED  BY <2>1 DEF WatchInit, PoolsCounted
<1> QED  BY <1>1, <1>2, <1>3, <1>4 DEF WatchInv

\* A task that goes from one gate to another.
LEMMA TaskMoves ==
  ASSUME WatchTypes, NEW p \in Pools, NEW s \in TaskPlaces, Move(p, s)
  PROVE  /\ taskAt' \in [Pools -> TaskPlaces] /\ taskAt'[p] = s
         /\ \A q \in Pools : q # p => taskAt'[q] = taskAt[q]
  BY DEF WatchTypes, Move

\* A task leaves the undecided ones with the counter that says why.
LEMMA UndecidedMoves ==
  ASSUME WatchTypes, NEW p \in Pools, NEW s \in TaskPlaces, Move(p, s)
  PROVE  /\ taskAt[p] \in {"age", "depth", "failed"} /\ s \notin {"age", "depth", "failed"}
              => Cardinality(Undecided') = Cardinality(Undecided) - 1
         /\ (taskAt[p] \in {"age", "depth", "failed"} <=> s \in {"age", "depth", "failed"})
              => Undecided' = Undecided
<1>1. /\ taskAt'[p] = s /\ \A q \in Pools : q # p => taskAt'[q] = taskAt[q]
  BY TaskMoves
<1>2. ASSUME taskAt[p] \in {"age", "depth", "failed"} <=> s \in {"age", "depth", "failed"}
      PROVE  Undecided' = Undecided
  BY <1>1, <1>2 DEF Undecided
<1>3. ASSUME taskAt[p] \in {"age", "depth", "failed"}, s \notin {"age", "depth", "failed"}
      PROVE  Cardinality(Undecided') = Cardinality(Undecided) - 1
  <2>1. Undecided' = Undecided \ {p} /\ p \in Undecided
    BY <1>1, <1>3 DEF Undecided
  <2> QED  BY <2>1, UndecidedFinite, FS_RemoveElement
<1> QED  BY <1>2, <1>3

\* A counter goes up by one and the others stay.
LEMMA CountType ==
  ASSUME WatchTypes, NEW k \in {"new", "stale", "lowQuote", "noSol", "candidates"}, Count(k)
  PROVE  /\ watchStats' \in [{"new", "stale", "lowQuote", "noSol", "candidates"} -> Int]
         /\ watchStats'[k] = watchStats[k] + 1
         /\ \A l \in {"new", "stale", "lowQuote", "noSol", "candidates"} :
              l # k => watchStats'[l] = watchStats[l]
  BY DEF WatchTypes, Count

\* The feeds.
LEMMA FeedStep ==
  ASSUME WatchInv,
         \/ \E p \in Pools : PoolCreated(p) \/ PoolWritten(p) \/ Push(p)
         \/ StreamOpens \/ StreamEnds \/ Alert
  PROVE  WatchInv'
<1>1. UNCHANGED <<mode, watched, taskAt, probe, program, owners, dead, flying, fired, watchStats>>
  BY DEF PoolCreated, PoolWritten, Push, StreamOpens, StreamEnds, Alert, feedVars, tradeVars
<1>2. GatesPassed' /\ DeadLetters' /\ PoolsCounted'
  BY <1>1 DEF WatchInv, GatesPassed, DeadLetters, PoolsCounted, Undecided
<1>3. ASSUME NEW p \in Pools, PoolWritten(p) \/ Push(p)
      PROVE  updates' \in Seq(Pools) /\ Range(updates') = Range(updates) \cup {p}
  <2>1. updates' = Append(updates, p) /\ updates \in Seq(Pools)
    BY <1>3 DEF PoolWritten, Push, Offer, WatchInv, WatchTypes
  <2> QED  BY <2>1 DEF Range
<1>4. ASSUME NEW p \in Pools, PoolCreated(p) PROVE WatchInv'
  BY <1>1, <1>2, <1>4 DEF PoolCreated, feedVars, WatchInv, WatchTypes, Listings
<1>5. ASSUME NEW p \in Pools, PoolWritten(p) PROVE WatchInv'
  BY <1>1, <1>2, <1>3, <1>5 DEF PoolWritten, WatchInv, WatchTypes, Listings
<1>6. ASSUME NEW p \in Pools, Push(p) PROVE WatchInv'
  BY <1>1, <1>2, <1>3, <1>6 DEF Push, WatchInv, WatchTypes, Listings
<1>7. CASE StreamOpens \/ StreamEnds
  BY <1>1, <1>2, <1>7 DEF StreamOpens, StreamEnds, WatchInv, WatchTypes, Listings
<1>8. CASE Alert
  <2>1. /\ pushing = {} /\ listed' = listed \cup onChain /\ updates' = updates
        /\ pushing' = IF mode.native \/ warmed.done THEN onChain \ listed ELSE {}
        /\ warmed' = IF warmed.done THEN warmed ELSE [done |-> TRUE, pools |-> onChain]
    BY <1>8 DEF Alert
  <2>2. Listings'
    BY <1>1, <2>1 DEF WatchInv, WatchTypes, Listings
  <2> QED  BY <1>1, <1>2, <2>1, <2>2 DEF WatchInv, WatchTypes
<1> QED  BY <1>4, <1>5, <1>6, <1>7, <1>8

\* The consumer takes a pool off the channel and starts its task once.
LEMMA ConsumeStep == WatchInv /\ Consume => WatchInv'
<1> SUFFICES ASSUME WatchInv, Consume PROVE WatchInv'
  OBVIOUS
<1> DEFINE p == Head(updates)
<1>1. /\ updates \in Seq(Pools) /\ updates # <<>> /\ p \in Pools
      /\ updates' = Tail(updates) /\ updates' \in Seq(Pools)
      /\ Range(updates) \subseteq Range(updates') \cup {p} /\ watched' = watched \cup {p}
  <2>1. updates \in Seq(Pools) /\ updates # <<>> /\ updates' = Tail(updates)
        /\ watched' = watched \cup {p}
    BY DEF Consume, WatchInv, WatchTypes
  <2>2. ASSUME NEW i \in DOMAIN updates, i # 1
        PROVE  i - 1 \in DOMAIN Tail(updates) /\ Tail(updates)[i - 1] = updates[i]
    BY <2>1, <2>2
  <2>3. Head(updates) = updates[1] /\ Head(updates) \in Pools /\ Tail(updates) \in Seq(Pools)
    BY <2>1
  <2>4. Range(updates) \subseteq Range(Tail(updates)) \cup {Head(updates)}
    BY <2>2, <2>3 DEF Range
  <2> QED  BY <2>1, <2>3, <2>4
<1>2. UNCHANGED <<mode, listed, warmed, pushing, probe, program, owners, dead, flying, fired>>
  BY DEF Consume, tradeVars
<1> HIDE DEF p
<1>3. Listings'
  BY <1>1, <1>2 DEF WatchInv, Listings
<1>4. CASE p \in watched
  <2>1. UNCHANGED <<taskAt, watchStats>>
    BY <1>4 DEF Consume, p
  <2>2. GatesPassed' /\ DeadLetters' /\ PoolsCounted'
    BY <1>1, <1>2, <1>4, <2>1 DEF WatchInv, GatesPassed, DeadLetters, PoolsCounted, Undecided
  <2> QED  BY <1>1, <1>2, <1>3, <2>1, <2>2 DEF WatchInv, WatchTypes
<1>5. CASE p \notin watched
  <2> DEFINE s == IF p \in mode.sol THEN "age" ELSE "noSol"
  <2>1. /\ taskAt[p] = "unseen" /\ Move(p, s) /\ s \in TaskPlaces
        /\ watchStats' = [watchStats EXCEPT !.new = @ + 1,
                                            !.noSol = @ + (IF p \in mode.sol THEN 0 ELSE 1)]
    BY <1>1, <1>5 DEF Consume, p, WatchInv, PoolsCounted, Move, TaskPlaces
  <2>2. /\ taskAt' \in [Pools -> TaskPlaces] /\ taskAt'[p] = s
        /\ \A q \in Pools : q # p => taskAt'[q] = taskAt[q]
    BY <1>1, <2>1, TaskMoves DEF WatchInv
  <2>3. GatesPassed' /\ DeadLetters'
    BY <1>1, <1>2, <2>1, <2>2 DEF WatchInv, GatesPassed, DeadLetters, Trading
  <2>4. /\ watchStats' \in [{"new", "stale", "lowQuote", "noSol", "candidates"} -> Int]
        /\ watchStats'.new = watchStats.new + 1
        /\ watchStats'.noSol = watchStats.noSol + (IF p \in mode.sol THEN 0 ELSE 1)
        /\ watchStats'.stale = watchStats.stale /\ watchStats'.lowQuote = watchStats.lowQuote
        /\ watchStats'.candidates = watchStats.candidates
    <3>1. watchStats \in [{"new", "stale", "lowQuote", "noSol", "candidates"} -> Int]
      BY DEF WatchInv, WatchTypes
    <3>2. PICK more \in Int : more = IF p \in mode.sol THEN 0 ELSE 1
      OBVIOUS
    <3>3. watchStats' = [watchStats EXCEPT !.new = @ + 1, !.noSol = @ + more]
      BY <2>1, <3>2
    <3>4. /\ watchStats' \in [{"new", "stale", "lowQuote", "noSol", "candidates"} -> Int]
          /\ watchStats'.new = watchStats.new + 1 /\ watchStats'.noSol = watchStats.noSol + more
          /\ watchStats'.stale = watchStats.stale /\ watchStats'.lowQuote = watchStats.lowQuote
          /\ watchStats'.candidates = watchStats.candidates
      <4> DEFINE mid == [watchStats EXCEPT !.new = @ + 1]
      <4>1. /\ mid \in [{"new", "stale", "lowQuote", "noSol", "candidates"} -> Int]
            /\ mid["new"] = watchStats["new"] + 1 /\ mid["noSol"] = watchStats["noSol"]
            /\ mid["stale"] = watchStats["stale"] /\ mid["lowQuote"] = watchStats["lowQuote"]
            /\ mid["candidates"] = watchStats["candidates"]
        BY <3>1
      <4>2. watchStats' = [mid EXCEPT !.noSol = @ + more]
        BY <3>1, <3>3
      <4> HIDE DEF mid
      <4> QED  BY <4>1, <4>2
    <3> QED  BY <3>2, <3>4
  <2>5. Cardinality(Undecided') = Cardinality(Undecided) + (IF p \in mode.sol THEN 1 ELSE 0)
    <3>1. CASE p \in mode.sol
      <4>1. Undecided' = Undecided \cup {p} /\ p \notin Undecided
        BY <1>1, <2>1, <2>2, <3>1 DEF Undecided
      <4> QED  BY <3>1, <4>1, UndecidedFinite, FS_AddElement
    <3>2. CASE p \notin mode.sol
      <4>1. Undecided' = Undecided
        BY <1>1, <2>1, <2>2, <3>2 DEF Undecided
      <4> QED  BY <3>2, <4>1, UndecidedFinite
    <3> QED  BY <3>1, <3>2
  <2>6. PoolsCounted'
    <3>1. /\ {watchStats.new, watchStats.noSol, watchStats.stale, watchStats.lowQuote,
              watchStats.candidates} \subseteq Int
          /\ watchStats.new = watchStats.noSol + watchStats.stale + watchStats.lowQuote
                                + watchStats.candidates + Cardinality(Undecided)
      BY DEF WatchInv, WatchTypes, PoolsCounted
    <3>2. watchStats'.new = watchStats'.noSol + watchStats'.stale + watchStats'.lowQuote
                              + watchStats'.candidates + Cardinality(Undecided')
      <4>1. Cardinality(Undecided) \in Int
        BY UndecidedFinite
      <4>2. CASE p \in mode.sol
        BY <2>4, <2>5, <3>1, <4>1, <4>2
      <4>3. CASE p \notin mode.sol
        BY <2>4, <2>5, <3>1, <4>1, <4>3
      <4> QED  BY <4>2, <4>3
    <3>3. \A q \in Pools \ watched' : taskAt'[q] = "unseen"
      BY <1>1, <2>2 DEF WatchInv, PoolsCounted
    <3> QED  BY <3>2, <3>3 DEF PoolsCounted
  <2> QED  BY <1>1, <1>2, <1>3, <2>2, <2>3, <2>4, <2>6 DEF WatchInv, WatchTypes
<1> QED  BY <1>4, <1>5

\* A task's step touches no feed; the counters follow it out of the undecided.
LEMMA TaskStep ==
  ASSUME WatchInv, NEW p \in Pools, taskAt[p] # "unseen", NEW s \in TaskPlaces, Move(p, s),
         UNCHANGED <<mode, onChain, feedVars, watched>>,
         DOMAIN program' = Pools, DOMAIN probe' = Pools, DOMAIN flying' = TargetMints,
         \/ /\ UNCHANGED watchStats
            /\ taskAt[p] \in {"age", "depth", "failed"} <=> s \in {"age", "depth", "failed"}
         \/ /\ \E k \in {"stale", "lowQuote", "candidates"} : Count(k)
            /\ taskAt[p] \in {"age", "depth"} /\ s \notin {"age", "depth", "failed"}
  PROVE  WatchTypes' /\ Listings' /\ PoolsCounted'
<1>1. /\ taskAt' \in [Pools -> TaskPlaces] /\ taskAt'[p] = s
      /\ \A q \in Pools : q # p => taskAt'[q] = taskAt[q]
  BY TaskMoves DEF WatchInv
<1>2. Listings' /\ updates' = updates /\ warmed' = warmed /\ watched' = watched
  BY DEF WatchInv, Listings, feedVars
<1>3. \A q \in Pools \ watched' : taskAt'[q] = "unseen"
  BY <1>1, <1>2 DEF WatchInv, PoolsCounted
<1>4. CASE /\ UNCHANGED watchStats
           /\ taskAt[p] \in {"age", "depth", "failed"} <=> s \in {"age", "depth", "failed"}
  <2>1. Undecided' = Undecided
    BY <1>4, UndecidedMoves DEF WatchInv
  <2>2. PoolsCounted'
    BY <1>3, <1>4, <2>1 DEF WatchInv, PoolsCounted
  <2> QED  BY <1>1, <1>2, <1>4, <2>2 DEF WatchInv, WatchTypes
<1>5. ASSUME NEW k \in {"stale", "lowQuote", "candidates"}, Count(k),
             taskAt[p] \in {"age", "depth"}, s \notin {"age", "depth", "failed"}
      PROVE  WatchTypes' /\ Listings' /\ PoolsCounted'
  <2>1. Cardinality(Undecided') = Cardinality(Undecided) - 1 /\ Cardinality(Undecided) \in Int
    BY <1>5, UndecidedMoves, UndecidedFinite DEF WatchInv
  <2>2. /\ watchStats' \in [{"new", "stale", "lowQuote", "noSol", "candidates"} -> Int]
        /\ watchStats'[k] = watchStats[k] + 1
        /\ \A l \in {"new", "stale", "lowQuote", "noSol", "candidates"} :
             l # k => watchStats'[l] = watchStats[l]
    BY <1>5, CountType DEF WatchInv
  <2>3. /\ \A l \in {"new", "stale", "lowQuote", "noSol", "candidates"} : watchStats[l] \in Int
        /\ watchStats["new"] = watchStats["noSol"] + watchStats["stale"] + watchStats["lowQuote"]
                                 + watchStats["candidates"] + Cardinality(Undecided)
    BY DEF WatchInv, WatchTypes, PoolsCounted
  <2>4. watchStats'["new"] = watchStats'["noSol"] + watchStats'["stale"] + watchStats'["lowQuote"]
                               + watchStats'["candidates"] + Cardinality(Undecided')
    BY <2>1, <2>2, <2>3
  <2>5. PoolsCounted'
    BY <1>3, <2>4 DEF PoolsCounted
  <2> QED  BY <1>1, <1>2, <2>2, <2>5 DEF WatchInv, WatchTypes
<1> QED  BY <1>4, <1>5

\* adaptive_probe stays under its ceiling, whatever the depth.
LEMMA ProbeBelowCeiling ==
  ASSUME NEW d \in Depths, ~(AdaptiveProbe(d) < MinProbe)
  PROVE  AdaptiveProbe(d) \in MinProbe..ProbeCeiling
<1>1. d \in Int /\ ProbeCeiling \in Int /\ ProbePct \in Int /\ MinProbe \in Int
  BY WatchAssumption
<1> DEFINE share == (d * ProbePct) \div 100
<1>2. share \in Int
  <2>1. d * ProbePct \in Int
    BY <1>1
  <2> QED  BY <2>1
<1>3. AdaptiveProbe(d) = IF share < ProbeCeiling THEN share ELSE ProbeCeiling
  BY DEF AdaptiveProbe
<1> HIDE DEF share
<1> QED  BY <1>1, <1>2, <1>3

\* The gates in front of a trade: age, then depth and dead letters.
LEMMA GateStep ==
  ASSUME WatchInv, NEW p \in Pools, ProbeAge(p) \/ ProbeDepth(p)
  PROVE  WatchInv'
<1> USE DEF TaskPlaces
<1>1. CASE ProbeAge(p)
  <2>1. /\ taskAt[p] = "age"
        /\ UNCHANGED <<mode, onChain, feedVars, watched, probe, program, owners, dead, flying, fired>>
    BY <1>1 DEF ProbeAge, tradeVars
  <2>2. PICK s \in {"failed", "stale", "depth"} :
          /\ Move(p, s) /\ (s = "depth" => PageReaches[p] <= FreshMaxAge)
          /\ IF s = "stale" THEN Count("stale") ELSE UNCHANGED watchStats
    BY <1>1 DEF ProbeAge, PageAge
  <2>3. /\ taskAt'[p] = s /\ \A q \in Pools : q # p => taskAt'[q] = taskAt[q]
    BY <2>2, TaskMoves DEF WatchInv
  <2>4. GatesPassed' /\ DeadLetters'
    BY <2>1, <2>2, <2>3 DEF WatchInv, GatesPassed, DeadLetters, Trading
  <2>5. WatchTypes' /\ Listings' /\ PoolsCounted'
    BY <2>1, <2>2, TaskStep DEF WatchInv, WatchTypes
  <2> QED  BY <2>4, <2>5 DEF WatchInv
<1>2. CASE ProbeDepth(p)
  <2>1. /\ taskAt[p] = "depth"
        /\ UNCHANGED <<mode, onChain, feedVars, watched, program, owners, dead, flying, fired>>
    BY <1>2 DEF ProbeDepth
  <2>2. PICK s \in {"failed", "shallow", "given up", "owner"} :
          /\ Move(p, s)
          /\ \/ s = "failed" /\ UNCHANGED <<watchStats, probe>>
             \/ s = "shallow" /\ Count("lowQuote") /\ UNCHANGED probe
             \/ /\ s \in {"given up", "owner"} /\ Count("candidates")
                /\ s = "owner" => TargetMint[p] \notin dead
                /\ \E d \in Depths : /\ ~(AdaptiveProbe(d) < MinProbe)
                                     /\ probe' = [probe EXCEPT ![p] = AdaptiveProbe(d)]
    <3>1. CASE Move(p, "failed") /\ UNCHANGED <<watchStats, probe>>
      BY <3>1
    <3>2. ASSUME NEW d \in Depths,
                 IF d < MinQuote \/ AdaptiveProbe(d) < MinProbe
                 THEN Move(p, "shallow") /\ Count("lowQuote") /\ UNCHANGED probe
                 ELSE /\ Count("candidates")
                      /\ probe' = [probe EXCEPT ![p] = AdaptiveProbe(d)]
                      /\ Move(p, IF TargetMint[p] \in dead THEN "given up" ELSE "owner")
          PROVE  \E s \in {"failed", "shallow", "given up", "owner"} :
                   /\ Move(p, s)
                   /\ \/ s = "failed" /\ UNCHANGED <<watchStats, probe>>
                      \/ s = "shallow" /\ Count("lowQuote") /\ UNCHANGED probe
                      \/ /\ s \in {"given up", "owner"} /\ Count("candidates")
                         /\ s = "owner" => TargetMint[p] \notin dead
                         /\ \E e \in Depths : /\ ~(AdaptiveProbe(e) < MinProbe)
                                              /\ probe' = [probe EXCEPT ![p] = AdaptiveProbe(e)]
      <4>1. CASE d < MinQuote \/ AdaptiveProbe(d) < MinProbe
        BY <3>2, <4>1
      <4>2. CASE ~(d < MinQuote \/ AdaptiveProbe(d) < MinProbe) /\ TargetMint[p] \in dead
        BY <3>2, <4>2
      <4>3. CASE ~(d < MinQuote \/ AdaptiveProbe(d) < MinProbe) /\ TargetMint[p] \notin dead
        BY <3>2, <4>3
      <4> QED  BY <4>1, <4>2, <4>3
    <3> QED  BY <1>2, <3>1, <3>2 DEF ProbeDepth
  <2>3. /\ taskAt'[p] = s /\ \A q \in Pools : q # p => taskAt'[q] = taskAt[q]
    BY <2>2, TaskMoves DEF WatchInv
  <2>4. /\ DOMAIN probe' = Pools /\ \A q \in Pools : q # p => probe'[q] = probe[q]
        /\ s = "owner" => probe'[p] \in MinProbe..ProbeCeiling
    <3>1. DOMAIN probe = Pools
      BY DEF WatchInv, WatchTypes
    <3>2. ASSUME NEW d \in Depths, ~(AdaptiveProbe(d) < MinProbe)
          PROVE  AdaptiveProbe(d) \in MinProbe..ProbeCeiling
      BY <3>2, ProbeBelowCeiling
    <3> QED  BY <2>2, <3>1, <3>2
  <2>5. GatesPassed' /\ DeadLetters'
    <3>1. (s \in Trading => s = "owner") /\ s \notin {"depth", "done"} /\ GatesPassed /\ DeadLetters
      BY DEF WatchInv, Trading
    <3>2. GatesPassed'
      <4>1. PageReaches[p] <= FreshMaxAge
        BY <2>1, <3>1 DEF GatesPassed
      <4> QED  BY <2>1, <2>3, <2>4, <3>1, <4>1 DEF GatesPassed, Trading
    <3>3. DeadLetters'
      BY <2>1, <2>2, <2>3, <3>1 DEF DeadLetters, Trading
    <3> QED  BY <3>2, <3>3
  <2>6. WatchTypes' /\ Listings' /\ PoolsCounted'
    BY <2>1, <2>2, <2>4, TaskStep DEF WatchInv, WatchTypes
  <2> QED  BY <2>5, <2>6 DEF WatchInv
<1> QED  BY <1>1, <1>2

\* The trade.
LEMMA TradeStep ==
  ASSUME WatchInv, NEW p \in Pools, FindOwner(p) \/ Quote(p) \/ Build(p) \/ Send(p)
  PROVE  WatchInv'
<1> USE DEF TaskPlaces
<1>1. /\ UNCHANGED <<mode, onChain, feedVars, watched, probe, dead, flying, watchStats>>
      /\ DOMAIN program' = Pools /\ \A q \in Pools : q # p => program'[q] = program[q]
      /\ fired' \subseteq fired \cup (IF taskAt[p] = "send" THEN {p} ELSE {})
  BY DEF FindOwner, Quote, Build, Send, tradeVars, WatchInv, WatchTypes
<1>2. PICK s \in {"quote", "swap", "sim", "given up", "done"} :
        /\ Move(p, s) /\ taskAt[p] \in Trading
        /\ s = "done" <=> taskAt[p] = "send"
        /\ taskAt[p] = "send" => program' = program
  BY DEF FindOwner, Quote, Build, Send, Trading, tradeVars
<1>3. /\ taskAt'[p] = s /\ \A q \in Pools : q # p => taskAt'[q] = taskAt[q]
  BY <1>2, TaskMoves DEF WatchInv
<1>4. GatesPassed' /\ DeadLetters'
  BY <1>1, <1>2, <1>3 DEF WatchInv, GatesPassed, DeadLetters, Trading
<1>5. WatchTypes' /\ Listings' /\ PoolsCounted'
  BY <1>1, <1>2, TaskStep DEF WatchInv, WatchTypes, Trading
<1> QED  BY <1>4, <1>5 DEF WatchInv

\* A failed simulation dead-letters the mint under everyone else who trades it.
LEMMA SimulateStep ==
  ASSUME WatchInv, NEW p \in Pools, Simulate(p)
  PROVE  WatchInv'
<1> USE DEF TaskPlaces
<1> DEFINE m == TargetMint[p]
           under == {q \in Pools \ {p} : taskAt[q] \in Trading /\ TargetMint[q] = m}
<1>1. /\ taskAt[p] = "sim"
      /\ UNCHANGED <<mode, onChain, feedVars, watched, probe, program, owners, fired, watchStats>>
  BY DEF Simulate
<1>2. PICK s \in {"given up", "send", "dry run"} :
        /\ Move(p, s)
        /\ s = "send" => program[p] = TokenProgram(m)
        /\ \/ UNCHANGED <<dead, flying>>
           \/ /\ s = "given up" /\ dead' = dead \cup {m}
              /\ flying' = IF m \in dead THEN flying ELSE [flying EXCEPT ![m] = under]
  BY DEF Simulate
<1>3. /\ taskAt'[p] = s /\ \A q \in Pools : q # p => taskAt'[q] = taskAt[q]
  BY <1>2, TaskMoves DEF WatchInv
<1>4. m \in TargetMints /\ DOMAIN flying = TargetMints
  BY DEF TargetMints, WatchInv, WatchTypes
<1>5. GatesPassed'
  BY <1>1, <1>2, <1>3 DEF WatchInv, GatesPassed, Trading
<1>6. DeadLetters'
  <2> SUFFICES ASSUME NEW q \in Pools, taskAt'[q] \in Trading, TargetMint[q] \in dead'
               PROVE  q \in flying'[TargetMint[q]]
    BY DEF DeadLetters
  <2>1. taskAt[q] \in Trading
    BY <1>1, <1>3 DEF Trading
  <2>2. CASE UNCHANGED <<dead, flying>>
    BY <2>1, <2>2 DEF WatchInv, DeadLetters
  <2>3. CASE /\ s = "given up" /\ dead' = dead \cup {m}
             /\ flying' = IF m \in dead THEN flying ELSE [flying EXCEPT ![m] = under]
    <3>1. q # p
      BY <1>3, <2>3 DEF Trading
    <3>2. CASE TargetMint[q] \in dead
      <4>1. q \in flying[TargetMint[q]]
        BY <2>1, <3>2 DEF WatchInv, DeadLetters
      <4>2. flying'[TargetMint[q]] = flying[TargetMint[q]]
        BY <1>4, <2>3, <3>2 DEF TargetMints
      <4> QED  BY <4>1, <4>2
    <3>3. CASE TargetMint[q] \notin dead
      <4>1. TargetMint[q] = m /\ m \notin dead
        BY <2>3, <3>3
      <4>2. flying'[m] = under
        BY <1>4, <2>3, <4>1
      <4> QED  BY <2>1, <3>1, <4>1, <4>2
    <3> QED  BY <3>2, <3>3
  <2> QED  BY <1>2, <2>2, <2>3
<1>7. WatchTypes' /\ Listings' /\ PoolsCounted'
  <2>1. DOMAIN flying' = TargetMints
    BY <1>2, <1>4
  <2> HIDE DEF m, under
  <2> QED  BY <1>1, <1>2, <2>1, TaskStep DEF WatchInv, WatchTypes
<1> QED  BY <1>5, <1>6, <1>7 DEF WatchInv

\* Every step of the feeds, the consumer and the tasks keeps it.
LEMMA WatchNextInv == WatchInv /\ [WatchNext]_watchVars => WatchInv'
<1> SUFFICES ASSUME WatchInv, [WatchNext]_watchVars PROVE WatchInv'
  OBVIOUS
<1>1. CASE UNCHANGED watchVars
  BY <1>1 DEF watchVars, WatchInv, WatchTypes, GatesPassed, DeadLetters, Listings, PoolsCounted,
              Undecided
<1> QED  BY <1>1, FeedStep, ConsumeStep, GateStep, TradeStep, SimulateStep DEF WatchNext

\* pumpswap-watcher.rs: for any pools, modes, depths and buffers, only graduations
\* are traded, with the mint's own token program and a probe within its bounds;
\* a dead letter stops all but the attempts under way; no pool is lost between a
\* listing and the consumer; and the counters account for every pool.
THEOREM WatcherSound == WatchSpec => []WatchSound
<1>1. WatchInv => WatchSound
  <2> SUFFICES ASSUME WatchInv PROVE WatchSound
    OBVIOUS
  <2>1. fired \cap {p \in OldPools : PageReaches[p] > FreshMaxAge} = {}
    <3> SUFFICES ASSUME NEW p \in fired, PageReaches[p] > FreshMaxAge PROVE FALSE
      OBVIOUS
    <3>1. p \in Pools /\ PageReaches[p] <= FreshMaxAge
      BY DEF WatchInv, GatesPassed
    <3>2. PageReaches[p] \in Int /\ FreshMaxAge \in Int
      BY <3>1, WatchAssumption
    <3> QED  BY <3>1, <3>2
  <2>2. \A p \in fired : program[p] = TokenProgram(TargetMint[p]) /\ probe[p] \in MinProbe..ProbeCeiling
    BY DEF WatchInv, GatesPassed
  <2>3. /\ \A p \in Pools : taskAt[p] \in Trading /\ TargetMint[p] \in dead
             => p \in flying[TargetMint[p]]
        /\ listed \subseteq (IF mode.native THEN {} ELSE warmed.pools) \cup pushing
             \cup Range(updates) \cup watched
        /\ ~mode.native => pushing \cap warmed.pools = {}
    BY DEF WatchInv, DeadLetters, Listings
  <2>4. watchStats.new = watchStats.noSol + watchStats.stale + watchStats.lowQuote
          + watchStats.candidates
          + Cardinality({p \in Pools : taskAt[p] \in {"age", "depth", "failed"}})
    BY DEF WatchInv, PoolsCounted, Undecided
  <2> QED  BY <2>1, <2>2, <2>3, <2>4 DEF WatchSound
<1> QED  BY <1>1, WatchInitInv, WatchNextInv, PTL DEF WatchSpec
=============================================================================
