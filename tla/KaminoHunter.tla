---------------------------- MODULE KaminoHunter ----------------------------
(***************************************************************************)
(* The event-driven Kamino liquidation hunter                              *)
(* (src/crates/arb-scout/src/bin/kamino-hunter.rs). A subscriber feeds     *)
(* account updates to one tick_processor; it keeps prices, finds the       *)
(* obligations that refer to the reserve through an index into the         *)
(* obligation vector, and queues those under water for the fire workers. A *)
(* background task replaces the vector, and then the index, under two      *)
(* locks of their own.                                                     *)
(***************************************************************************)
EXTENDS Integers, Sequences, FiniteSets, SequencesExt

CONSTANTS
  KReserves, KObligations,
  Deposits, Borrows,      \* obligation -> reserves
  KDebt,                  \* obligation -> its debt
  SinksAt,                \* reserve -> prices at which its obligations are under water
  KWorkers,               \* KAMINO_FIRE_WORKERS
  FireQueue,              \* capacity of the channel, 128
  TopHits,                \* hits of one tick that are queued, 5
  Suppress,               \* 30 s
  MaxJump,                \* a third of the cached price
  MaxPrice, MaxKTime, MaxRebuilds   \* bounds

VARIABLES
  kNow,
  cached, overrides,      \* reserve -> price; overrides of some reserves
  universe,               \* obligations, a vector
  indexed,                \* the vector the index was built from
  tick,                   \* tick_processor: what it handles
  fired,                  \* fired_recently: obligation -> time (-1: none)
  fireQueue, worker,      \* requests; worker -> what it does
  rebuild,                \* the background task
  newest,                 \* history: reserve -> newest price handled
  cleared,                \* history: reserves whose override the rebuild threw away
  missed, torn,           \* history: was an obligation missed; did vector and index differ?
  queuedAt, tooSoon       \* history: obligation -> time it was queued; twice in the window?

kHistory == <<newest, cleared, missed, torn, queuedAt, tooSoon>>
kPrices  == <<cached, overrides>>
kHunterVars == <<kNow, kPrices, universe, indexed, tick, fired, fireQueue,
                 worker, rebuild, kHistory>>

Refers(o) == Deposits[o] \cup Borrows[o]

ASSUME HunterAssumption ==
  /\ IsFiniteSet(KObligations)
  /\ {FireQueue, TopHits, Suppress, MaxPrice, MaxJump} \subseteq Nat

HunterInit ==
  /\ kNow = 0
  /\ cached = [r \in KReserves |-> 0]
  /\ overrides = [r \in {} |-> 0]
  /\ universe = SetToSeq(KObligations) /\ indexed = universe
  /\ tick = [at |-> "recv"]
  /\ fired = [o \in KObligations |-> -1] /\ fireQueue = <<>>
  /\ worker = [w \in KWorkers |-> "recv"]
  /\ rebuild = [at |-> "sleep", fetched |-> <<>>, done |-> 0]
  /\ newest = cached /\ cleared = {} /\ missed = FALSE /\ torn = FALSE
  /\ queuedAt = fired /\ tooSoon = FALSE

---------------------------------------------------------------------------
\* tick_processor.

MutDepositsOnly(o) == Deposits[o]

IndexedUnder(o) == Refers(o)

AffectedBy(r) == {i \in DOMAIN indexed : r \in IndexedUnder(indexed[i])}

\* A Scope price too far from the cached one is not believed.
Sane(m) == m.kind = "scope" => m.price - cached[m.reserve] \in -MaxJump..MaxJump

\* Updates come in the order of the stream, whose prices are free.

WithoutOverride(r) == [q \in DOMAIN overrides \ {r} |-> overrides[q]]

Overridden(m) == [q \in DOMAIN overrides \cup {m.reserve} |->
                    IF q = m.reserve THEN m.price ELSE overrides[q]]

\* The write lock of the cache waits for workers that build.
CacheWritable == \A w \in KWorkers : worker[w] # "build"

\* A reserve update is the price itself and ends the override; an oracle
\* update becomes an override.
TakeUpdate(m) ==
  /\ tick.at = "recv"
  /\ IF m.kind = "reserve"
     THEN /\ CacheWritable
          /\ cached' = [cached EXCEPT ![m.reserve] = m.price]
          /\ overrides' = WithoutOverride(m.reserve)
     ELSE /\ UNCHANGED cached
          /\ overrides' = IF Sane(m) THEN Overridden(m) ELSE overrides
  /\ IF m.kind = "reserve" \/ Sane(m)
     THEN /\ newest' = [newest EXCEPT ![m.reserve] = m.price]
          /\ cleared' = cleared \ {m.reserve}
          /\ tick' = [at |-> "affected", reserve |-> m.reserve, slots |-> AffectedBy(m.reserve)]
     ELSE UNCHANGED <<newest, cleared, tick>>
  /\ UNCHANGED <<kNow, universe, indexed, fired, fireQueue, worker, rebuild,
                 missed, torn, queuedAt, tooSoon>>

PriceOf(r) == IF r \in DOMAIN overrides THEN overrides[r] ELSE cached[r]

UnderWater(o) == \E r \in Refers(o) : PriceOf(r) \in SinksAt[r]

Looked == {universe[i] : i \in tick.slots \cap DOMAIN universe}

Hits == {o \in Looked : UnderWater(o)}

\* Sorted by debt, obligations of the same debt in any order.
ByDebt(S) == {q \in SetToSeqs(S) : \A i, j \in DOMAIN q : i < j => KDebt[q[i]] >= KDebt[q[j]]}

First(n, q) == SubSeq(q, 1, IF Len(q) < n THEN Len(q) ELSE n)

TriedLately(o) == fired[o] >= 0 /\ kNow - fired[o] < Suppress

\* Of the largest hits, those marked as fired, and queued if there is room.
Picks(hits) == {o \in ToSet(First(TopHits, hits)) : ~TriedLately(o)}
Room == FireQueue - Len(fireQueue)

FireAt(picks, queued) ==
  /\ fired' = [o \in KObligations |-> IF o \in picks THEN kNow ELSE fired[o]]
  /\ fireQueue' = fireQueue \o queued
  /\ queuedAt' = [o \in KObligations |-> IF o \in ToSet(queued) THEN kNow ELSE queuedAt[o]]
  /\ tooSoon' = (tooSoon \/ \E o \in ToSet(queued) : queuedAt[o] >= 0 /\ kNow - queuedAt[o] < Suppress)

Evaluate ==
  /\ tick.at = "affected"
  /\ tick' = [at |-> "recv"]
  /\ \E hits \in ByDebt(Hits) : \E order \in ByDebt(Picks(hits)) :
       FireAt(Picks(hits), First(Room, order))
  /\ missed' = (missed \/ \E o \in ToSet(universe) : tick.reserve \in Refers(o) /\ o \notin Looked)
  /\ torn' = (torn \/ indexed # universe)
  /\ UNCHANGED <<kNow, kPrices, universe, indexed, worker, rebuild, newest, cleared>>

---------------------------------------------------------------------------
\* The fire workers: one request, a fresh copy of the obligation, and then,
\* under the read lock of the cache, quote, build, simulate and send.

WorkerTakes(w) ==
  /\ worker[w] = "recv" /\ fireQueue # <<>>
  /\ worker' = [worker EXCEPT ![w] = "refetch"]
  /\ fireQueue' = Tail(fireQueue)
  /\ UNCHANGED <<kNow, kPrices, universe, indexed, tick, fired, rebuild, kHistory>>

Refetched(w, ok) ==
  /\ worker[w] = "refetch"
  /\ worker' = [worker EXCEPT ![w] = IF ok THEN "build" ELSE "recv"]
  /\ UNCHANGED <<kNow, kPrices, universe, indexed, tick, fired, fireQueue,
                 rebuild, kHistory>>

\* A skip, a failed simulation, an error or a transaction sent.
AttemptEnds(w) ==
  /\ worker[w] = "build"
  /\ worker' = [worker EXCEPT ![w] = "recv"]
  /\ UNCHANGED <<kNow, kPrices, universe, indexed, tick, fired, fireQueue,
                 rebuild, kHistory>>

---------------------------------------------------------------------------
\* background_refresh: fetch (a market that cannot be read is left out),
\* replace the vector, replace the index, clear the
\* overrides, each under a lock of its own. A failed fetch goes back to sleep.

RebuildFetches(seq) ==
  /\ rebuild.at = "sleep" /\ rebuild.done < MaxRebuilds
  /\ rebuild' = [rebuild EXCEPT !.at = "fetched", !.fetched = seq]
  /\ UNCHANGED <<kNow, kPrices, universe, indexed, tick, fired, fireQueue,
                 worker, kHistory>>

ReplaceUniverse ==
  /\ rebuild.at = "fetched"
  /\ rebuild' = [rebuild EXCEPT !.at = "index"]
  /\ universe' = rebuild.fetched
  /\ UNCHANGED <<kNow, kPrices, indexed, tick, fired, fireQueue, worker, kHistory>>

ReplaceIndex ==
  /\ rebuild.at = "index"
  /\ rebuild' = [rebuild EXCEPT !.at = "clear"]
  /\ indexed' = rebuild.fetched
  \* A tick between its look-up and its evaluation keeps slots of the old index.
  /\ torn' = (torn \/ tick.at = "affected")
  /\ UNCHANGED <<kNow, kPrices, universe, tick, fired, fireQueue, worker,
                 newest, cleared, missed, queuedAt, tooSoon>>

ClearOverrides ==
  /\ rebuild.at = "clear"
  /\ rebuild' = [at |-> "sleep", fetched |-> <<>>, done |-> rebuild.done + 1]
  /\ overrides' = [r \in {} |-> 0]
  /\ cleared' = cleared \cup DOMAIN overrides
  /\ UNCHANGED <<kNow, cached, universe, indexed, tick, fired, fireQueue,
                 worker, newest, missed, torn, queuedAt, tooSoon>>

HunterTick ==
  /\ kNow < MaxKTime
  /\ kNow' = kNow + 1
  /\ UNCHANGED <<kPrices, universe, indexed, tick, fired, fireQueue, worker,
                 rebuild, kHistory>>

HunterNext ==
  \/ \E m \in [kind : {"reserve", "pyth", "scope"}, reserve : KReserves, price : 0..MaxPrice] :
       TakeUpdate(m)
  \/ Evaluate
  \/ \E w \in KWorkers : WorkerTakes(w) \/ AttemptEnds(w) \/ \E ok \in BOOLEAN : Refetched(w, ok)
  \/ \E seq \in SetToAllKPermutations(KObligations) : RebuildFetches(seq)
  \/ ReplaceUniverse \/ ReplaceIndex \/ ClearOverrides
  \/ HunterTick

HunterSpec == HunterInit /\ [][HunterNext]_kHunterVars

---------------------------------------------------------------------------
\* An update looks at every known obligation that refers to its reserve, as
\* deposit or as borrow. Only one that met a rebuild half way, with slots of one
\* vector and obligations of another, may miss some.
AffectedAreLooked == missed => torn

\* The price an obligation is judged by is the newest that was handled for the
\* reserve, whichever of the three feeds brought it; the rebuild alone may take
\* it back to the cached one.
NewestPriceCounts == \A r \in KReserves : PriceOf(r) = newest[r] \/ r \in cleared

\* Back-to-back updates queue an obligation once in the window, across vectors
\* that move it to another slot.
QueuedOncePerWindow == ~tooSoon

\* What one update leads to: everything it concerns is looked at, by the newest
\* price, and queued once.
HunterSound == AffectedAreLooked /\ NewestPriceCounts /\ QueuedOncePerWindow
=============================================================================
