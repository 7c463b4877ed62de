------------------------- MODULE OpportunityBuffer -------------------------
(***************************************************************************)
(* The ring of opportunities between the scout and the native executor     *)
(* (OpportunityBuffer, src/crates/arb-scout/src/native_buffer.rs).         *)
(*                                                                         *)
(* Many scout tasks submit, one worker picks; both hold the buffer's mutex *)
(* for the whole call, metrics included, so each call is one step.         *)
(* submitted_at is taken under the mutex: offers are numbered in the order *)
(* of their submission and their times grow with their numbers.  The ring  *)
(* is a set of numbered offers, its order the order of the numbers.        *)
(***************************************************************************)
EXTENDS Integers, FiniteSets

CONSTANTS
  Nets,         \* predicted net profits, may be negative
  MaxAge,       \* max_age: offers this old are stale
  Capacity,     \* max_capacity
  MaxSubmits,   \* bound on the number of submissions
  MaxTime       \* bound on the clock

ASSUME BufferAssumption ==
  /\ Nets \subseteq Int
  /\ MaxAge \in Nat /\ Capacity \in Nat
  /\ MaxSubmits \in Nat /\ MaxTime \in Nat

VARIABLES
  buf,        \* the ring
  now,        \* the clock
  submitted, overflow, stale, selected,  \* the metrics of the same names
  maxSeen     \* metric max_size_seen

bufVars == <<buf, now, submitted, overflow, stale, selected, maxSeen>>

Offer == [id : Nat, net : Nets, at : Nat]

BufInit ==
  /\ buf = {} /\ now = 0 /\ maxSeen = 0
  /\ submitted = 0 /\ overflow = 0 /\ stale = 0 /\ selected = 0

---------------------------------------------------------------------------
\* Mutants: an eviction nobody counts, a pick that clears the ring.
MutUncounted     == 0
MutRestDropped(o) == {}

IsOldest(o)   == o \in buf /\ \A p \in buf : o.id <= p.id
Full          == Cardinality(buf) >= Capacity
Evicted       == IF Full THEN 1 ELSE 0
FreshOffer(o) == now - o.at < MaxAge
FreshOffers   == {o \in buf : FreshOffer(o)}
SubmittedAt   == now
Rest(o)       == FreshOffers \ {o}

\* The order of max_by_key: net first, then the instant of submission, and
\* the later one of equals.
Beats(o, p) == o.net > p.net \/ (o.net = p.net /\ o.id > p.id)
IsBest(o)   == o \in FreshOffers /\ \A p \in FreshOffers \ {o} : Beats(o, p)

\* submit: evict the oldest of a full ring, then append.  A full ring without
\* an element (capacity 0) counts an eviction all the same.
Submit(net) ==
  LET kept == IF Full THEN {o \in buf : ~IsOldest(o)} ELSE buf
      grown == kept \cup {[id |-> submitted, net |-> net, at |-> SubmittedAt]}
      size  == Cardinality(grown)
  IN  /\ submitted < MaxSubmits
      /\ buf' = grown
      /\ submitted' = submitted + 1
      /\ overflow' = overflow + Evicted
      /\ maxSeen' = IF size > maxSeen THEN size ELSE maxSeen
      /\ UNCHANGED <<now, stale, selected>>

\* pick_best returning the offer o: the stale ones go, the others stay.
PickBest(o) ==
  /\ IsBest(o)
  /\ buf' = Rest(o)
  /\ stale' = stale + Cardinality(buf \ FreshOffers)
  /\ selected' = selected + 1
  /\ UNCHANGED <<now, submitted, overflow, maxSeen>>

\* pick_best returning None.
PickNone ==
  /\ FreshOffers = {}
  /\ buf' = {}
  /\ stale' = stale + Cardinality(buf)
  /\ UNCHANGED <<now, submitted, overflow, selected, maxSeen>>

Pass ==
  /\ now < MaxTime
  /\ now' = now + 1
  /\ UNCHANGED <<buf, submitted, overflow, stale, selected, maxSeen>>

BufNext ==
  \/ \E net \in Nets : Submit(net)
  \/ \E o \in buf : PickBest(o)
  \/ PickNone
  \/ Pass

BufSpec == BufInit /\ [][BufNext]_bufVars

---------------------------------------------------------------------------
BufTypeOK ==
  /\ buf \in SUBSET Offer /\ IsFiniteSet(buf)
  /\ now \in Nat /\ maxSeen \in Nat
  /\ submitted \in Nat /\ overflow \in Nat /\ stale \in Nat /\ selected \in Nat

\* Every submitted opportunity is in the ring or in exactly one of the three
\* counters of opportunities that left it: none is lost without a count, and
\* none is counted twice, whatever mix of evictions, expiry and picks.
Conservation ==
  submitted = Cardinality(buf) + overflow + stale + selected

\* native_buffer.rs:71, the hard cap: the ring never outgrows its capacity,
\* and the high-water mark lies between its size and the capacity.
HardCap == Cardinality(buf) <= maxSeen /\ maxSeen <= Capacity

\* What is in the ring came in the order of its numbers, no later than now,
\* and each number once: the order the eviction and the tie-break rely on.
SubmissionOrder ==
  \A o \in buf :
    /\ o.id < submitted /\ o.at <= now
    /\ \A p \in buf \ {o} : o.id # p.id /\ (o.id < p.id => o.at <= p.at)

\* The ring as a bounded queue that loses nothing: all of the above.
RingSound == BufTypeOK /\ Conservation /\ HardCap /\ SubmissionOrder

\* A fresh opportunity leaves the ring in two ways only: it is picked, when
\* no fresh one beats it, or the ring is full and it is the oldest.
FreshOnesStay ==
  [][\A o \in FreshOffers \ buf' :
        \/ selected' = selected + 1 /\ ~\E p \in FreshOffers : p # o /\ Beats(p, o)
        \/ submitted' = submitted + 1 /\ Full /\ IsOldest(o)]_bufVars
=============================================================================
