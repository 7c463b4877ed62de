---------------------------- MODULE LaunchSniper ----------------------------
(***************************************************************************)
(* The Jupiter-routed launch sniper (run_pump_fun_executor in              *)
(* src/crates/arb-scout/src/scout.rs): a polling loop that fetches the     *)
(* last signatures of the pump.fun program, looks at those it has not seen *)
(* and spawns a buy task for each launch that passes the filters. The      *)
(* observing detector beside it polls and remembers in the same way.       *)
(* A launch stands for its signature and its mint; Dev gives its creator.  *)
(***************************************************************************)
EXTENDS Integers, FiniteSets

CONSTANTS
  Launches, Devs, Dev,    \* Dev[l] launched l
  DevWindow,              \* 60 s
  MaxPositions,           \* PUMP_FUN_MAX_POSITIONS
  SeenCap,                \* 5000
  MaxLaunchTime           \* bound

ASSUME LaunchAssumption ==
  /\ IsFiniteSet(Launches) /\ Dev \in [Launches -> Devs]
  /\ DevWindow \in Nat /\ MaxPositions \in Nat

VARIABLES
  launchTime,
  seen,                   \* seen_sigs
  page,                   \* signatures of this round still to be looked at ({}: asleep)
  recentDevs,             \* dev -> time of its last accepted launch
  sniperPositions,        \* the positions map, by mint
  spawned,                \* buy tasks that sleep or wait for their swap
  lastTry,                \* history: dev -> time of the last buy attempt (-1: none)
  serial,                 \* history: two attempts for one dev within the window?
  crowd                   \* history: most tasks alive when one was spawned

sniperHistory == <<lastTry, serial, crowd>>
sniperVars == <<launchTime, seen, page, recentDevs, sniperPositions, spawned, sniperHistory>>

SniperInit ==
  /\ launchTime = 0
  /\ seen = {} /\ page = {}
  /\ recentDevs = [d \in {} |-> 0]
  /\ sniperPositions = {} /\ spawned = {}
  /\ lastTry = [d \in Devs |-> -1] /\ serial = FALSE /\ crowd = 0

\* getSignaturesForAddress: the last signatures, of which the unseen are
\* looked at one by one. A failed request ends the round before the cap on
\* the seen set is looked at.
FetchPage(some) ==
  /\ page = {}
  /\ some # {}
  /\ page' = some
  /\ UNCHANGED <<launchTime, seen, recentDevs, sniperPositions, spawned, sniperHistory>>

Retained == [d \in {e \in DOMAIN recentDevs : launchTime - recentDevs[e] < DevWindow}
               |-> recentDevs[d]]

MutForgets(d) == FALSE

LaunchedLately(d) == d \in DOMAIN Retained

AtLimit == Cardinality(sniperPositions) >= MaxPositions

\* The end of a round drops the whole seen set when it is over its cap.
EndOfRound(remaining, known) ==
  IF remaining = {} /\ Cardinality(known) > SeenCap THEN {} ELSE known

\* A signature that was seen; or one whose transaction cannot be fetched, is
\* no launch, or has a mint that ends in "pump": it is seen from now on.
PassOver(l) ==
  /\ l \in page
  /\ page' = page \ {l}
  /\ seen' = EndOfRound(page', seen \cup {l})
  /\ UNCHANGED <<launchTime, recentDevs, sniperPositions, spawned, sniperHistory>>

\* The dev is noted before the limit is tested, so that a launch refused at
\* the limit still blocks the dev's next one.
Consider(l) ==
  /\ l \in page \ seen
  /\ page' = page \ {l}
  /\ seen' = EndOfRound(page', seen \cup {l})
  /\ IF LaunchedLately(Dev[l])
     THEN recentDevs' = Retained /\ UNCHANGED <<spawned, sniperHistory>>
     ELSE /\ recentDevs' = [d \in DOMAIN Retained \cup {Dev[l]} |->
                              IF d = Dev[l] THEN launchTime ELSE Retained[d]]
          /\ IF AtLimit THEN UNCHANGED <<spawned, sniperHistory>>
             ELSE /\ spawned' = spawned \cup {l}
                  /\ lastTry' = [lastTry EXCEPT ![Dev[l]] = launchTime]
                  /\ serial' = (serial \/ (lastTry[Dev[l]] >= 0
                                            /\ launchTime - lastTry[Dev[l]] < DevWindow))
                  /\ crowd' = IF Cardinality(spawned') > crowd THEN Cardinality(spawned') ELSE crowd
  /\ UNCHANGED <<launchTime, sniperPositions>>

\* maybe_execute_one_way: an error ends the task. Ok stands for a swap that was
\* sent and for one that a gate of the executor skipped; both make a position.
SwapReturns(l, ok) ==
  /\ l \in spawned
  /\ spawned' = spawned \ {l}
  /\ sniperPositions' = IF ok THEN sniperPositions \cup {l} ELSE sniperPositions
  /\ UNCHANGED <<launchTime, seen, page, recentDevs, sniperHistory>>

LaunchTick ==
  /\ launchTime < MaxLaunchTime
  /\ launchTime' = launchTime + 1
  /\ UNCHANGED <<seen, page, recentDevs, sniperPositions, spawned, sniperHistory>>

SniperNext ==
  \/ \E l \in Launches :
       \/ PassOver(l)
       \/ Consider(l)
       \/ \E ok \in BOOLEAN : SwapReturns(l, ok)
  \/ \E some \in SUBSET Launches : FetchPage(some)
  \/ LaunchTick

SniperSpec == SniperInit /\ [][SniperNext]_sniperVars

---------------------------------------------------------------------------
\* Two attempts for launches of one creator are a window apart, though pages
\* come in any order, launches come again after the seen set was emptied, and
\* refused ones count for the creator.
SerialDevsSkipped == ~serial

\* The limit on open positions is tested before the task that makes one is
\* spawned: it can be passed by the tasks alive at such a test, not by more.
LimitOvershoot ==
  crowd > 0 => Cardinality(sniperPositions) + Cardinality(spawned) < MaxPositions + crowd
\* What the sniper may do at most: both of the above.
SniperBounds == SerialDevsSkipped /\ LimitOvershoot
=============================================================================
