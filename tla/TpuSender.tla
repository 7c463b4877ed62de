------------------------------ MODULE TpuSender ------------------------------
(***************************************************************************)
(* The direct sender to leaders (src/crates/arb-scout/src/tpu_send.rs): a  *)
(* refresher replaces two caches, the nodes' addresses and the leaders of  *)
(* the epoch, each by requests that may fail; a send looks both up.        *)
(* getEpochInfo and getLeaderSchedule are two requests, and the epoch may  *)
(* end between them.                                                       *)
(***************************************************************************)
EXTENDS Integers, FiniteSets, Sequences

CONSTANTS
  EpochSlots,     \* slots of an epoch
  LeaderAt,       \* the chain: slot -> leader
  TpuAddress,     \* the chain: leader -> address (two leaders may share one)
  Fanout,         \* NATIVE_TPU_FANOUT
  MaxSlot, MaxRefreshes \* bounds

ASSUME TpuAssumption == EpochSlots \in Nat \ {0} /\ Fanout \in Nat

VARIABLES
  slot,        \* the chain's slot
  nodes,       \* cluster_nodes: leader -> address, for the known ones
  schedule,    \* leader_schedule: slot -> leader
  refresher,   \* where the refresher is, the first slot it learnt and the start
               \* of the epoch it learnt it in
  refreshes,   \* bound
  shifted      \* history: was a schedule ever read in another epoch than its first slot?

tpuVars == <<slot, nodes, schedule, refresher, refreshes, shifted>>

\* The chain: the first slot of the epoch of s.
EpochStart(s) == s - (s % EpochSlots)

\* getEpochInfo answers the slot and its index in the epoch.
MutNoIndex(s) == s

FirstSlot(s) == s - (s % EpochSlots)

NoEntries == [x \in {} |-> x]

TpuInit ==
  /\ slot = 0
  /\ nodes = NoEntries /\ schedule = NoEntries
  /\ refresher = [at |-> "nodes", first |-> 0, epoch |-> 0]
  /\ refreshes = 0 /\ shifted = FALSE

\* getClusterNodes; a failure keeps the old map and goes on to the schedule.
RefreshNodes(ok, known) ==
  /\ refresher.at = "nodes" /\ refreshes < MaxRefreshes
  /\ refresher' = [refresher EXCEPT !.at = "epoch"]
  /\ nodes' = IF ok THEN [l \in known |-> TpuAddress[l]] ELSE nodes
  /\ UNCHANGED <<slot, schedule, refreshes, shifted>>

RefreshEpoch(ok) ==
  /\ refresher.at = "epoch"
  /\ refresher' = IF ok THEN [at |-> "schedule", first |-> FirstSlot(slot), epoch |-> EpochStart(slot)]
                        ELSE [refresher EXCEPT !.at = "nodes"]
  /\ refreshes' = IF ok THEN refreshes ELSE refreshes + 1
  /\ UNCHANGED <<slot, nodes, schedule, shifted>>

Base == refresher.first

\* getLeaderSchedule answers offsets into the epoch it is asked in.
RefreshSchedule(ok) ==
  /\ refresher.at = "schedule"
  /\ refresher' = [refresher EXCEPT !.at = "nodes"]
  /\ refreshes' = refreshes + 1
  /\ IF ok
     THEN /\ schedule' = [s \in Base..(Base + EpochSlots - 1) |-> LeaderAt[EpochStart(slot) + s - Base]]
          /\ shifted' = (shifted \/ EpochStart(slot) # refresher.epoch)
     ELSE UNCHANGED <<schedule, shifted>>
  /\ UNCHANGED <<slot, nodes>>

NewSlot ==
  /\ slot < MaxSlot
  /\ slot' = slot + 1
  /\ UNCHANGED <<nodes, schedule, refresher, refreshes, shifted>>

TpuNext ==
  \/ \E ok \in BOOLEAN, known \in SUBSET DOMAIN TpuAddress : RefreshNodes(ok, known)
  \/ \E ok \in BOOLEAN : RefreshEpoch(ok) \/ RefreshSchedule(ok)
  \/ NewSlot

TpuSpec == TpuInit /\ [][TpuNext]_tpuVars

\* next_leader_tpus: the leaders of the next slots whose address is known, each
\* address once.
NextLeaders(from) ==
  {schedule[s] : s \in (from..(from + Fanout - 1)) \cap DOMAIN schedule} \cap DOMAIN nodes
LeaderTpus(from) == {nodes[l] : l \in NextLeaders(from)}

---------------------------------------------------------------------------
\* A packet goes only to leaders of the slots asked for, however old the caches
\* are, unless a refresh straddled the end of an epoch.
SendsToLeaders ==
  ~shifted => LeaderTpus(slot) \subseteq {TpuAddress[LeaderAt[s]] : s \in slot..(slot + Fanout - 1)}
=============================================================================
