------------------------------ MODULE MCLoops ------------------------------
(* Constants for checking the bot's background tasks that share no state:  *)
(* `part` names the one a behaviour is about, so that one run explores     *)
(* them all without their product.                                         *)
EXTENDS TLC, PumpPositions, GraduationTrade, LaunchSniper, SolendScan, CommandPoll, PumpSwapWatcher

CONSTANTS l1, l2, l3, d1, d2, p1, p2, p3, m1, m2

MCDev == l1 :> d1 @@ l2 :> d1 @@ l3 :> d2

\* An old pool and two new ones of one mint.
MCTarget == p1 :> m1 @@ p2 :> m2 @@ p3 :> m2
MCReach  == p1 :> 9 @@ p2 :> 0 @@ p3 :> 0
MCModes ==
  {[native |-> TRUE, autofire |-> TRUE, sol |-> {p1, p2, p3}],
   [native |-> FALSE, autofire |-> TRUE, sol |-> {p2, p3}],
   [native |-> FALSE, autofire |-> FALSE, sol |-> {p1, p3}]}

VARIABLE part

loopVars == <<part, posVars, gradVars, sniperVars, scanVars, cmdVars, watchVars>>

LoopsInit ==
  /\ part \in {"positions", "graduation", "sniper", "solend", "commands", "watcher"}
  /\ PosInit /\ GradInit /\ SniperInit /\ ScanInit /\ CmdInit
  /\ WatchInit
  /\ part # "watcher" => mode = CHOOSE m \in WatchModes : TRUE

LoopsNext ==
  \/ /\ part = "positions" /\ PosNext
     /\ UNCHANGED <<part, watchVars, gradVars, sniperVars, scanVars, cmdVars>>
  \/ /\ part = "graduation" /\ GradNext
     /\ UNCHANGED <<part, watchVars, posVars, sniperVars, scanVars, cmdVars>>
  \/ /\ part = "sniper" /\ SniperNext
     /\ UNCHANGED <<part, watchVars, posVars, gradVars, scanVars, cmdVars>>
  \/ /\ part = "solend" /\ ScanNext
     /\ UNCHANGED <<part, watchVars, posVars, gradVars, sniperVars, cmdVars>>
  \/ /\ part = "commands" /\ CmdNext
     /\ UNCHANGED <<part, watchVars, posVars, gradVars, sniperVars, scanVars>>
  \/ /\ part = "watcher" /\ WatchNext
     /\ UNCHANGED <<part, posVars, gradVars, sniperVars, scanVars, cmdVars>>

LoopsSpec == LoopsInit /\ [][LoopsNext]_loopVars /\ GradFairness
=============================================================================
