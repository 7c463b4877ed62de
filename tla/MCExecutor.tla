----------------------------- MODULE MCExecutor -----------------------------
(* Constants for checking the gates of Executor, the delivery of what      *)
(* passes them, and the MarginFi hunter with its locks. `part` names the   *)
(* one a behaviour is about, so that one run explores each without their   *)
(* product.                                                                *)
EXTENDS TLC, Executor, Delivery, MarginFiHunter

CONSTANTS s1, s2, q1, q2, k1, k2, k3, a1, a2

\* A loss of 2 and a profit of 1; live with and without sampling, and a dry run.
MCNets == {-2, 1}
MCLive == {[live |-> TRUE, oneInN |-> 1]}
MCModes == MCLive \cup {[live |-> on, oneInN |-> 2] : on \in BOOLEAN}
MCTaskSymmetry == Permutations(Tasks)

MCSendNets == {-1, 2}

\* The second account also holds something without a Pyth push feed.
MCOracleOf == k1 :> q1 @@ k2 :> q2 @@ k3 :> q2
MCBalances ==
  a1 :> {[bank |-> k1, asset |-> 10, liab |-> 0], [bank |-> k2, asset |-> 0, liab |-> 4]}
  @@ a2 :> {[bank |-> k1, asset |-> 8, liab |-> 0], [bank |-> k3, asset |-> 1, liab |-> 0],
            [bank |-> k2, asset |-> 0, liab |-> 3]}
MCQuotes == q1 :> <<10, 5, 10>> @@ q2 :> <<10>>

VARIABLE part

dispatchVars == <<part, execVars, delVars, mfiVars>>

DispatchInit ==
  /\ part \in {"gates", "delivery", "marginfi"}
  /\ ExecInit /\ DelInit /\ MfiInit
  /\ part # "gates" => config \in MCLive
  /\ part # "delivery" => /\ mode = [s \in Sends |-> "pair"]
                          /\ expects = [s \in Sends |-> -1]

DispatchNext ==
  \/ part = "gates" /\ ExecNext /\ UNCHANGED <<part, delVars, mfiVars>>
  \/ part = "delivery" /\ DelNext /\ UNCHANGED <<part, execVars, mfiVars>>
  \/ part = "marginfi" /\ MfiNext /\ UNCHANGED <<part, execVars, delVars>>

DispatchSpec == DispatchInit /\ [][DispatchNext]_dispatchVars
=============================================================================
