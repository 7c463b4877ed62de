------------------------------- MODULE MCMoney --------------------------------
(* The money of the bot: the budgeted pump.fun buys, and the wallet that the   *)
(* sweeps, the stable swaps and a thief move. They share no state that either  *)
(* reads; `part` names the one a behaviour is about.                           *)
EXTENDS MCPumpBuy, Treasury

MCSetups ==
  {[enabled |-> {"watch", "stable", "thief"},
    wallet |-> [sol |-> 2, usdc |-> 6, usdt |-> 1, cash |-> 0]],
   [enabled |-> {"watch", "sweep", "thief"},
    wallet |-> [sol |-> 0, usdc |-> 8, usdt |-> 1, cash |-> 0]],
   [enabled |-> {"sweep", "stable"},
    wallet |-> [sol |-> 0, usdc |-> 6, usdt |-> 6, cash |-> 2]]}
MCDirections == <<[src |-> "usdc", dst |-> "usdt"], [src |-> "usdt", dst |-> "usdc"]>>

VARIABLE part

moneyVars == <<part, allVars, treasuryVars>>

MoneyInit ==
  /\ part \in {"buys", "treasury"}
  /\ BuyInit /\ TreasuryInit
  /\ part # "treasury" => enabled = {"sweep", "stable"}

MoneyNext ==
  \/ part = "buys" /\ BuyNext /\ UNCHANGED <<part, treasuryVars>>
  \/ part = "treasury" /\ TreasuryNext /\ UNCHANGED <<part, allVars>>

MoneySpec == MoneyInit /\ [][MoneyNext]_moneyVars
=============================================================================
