----------------------------- MODULE MCProgress ------------------------------
(* The two loops of the bot that must go on, whatever the network does: the  *)
(* budgeted buys behind their throttle, and the reconnect loop of the stream. *)
(* `part` names the one a behaviour is about; each part has the fairness of   *)
(* its own module.                                                            *)
EXTENDS MCPumpBuy, MCPoolStream

VARIABLE part

progressVars == <<part, allVars, streamVars>>

ProgressInit ==
  /\ part \in {"buys", "stream"}
  /\ BuyInit /\ StreamInit
  /\ part # "stream" => config \in WssPlain

ProgressNext ==
  \/ part = "buys" /\ BuyNext /\ UNCHANGED <<part, streamVars>>
  \/ part = "stream" /\ StreamNext /\ UNCHANGED <<part, allVars>>

ProgressSpec ==
  /\ ProgressInit /\ [][ProgressNext]_progressVars
  /\ WF_allVars(part = "buys" /\ Tick)
  /\ \A t \in Tasks : /\ WF_allVars(part = "buys" /\ HolderStep(t))
                      /\ SF_allVars(part = "buys" /\ LockThrottle(t))
  /\ WF_streamVars(part = "stream" /\ Handle)
  /\ WF_streamVars(part = "stream" /\ Reconnect)
  /\ WF_streamVars(part = "stream" /\ Predict)
  /\ WF_streamVars(part = "stream" /\ ConsumerEnds)
=============================================================================
