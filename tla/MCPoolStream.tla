----------------------------- MODULE MCPoolStream -----------------------------
(* Bounds and configurations for checking PoolStream.  The reconnect loop    *)
(* gets stuck with WSS and the transaction stream; that is a run of its own. *)
EXTENDS PoolStream

MCBackoffCap == 2
WssPlain == {[backend |-> "wss", tx |-> FALSE]}
WssTx    == {[backend |-> "wss", tx |-> TRUE]}
Laser    == {[backend |-> "laserstream", tx |-> on] : on \in BOOLEAN}
LiveOnes == WssPlain \cup Laser
=============================================================================
