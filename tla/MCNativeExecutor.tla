-------------------------- MODULE MCNativeExecutor --------------------------
(* Constants for checking NativeExecutor alone, with Helius Sender and its *)
(* minimum tip above the static ceiling, as the defaults have it.          *)
EXTENDS NativeExecutor, TLC

MCPercentiles == <<50, 75>>
MCStarter     == 50 :> 1 @@ 75 :> 2
MCRows        == {50 :> 2 @@ 75 :> 4}
=============================================================================
