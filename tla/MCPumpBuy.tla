----------------------------- MODULE MCPumpBuy -----------------------------
(* Constants for checking PumpBuy: two or three mints of 5 and 10 lamports. *)
EXTENDS PumpBuy, FiniteSetsExt, TLC

CONSTANTS m1, m2, m3

MCMints == {m1, m2, m3}
MCMints2 == {m1, m2}
MCAsk == (m1 :> 5) @@ (m2 :> 10) @@ (m3 :> 5)
MCWeight == [S \in SUBSET MCMints |-> MapThenSumSet(LAMBDA m : MCAsk[m], S)]
MCWeight2 == [S \in SUBSET MCMints2 |-> MapThenSumSet(LAMBDA m : MCAsk[m], S)]
MCTaskSymmetry == Permutations(Tasks)
=============================================================================
