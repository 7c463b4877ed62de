--------------------------- MODULE MCSnipeBudget ---------------------------
(* Constants for checking SnipeBudget: three mints that ask for 1, 2 and 3 *)
(* lamports.                                                               *)
EXTENDS SnipeBudget, FiniteSetsExt, TLC

CONSTANTS m1, m2, m3

MCMints == {m1, m2, m3}
MCAsk == (m1 :> 1) @@ (m2 :> 2) @@ (m3 :> 3)
MCWeight == [S \in SUBSET MCMints |-> MapThenSumSet(LAMBDA m : MCAsk[m], S)]
MCTaskSymmetry == Permutations(Tasks)
=============================================================================
