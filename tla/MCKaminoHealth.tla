--------------------------- MODULE MCKaminoHealth ---------------------------
(* Constants for checking the Kamino verdicts: two collaterals, one with an *)
(* empty and a closed slot beside it, and one debt.                         *)
EXTENDS TLC, KaminoHealth

CONSTANTS c1, c2, b1

MCDepositSlots ==
  <<[reserve |-> c1, amount |-> 40], [reserve |-> NoReserve, amount |-> 0],
    [reserve |-> c2, amount |-> 20], [reserve |-> b1, amount |-> 0]>>
MCBorrowSlots == <<[reserve |-> b1, amountSf |-> 40 * SfScale], [reserve |-> c2, amountSf |-> 0]>>
MCOraclePrices == c1 :> {10, 15, 20} @@ c2 :> {10} @@ b1 :> {10, 15}
=============================================================================
