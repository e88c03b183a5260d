------------------------------ MODULE MCLedger ------------------------------
(***************************************************************************)
(* Small instances of Ledger.  401 units carry a fee of two, rounded down  *)
(* from 2.005; the fee of 199 units rounds down to nothing.                *)
(***************************************************************************)
EXTENDS Ledger

CONSTANTS p1, p2, c1, c2, b1, b2

\* Each call its own payment.
Apart == [c \in Calls |-> IF c = c1 THEN p1 ELSE p2]

OneBook == [p \in Payments |-> b1]
Amounts == [p \in Payments |-> IF p = p1 THEN 401 ELSE 199]
=============================================================================
