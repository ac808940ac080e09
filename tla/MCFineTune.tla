------------------------------ MODULE MCFineTune ------------------------------
(* Limits and first values of the fields for TLC.                          *)
EXTENDS FineTune

Both(c, r) == [f \in Fields |-> IF f = "CONCURRENCY" THEN c ELSE r]
MCMin == Both(1, 1)
MCMax == Both(12, 10)
MCDefault == Both(6, 4)
MCFirsts == {Both(8, 2), Both(3, 4)}
===============================================================================
