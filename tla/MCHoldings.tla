------------------------------ MODULE MCHoldings ------------------------------
(* Instances of Holdings for TLC. *)
EXTENDS Holdings

CONSTANT w1

OneWorker == {w1}
SmallAmounts == 1..2
=============================================================================
