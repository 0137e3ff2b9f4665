------------------------------ MODULE MCPolling ------------------------------
(* Instances of Polling for TLC. *)
EXTENDS Polling

CONSTANTS w1, p1, p2

OneWorker == {w1}
TwoParties == {p1, p2}
=============================================================================
