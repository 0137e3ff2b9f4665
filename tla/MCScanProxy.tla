------------------------------ MODULE MCScanProxy ------------------------------
(* Instances of ScanProxy for TLC. *)
EXTENDS ScanProxy

CONSTANTS g1, g2

TwoGoroutines == {g1, g2}

\* All times readable; one round without its closing time, one without its opening time.
ReadablePayload == [r \in Rounds |-> Fields]
SomePayloads ==
    {ReadablePayload, [ReadablePayload EXCEPT ![0] = {"opensAt"}, ![1] = {"targetClosesAt"}]}
=============================================================================
