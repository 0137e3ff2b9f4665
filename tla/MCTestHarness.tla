----------------------------- MODULE MCTestHarness -----------------------------
(* Instances of TestHarness for TLC. *)
EXTENDS TestHarness

CONSTANTS t1, t2, provider, other

TwoBinaries == {t1, t2}
TwoUsers == {provider, other}
=============================================================================
