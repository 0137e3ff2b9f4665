----------------------------- MODULE MCSubmission -----------------------------
(* Instances of Submission for TLC. *)
EXTENDS Submission

CONSTANTS c1, c2, i1, p1, p2

TwoClients == {c1, c2}
OneClient == {c1}
OneId == {i1}
IdOrEmpty == {i1, Empty}
OneParty == {p1}
TwoParties == {p1, p2}
=============================================================================
