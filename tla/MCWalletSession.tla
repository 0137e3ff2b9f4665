---------------------------- MODULE MCWalletSession ----------------------------
(* Instances of WalletSession for TLC. *)
EXTENDS WalletSession, TLC

CONSTANTS a1, a2, p1, p2, s1

TwoApps == {a1, a2}
TwoParties == {p1, p2}
OneSync == {s1}

Symmetry == Permutations(TwoApps) \cup Permutations(TwoParties)
=============================================================================
