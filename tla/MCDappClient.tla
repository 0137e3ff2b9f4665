----------------------------- MODULE MCDappClient -----------------------------
(* Instances of DappClient for TLC. *)
EXTENDS DappClient

CONSTANTS c1, c2, i1, s1, d1

AllCommands == {c1, c2}
OneSubscriber == {s1}
OneDisconnecter == {d1}
AllRoutines == AllCommands \cup OneSubscriber \cup OneDisconnecter
BothKinds == {"accounts", "tx"}
OneId == {i1}
AllEvents == [call : AllCommands, id : OneId, status : {"pending", "executed", "failed"}]
=============================================================================
