--------------------------- MODULE MCOAuthController ---------------------------
(* Instances of OAuthController for TLC. *)
EXTENDS OAuthController

CONSTANTS c1, c2, ch1, ch2

TwoCallers == {c1, c2}
OneDeadline == {c1}
BothKinds == {"user", "admin"}
OnlyUser == {"user"}
TwoChans == {ch1, ch2}
One == 1..1
=============================================================================
