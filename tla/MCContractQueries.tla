--------------------------- MODULE MCContractQueries ---------------------------
(* Instances of ContractQueries for TLC. *)
EXTENDS ContractQueries

\* Two contracts of the first template, one of the second.
ThreeContracts == {<<1, 1>>, <<1, 2>>, <<2, 1>>}
OneContract == {<<1, 1>>}
TwoPairs == {<<1, 1>>, <<2, 1>>}

EmptyEnvironment == {[template |-> Nil, contract |-> Nil]}
HalfEnvironment == EmptyEnvironment \cup {[template |-> 1, contract |-> Nil]}
=============================================================================
