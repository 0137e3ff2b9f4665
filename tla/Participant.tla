------------------------------ MODULE Participant ------------------------------
(***************************************************************************)
(* The parties, users and rights of a Canton participant, as the SDK and   *)
(* its test harness use them.  The participant is not under src/: a        *)
(* request takes effect at once, and its answer may be lost.               *)
(***************************************************************************)
EXTENDS Integers, FiniteSets

CONSTANTS
    Users,
    MaxFaults   \* bound on requests that fail although the participant could serve them

ASSUME FaultAssumption == MaxFaults \in Nat

VARIABLES ledger, faults

\* Parties are numbered as they are allocated.
NoParty == 0

\* What a new sandbox knows; its storage is in memory (testutil.go's Canton configuration).
NewLedger ==
    [allocated |-> 0,                       \* parties 1..allocated exist
     primary |-> [u \in Users |-> NoParty], \* a user exists once it has a primary party
     acts |-> [u \in Users |-> {}],         \* CanActAs and CanReadAs rights
     admins |-> {},                         \* users with ParticipantAdmin
     dso |-> NoParty,                       \* the party with the hint "dso"
     packages |-> FALSE, vetted |-> FALSE,  \* splice-amulet
     rules |-> 0, rounds |-> FALSE]         \* AmuletRules contracts, OpenMiningRound

Ledgers ==
    [allocated : Nat, primary : [Users -> Nat], acts : [Users -> SUBSET Nat],
     admins : SUBSET Users, dso : Nat, packages : BOOLEAN, vetted : BOOLEAN,
     rules : Nat, rounds : BOOLEAN]

Allocating == [ledger EXCEPT !.allocated = @ + 1]
Granting(u, ps) == [ledger EXCEPT !.acts[u] = @ \cup ps]
Creating(u, p) == [ledger EXCEPT !.primary[u] = p, !.acts[u] = @ \cup {p}]

\* A request that the participant can serve if ok takes effect and is answered.
Succeeds(ok, effect) ==
    /\ ok
    /\ ledger' = effect
    /\ UNCHANGED faults

\* A request that cannot be served is refused; one that could be may be lost, before
\* or after it took effect, or run into the caller's deadline.
Fails(ok, effect) ==
    \/ ~ok /\ UNCHANGED <<ledger, faults>>
    \/ /\ faults < MaxFaults
       /\ faults' = faults + 1
       /\ ledger' \in {ledger, IF ok THEN effect ELSE ledger}
=============================================================================
