------------------------------- MODULE PartyAdmin -------------------------------
(***************************************************************************)
(* Party and rights administration of pkg/controller/ledger.go and         *)
(* RequestAccounts of pkg/dapp/client.go: one call at a time per caller,   *)
(* one step per request to the participant.                                *)
(***************************************************************************)
EXTENDS Participant

CONSTANTS
    Callers,
    UserID,     \* the userID the ledger controller was built with
    OtherUser,  \* a user an application creates
    PageSize    \* parties ListKnownParties is asked for at a time, 1000

ASSUME UsersAssumption == UserID \in Users /\ OtherUser \in Users /\ UserID # OtherUser
ASSUME PageAssumption == PageSize \in Nat \ {0}

VARIABLES
    call,       \* each caller's call, "none" when it makes none
    subject,    \* the party an allocation is about, the last one known when a listing asks
    todo,       \* parties RequestAccounts has still to ask the synchronizers of
    accounts    \* the wallets it has collected

adminVars == <<call, subject, todo, accounts>>

Operations == {"internal", "external", "wallets", "grantRights", "grantMaster", "createUser"}

AdminInit ==
    /\ call = [c \in Callers |-> "none"]
    /\ subject = [c \in Callers |-> NoParty]
    /\ todo = [c \in Callers |-> {}]
    /\ accounts = [c \in Callers |-> {}]

\* What ListKnownParties answers with n parties: the code asks for one page, in an order
\* that is the participant's, and never for the next.
Pages(n) == IF n <= PageSize THEN {1..n} ELSE {page \in SUBSET (1..n) : Cardinality(page) = PageSize}

Becomes(c, state) == call' = [call EXCEPT ![c] = state]

\* The process of a caller has ended.
Forget(c) ==
    /\ Becomes(c, "none")
    /\ subject' = [subject EXCEPT ![c] = NoParty]
    /\ todo' = [todo EXCEPT ![c] = {}]
    /\ accounts' = [accounts EXCEPT ![c] = {}]

\* An application calls one of the operations.
StartCall(c, operation) ==
    /\ call[c] = "none"
    /\ Becomes(c, operation)
    /\ UNCHANGED <<ledger, faults, subject, todo, accounts>>

\* AllocateInternalParty: an empty hint is replaced by a fresh uuid; the participant
\* refuses a hint that is taken.
AllocateInternalParty(c, served) ==
    /\ call[c] = "internal"
    /\ \E hintIsFree \in BOOLEAN :
         LET ok == served /\ hintIsFree IN
         \/ Succeeds(ok, Allocating) /\ Becomes(c, "done")
            /\ subject' = [subject EXCEPT ![c] = ledger.allocated + 1]
         \/ Fails(ok, Allocating) /\ Becomes(c, "failed") /\ UNCHANGED subject
    /\ UNCHANGED <<todo, accounts>>

\* AllocateExternalParty, first request: the signed topology transactions.
AllocateExternalParty(c, served) ==
    /\ call[c] = "external"
    /\ \/ /\ Succeeds(served, Allocating)
          /\ subject' = [subject EXCEPT ![c] = ledger.allocated + 1]
          /\ \E grantUserRights \in BOOLEAN :
               Becomes(c, IF grantUserRights THEN "grantExternal" ELSE "done")
       \/ Fails(served, Allocating) /\ Becomes(c, "failed") /\ UNCHANGED subject
    /\ UNCHANGED <<todo, accounts>>

\* Mutant: the rights are granted on the user's primary party.
GrantExternalOnPrimary(c, served) ==
    /\ call[c] = "grantExternal"
    /\ LET effect == Granting(UserID, {ledger.primary[UserID]}) IN
       Succeeds(served, effect) \/ Fails(served, effect)
    /\ Becomes(c, "allocated")
    /\ UNCHANGED <<subject, todo, accounts>>

\* AllocateExternalParty with grantUserRights, second request: an error is only
\* logged, the call reports the party either way.
GrantExternal(c, served) ==
    /\ call[c] = "grantExternal"
    /\ LET effect == Granting(UserID, {subject[c]}) IN
       Succeeds(served, effect) \/ Fails(served, effect)
    /\ Becomes(c, "allocated")
    /\ UNCHANGED <<subject, todo, accounts>>

\* GrantRights: both lists in one request.
GrantRights(c, served) ==
    /\ call[c] = "grantRights"
    /\ \E ps \in SUBSET {ledger.primary[UserID], ledger.dso} :
         \/ Succeeds(served, Granting(UserID, ps)) /\ Becomes(c, "done")
         \/ Fails(served, Granting(UserID, ps)) /\ Becomes(c, "failed")
    /\ UNCHANGED <<subject, todo, accounts>>

\* GrantMasterUserRights: reading as any party and executing as any party are both
\* granted as ParticipantAdmin.
GrantMasterUserRights(c, served) ==
    /\ call[c] = "grantMaster"
    /\ \E anyRight \in BOOLEAN :
         LET effect == IF anyRight THEN [ledger EXCEPT !.admins = @ \cup {UserID}] ELSE ledger IN
         \/ Succeeds(served, effect) /\ Becomes(c, "done")
         \/ Fails(served, effect) /\ Becomes(c, "failed")
    /\ UNCHANGED <<subject, todo, accounts>>

\* CreateUser with rights on its primary party; an existing user is refused.
CreateUser(c, served) ==
    /\ call[c] = "createUser"
    /\ LET ok == served /\ ledger.primary[OtherUser] = NoParty
           effect == Creating(OtherUser, ledger.primary[UserID]) IN
       \/ Succeeds(ok, effect) /\ Becomes(c, "done")
       \/ Fails(ok, effect) /\ Becomes(c, "failed")
    /\ UNCHANGED <<subject, todo, accounts>>

\* ListWallets: a page of the parties the participant knows, whoever acts as them, as
\* RequestAccounts goes on with it.
ListWallets(c, served) ==
    /\ call[c] = "wallets"
    /\ \/ /\ Succeeds(served, ledger)
          /\ \E page \in Pages(ledger.allocated) : todo' = [todo EXCEPT ![c] = page]
          /\ subject' = [subject EXCEPT ![c] = ledger.allocated]
          /\ Becomes(c, "synchronizers")
       \/ Fails(served, ledger) /\ Becomes(c, "failed") /\ UNCHANGED <<todo, subject>>
    /\ UNCHANGED accounts

\* Mutant: a wallet is lost when another party is asked for next.
ListSynchronizersOverwriting(c, served) ==
    /\ call[c] = "synchronizers"
    /\ \E p \in todo[c] :
         /\ todo' = [todo EXCEPT ![c] = @ \ {p}]
         /\ \/ Succeeds(served, ledger) /\ accounts' = [accounts EXCEPT ![c] = {p}]
            \/ Fails(served, ledger) /\ UNCHANGED accounts
    /\ UNCHANGED <<call, subject>>

\* RequestAccounts asks for the synchronizers party by party; a party whose request
\* fails is skipped.
ListSynchronizers(c, served) ==
    /\ call[c] = "synchronizers"
    /\ \E p \in todo[c] :
         /\ todo' = [todo EXCEPT ![c] = @ \ {p}]
         /\ \/ Succeeds(served, ledger) /\ accounts' = [accounts EXCEPT ![c] = @ \cup {p}]
            \/ Fails(served, ledger) /\ UNCHANGED accounts
    /\ UNCHANGED <<call, subject>>

\* RequestAccounts returns what it has collected.
ReturnAccounts(c) ==
    /\ call[c] = "synchronizers"
    /\ todo[c] = {}
    /\ Becomes(c, "listed")
    /\ UNCHANGED <<ledger, faults, subject, todo, accounts>>

AdminStep(c, served) ==
    \/ AllocateInternalParty(c, served) \/ AllocateExternalParty(c, served)
    \/ GrantExternal(c, served) \/ GrantRights(c, served) \/ GrantMasterUserRights(c, served)
    \/ CreateUser(c, served) \/ ListWallets(c, served) \/ ListSynchronizers(c, served)
    \/ ReturnAccounts(c)
=============================================================================
