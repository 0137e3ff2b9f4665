----------------------------- MODULE WalletSession -----------------------------
(***************************************************************************)
(* pkg/sdk/wallet.go: the controllers a WalletSDK holds, the factories     *)
(* Configure gives it for them, in one call or in several, how Connect and *)
(* ConnectAdmin replace them and how SetPartyID writes the party and the   *)
(* synchronizer into them one atomic.Value at a time, while other          *)
(* goroutines read them to prepare a transaction.  Ledger controllers are  *)
(* built as NewLedgerController (pkg/controller/ledger.go) builds them.    *)
(***************************************************************************)
EXTENDS Integers, Sequences

CONSTANTS
    Apps,           \* goroutines that share one WalletSDK
    Parties, Syncs, \* party and synchronizer ids
    Nil             \* a nil pointer, an empty atomic.Value

ASSUME NilAssumption == Nil \notin Parties \cup Syncs

VARIABLES
    factories,  \* what Configure has set: "ledger", "tokenStandard", "validator"
    ctl,        \* the SDK's controller pointers, each Nil or the controller's state
    pc,         \* where each goroutine is
    at,         \* the number of its next SetPartyID store
    party, sync,\* its SetPartyID arguments, or what it has read while preparing
    drafted,    \* the party it drafted a command for with the token standard
    solo,       \* no Connect or SetPartyID of another goroutine overlapped its call
    inForce,    \* party and synchronizer of the last call, if that was a SetPartyID alone
    users       \* the goroutines that have called anything so far

vars == <<factories, ctl, pc, at, party, sync, drafted, solo, inForce, users>>

Holders == {"userLedger", "tokenStandard", "validator"}
Fields  == Holders \cup {"adminLedger"}
Controller == [party : Parties \cup {Nil}, sync : Syncs \cup {Nil},
               bearer : {"user", "admin", "none"}, expired : BOOLEAN,
               ping : {"fresh", "ok", "failed"}]

ASSUME NilIsNoController == Nil \notin Controller

\* Only atomic.Values without a value, and the token Build was given.
Fresh(bearer) == [party |-> Nil, sync |-> Nil, bearer |-> bearer,
                  expired |-> FALSE, ping |-> "fresh"]

\* Mutant: the validator's block copied for the token standard.
StoresTwice == << <<"userLedger", "party">>, <<"userLedger", "sync">>,
                  <<"validator", "party">>, <<"validator", "sync">>,
                  <<"validator", "party">>, <<"validator", "sync">> >>

\* SetPartyID's stores in source order.
Stores == << <<"userLedger", "party">>, <<"userLedger", "sync">>,
             <<"tokenStandard", "party">>, <<"tokenStandard", "sync">>,
             <<"validator", "party">>, <<"validator", "sync">> >>

Connecting == {"token", "ledger", "await", "tokenStandard", "validator"}
Setting    == {"list", "store"}
Preparing  == {"draft", "readParty", "readSync", "send"}
AdminConnecting == {"adminToken", "adminLedger"}
Changing   == Connecting \cup AdminConnecting \cup Setting
Labels     == {"idle", "panic"} \cup Changing \cup Preparing

Factories == {"ledger", "tokenStandard", "validator"}

Init ==
    /\ factories = {}
    /\ ctl = [f \in Fields |-> Nil]
    /\ pc = [a \in Apps |-> "idle"]
    /\ at = [a \in Apps |-> 1]
    /\ party = [a \in Apps |-> Nil]
    /\ sync = [a \in Apps |-> Nil]
    /\ drafted = [a \in Apps |-> Nil]
    /\ solo = [a \in Apps |-> FALSE]
    /\ inForce = Nil
    /\ users = {}

GoTo(a, label) == pc' = [pc EXCEPT ![a] = label]
Locals == <<at, party, sync, drafted>>
Ghosts == <<solo, inForce, users>>

\* The call ends, and its locals with it.
Return(a) ==
    /\ GoTo(a, "idle")
    /\ at' = [at EXCEPT ![a] = 1]
    /\ party' = [party EXCEPT ![a] = Nil]
    /\ sync' = [sync EXCEPT ![a] = Nil]
    /\ drafted' = [drafted EXCEPT ![a] = Nil]

\* A call that changes the session begins: it disturbs every other call.
Disturb(a) ==
    /\ solo' = [b \in Apps |-> b = a /\ \A d \in Apps \ {a} : pc[d] \notin Changing]
    /\ inForce' = Nil
    /\ users' = users \cup {a}
\* Configure sets the factories it is given, in a chain of calls if need be, and keeps the
\* others.
Configure ==
    /\ \E given \in Factories \ factories : factories' = factories \cup {given}
    /\ UNCHANGED <<ctl, pc, Locals, Ghosts>>
-----------------------------------------------------------------------------
(* Connect skips the controllers it has no factory for. *)

Connect(a) ==
    /\ pc[a] = "idle"
    /\ GoTo(a, "token")
    /\ Disturb(a)
    /\ UNCHANGED <<ctl, Locals>>

\* authController.GetUserToken answers or fails.
GetUserToken(a) ==
    /\ pc[a] = "token"
    /\ GoTo(a, "ledger") \/ GoTo(a, "idle")
    /\ UNCHANGED <<ctl, Locals, Ghosts>>

\* Mutant: the factory's error is not looked at.
BuildUnchecked(a) ==
    /\ pc[a] = "ledger"
    /\ \/ "ledger" \notin factories /\ GoTo(a, "tokenStandard") /\ UNCHANGED ctl
       \/ /\ "ledger" \in factories
          /\ \E built \in {Fresh("user"), Nil} : ctl' = [ctl EXCEPT !["userLedger"] = built]
          /\ GoTo(a, "await")
    /\ UNCHANGED <<Locals, Ghosts>>

\* w.userLedger, err = w.ledgerFactory(...): a failed factory leaves nil behind.
BuildUserLedger(a) ==
    /\ pc[a] = "ledger"
    /\ \/ "ledger" \notin factories /\ GoTo(a, "tokenStandard") /\ UNCHANGED ctl
       \/ /\ "ledger" \in factories
          /\ \/ ctl' = [ctl EXCEPT !["userLedger"] = Fresh("user")] /\ GoTo(a, "await")
             \/ ctl' = [ctl EXCEPT !["userLedger"] = Nil] /\ GoTo(a, "idle")
    /\ UNCHANGED <<Locals, Ghosts>>

\* w.userLedger.AwaitInit: the pointer is read again; the controller is pinged
\* once and the outcome kept.
AwaitInit(a) ==
    /\ pc[a] = "await"
    /\ IF ctl["userLedger"] = Nil
       THEN GoTo(a, "panic") /\ UNCHANGED ctl
       ELSE \E outcome \in {"ok", "failed"} :
              /\ ctl["userLedger"].ping \in {"fresh", outcome}
              /\ ctl' = [ctl EXCEPT !["userLedger"].ping = outcome]
              /\ GoTo(a, IF outcome = "ok" THEN "tokenStandard" ELSE "idle")
    /\ UNCHANGED <<Locals, Ghosts>>

BuildTokenStandard(a) ==
    /\ pc[a] = "tokenStandard"
    /\ \/ "tokenStandard" \notin factories /\ GoTo(a, "validator") /\ UNCHANGED ctl
       \/ /\ "tokenStandard" \in factories
          /\ \/ ctl' = [ctl EXCEPT !["tokenStandard"] = Fresh("none")] /\ GoTo(a, "validator")
             \/ ctl' = [ctl EXCEPT !["tokenStandard"] = Nil] /\ GoTo(a, "idle")
    /\ UNCHANGED <<Locals, Ghosts>>

BuildValidator(a) ==
    /\ pc[a] = "validator"
    /\ IF "validator" \in factories
       THEN \E built \in {Fresh("none"), Nil} : ctl' = [ctl EXCEPT !["validator"] = built]
       ELSE UNCHANGED ctl
    /\ GoTo(a, "idle")
    /\ UNCHANGED <<Locals, Ghosts>>
-----------------------------------------------------------------------------
(* ConnectAdmin *)

ConnectAdmin(a) ==
    /\ pc[a] = "idle"
    /\ GoTo(a, "adminToken")
    /\ Disturb(a)
    /\ UNCHANGED <<ctl, Locals>>

GetAdminToken(a) ==
    /\ pc[a] = "adminToken"
    /\ GoTo(a, "adminLedger") \/ GoTo(a, "idle")
    /\ UNCHANGED <<ctl, Locals, Ghosts>>

\* The factory builds the ledger controller with GetUserAccessToken whatever
\* isAdmin says (ledger.go:124); the admin token just fetched is not used.
BuildAdminLedger(a) ==
    /\ pc[a] = "adminLedger"
    /\ IF "ledger" \in factories
       THEN \E built \in {Fresh("user"), Nil} : ctl' = [ctl EXCEPT !["adminLedger"] = built]
       ELSE UNCHANGED ctl
    /\ GoTo(a, "idle")
    /\ UNCHANGED <<Locals, Ghosts>>
-----------------------------------------------------------------------------
(* SetPartyID *)

\* Called with a synchronizer s, or with s = Nil.
SetPartyID(a, p, s) ==
    /\ pc[a] = "idle"
    /\ party' = [party EXCEPT ![a] = p]
    /\ sync' = [sync EXCEPT ![a] = s]
    /\ GoTo(a, IF s = Nil THEN "list" ELSE "store")
    /\ Disturb(a)
    /\ UNCHANGED <<ctl, at, drafted>>

\* No synchronizer given: the first one the ledger lists, or an error.
ListSynchronizers(a) ==
    /\ pc[a] = "list"
    /\ \/ /\ ctl["userLedger"] # Nil
          /\ \E s \in Syncs : sync' = [sync EXCEPT ![a] = s]
          /\ GoTo(a, "store")
          /\ UNCHANGED <<at, party, drafted>>
       \/ Return(a)
    /\ UNCHANGED <<ctl, Ghosts>>

\* Mutant: CompareAndSwap(nil, value).
KeepFirst(field, item, value) ==
    IF ctl[field][item] # Nil THEN ctl
    ELSE [ctl EXCEPT ![field] = [@ EXCEPT ![item] = value]]

\* atomic.Value.Store in SetPartyID and SetSynchronizerID of a controller.
With(field, item, value) == [ctl EXCEPT ![field] = [@ EXCEPT ![item] = value]]

\* The next store.  The pointer is tested before the first store of a controller
\* (a nil one is skipped) and read again, untested, for each store.
StoreField(a) ==
    LET field == Stores[at[a]][1]
        first == Stores[at[a]][2] = "party"
        after == IF first /\ ctl[field] = Nil THEN at[a] + 2 ELSE at[a] + 1
    IN
    /\ pc[a] = "store"
    /\ IF ctl[field] = Nil THEN UNCHANGED ctl
       ELSE ctl' = IF first THEN With(field, "party", party[a])
                   ELSE With(field, "sync", sync[a])
    /\ IF ctl[field] = Nil /\ ~first
       THEN GoTo(a, "panic") /\ UNCHANGED <<Locals, inForce>>
       ELSE IF after <= Len(Stores)
       THEN /\ at' = [at EXCEPT ![a] = after]
            /\ UNCHANGED <<pc, party, sync, drafted, inForce>>
       ELSE /\ Return(a)
            /\ inForce' = IF solo[a] THEN <<party[a], sync[a]>> ELSE Nil
    /\ UNCHANGED <<solo, users>>
-----------------------------------------------------------------------------
(* Preparing a transaction, as applications and pkg/dapp do: the token     *)
(* standard drafts a command for its party, the user ledger prepares it.   *)

Prepare(a) ==
    /\ pc[a] = "idle"
    /\ ctl["tokenStandard"] # Nil
    /\ ctl["userLedger"] # Nil
    /\ GoTo(a, "draft")
    /\ solo' = [solo EXCEPT ![a] = \A b \in Apps : pc[b] \notin Changing]
    /\ users' = users \cup {a}
    /\ UNCHANGED <<ctl, Locals, inForce>>

\* One read of an atomic.Value behind the SDK's accessor into a local: a nil
\* controller panics, an unset value ends the call with "... not set".
Read(a, local, field, item, next) ==
    IF ctl[field] = Nil
    THEN GoTo(a, "panic") /\ UNCHANGED Locals
    ELSE IF ctl[field][item] = Nil
    THEN Return(a)
    ELSE /\ GoTo(a, next)
         /\ LET Into(f) == [f EXCEPT ![a] = ctl[field][item]] IN
            /\ drafted' = IF local = "drafted" THEN Into(drafted) ELSE drafted
            /\ party' = IF local = "party" THEN Into(party) ELSE party
            /\ sync' = IF local = "sync" THEN Into(sync) ELSE sync
            /\ UNCHANGED at

\* TokenStandardController.GetPartyID.
Draft(a) ==
    /\ pc[a] = "draft"
    /\ Read(a, "drafted", "tokenStandard", "party", "readParty")
    /\ UNCHANGED <<ctl, Ghosts>>

\* Mutant: the synchronizer is sent as the party.
ReadPartyAsSync(a) ==
    /\ pc[a] = "readParty"
    /\ Read(a, "party", "userLedger", "sync", "readSync")
    /\ UNCHANGED <<ctl, Ghosts>>

\* PrepareSubmission: GetPartyID, then GetSynchronizerID.
ReadParty(a) ==
    /\ pc[a] = "readParty"
    /\ Read(a, "party", "userLedger", "party", "readSync")
    /\ UNCHANGED <<ctl, Ghosts>>

ReadSync(a) ==
    /\ pc[a] = "readSync"
    /\ Read(a, "sync", "userLedger", "sync", "send")
    /\ UNCHANGED <<ctl, Ghosts>>

\* The request leaves with the bearer token the controller was built with.
Send(a) ==
    /\ pc[a] = "send"
    /\ Return(a)
    /\ UNCHANGED <<ctl, Ghosts>>

\* The token a ledger controller was built with expires; a token outlives the
\* call it was valid for at the start.
ExpireBearer(field) ==
    /\ \A a \in Apps : pc[a] \notin Preparing
    /\ ctl[field] # Nil
    /\ ctl[field].bearer # "none"
    /\ ~ctl[field].expired
    /\ ctl' = [ctl EXCEPT ![field].expired = TRUE]
    /\ UNCHANGED <<pc, Locals, Ghosts>>

Step(a) ==
    \/ Connect(a) \/ GetUserToken(a) \/ BuildUserLedger(a) \/ AwaitInit(a)
    \/ BuildTokenStandard(a) \/ BuildValidator(a)
    \/ ConnectAdmin(a) \/ GetAdminToken(a) \/ BuildAdminLedger(a)
    \/ \E p \in Parties, s \in Syncs \cup {Nil} : SetPartyID(a, p, s)
    \/ ListSynchronizers(a) \/ StoreField(a)
    \/ Prepare(a) \/ Draft(a) \/ ReadParty(a) \/ ReadSync(a) \/ Send(a)

Next ==
    \/ Configure
    \/ /\ \/ \E a \in Apps : Step(a)
          \/ \E f \in Fields : ExpireBearer(f)
       /\ UNCHANGED factories

Spec == Init /\ [][Next]_vars
-----------------------------------------------------------------------------
\* Only one goroutine has used the session so far.
Alone == \E a \in Apps : users \subseteq {a}

\* Typing.  As long as one goroutine uses the session, no sequence of successful and
\* failed calls, a Connect that replaced only some controllers included, drafts for one
\* party and prepares for another.
SessionInv ==
    /\ factories \in SUBSET Factories
    /\ ctl \in [Fields -> Controller \cup {Nil}]
    /\ pc \in [Apps -> Labels]
    /\ at \in [Apps -> 1..Len(Stores)]
    /\ party \in [Apps -> Parties \cup {Nil}]
    /\ sync \in [Apps -> Syncs \cup {Nil}]
    /\ drafted \in [Apps -> Parties \cup {Nil}]
    /\ solo \in [Apps -> BOOLEAN]
    /\ inForce \in (Parties \X Syncs) \cup {Nil}
    /\ users \in SUBSET Apps
    /\ Alone => \A a \in Apps : pc[a] = "send" => drafted[a] = party[a]

Agrees(field) ==
    ctl[field] # Nil => ctl[field].party = inForce[1] /\ ctl[field].sync = inForce[2]

\* After a SetPartyID no other session call overlapped, the user ledger, the token
\* standard and the validator hold that party and synchronizer, until the next
\* Connect or SetPartyID begins, whatever else runs.
SetPartyIDReachesHolders == inForce # Nil => \A f \in Holders : Agrees(f)

\* A transaction prepared while a party is in force and no Connect or SetPartyID
\* overlaps is drafted by, prepared for and routed as that party: the three reads
\* cannot mix two sessions.
PreparedAsOneParty ==
    \A a \in Apps :
        pc[a] = "send" /\ solo[a] /\ inForce # Nil
        => drafted[a] = inForce[1] /\ party[a] = inForce[1] /\ sync[a] = inForce[2]

\* As long as one goroutine uses the session, no sequence of calls makes the SDK
\* dereference a controller that a failed Connect set to nil.
NeverPanics == Alone => \A a \in Apps : pc[a] # "panic"

\* README: `SetPartyID(...)` sets party and synchronizer for all controllers.
SetPartyIDReachesAll == inForce # Nil => \A f \in Fields : Agrees(f)

\* README: `ConnectAdmin(ctx)` connects with the admin token.
AdminLedgerUsesAdminToken ==
    ctl["adminLedger"] # Nil => ctl["adminLedger"].bearer = "admin"

\* README: OAuth2 authentication with token refresh.  No request leaves with a
\* token that has expired.
NoExpiredBearer ==
    [][\A a \in Apps : Send(a) => ctl["userLedger"] # Nil /\ ~ctl["userLedger"].expired]_vars
=============================================================================
