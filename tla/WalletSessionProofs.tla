-------------------------- MODULE WalletSessionProofs --------------------------
(***************************************************************************)
(* Proofs about WalletSession for any goroutines, parties and              *)
(* synchronizers: what a SetPartyID that nothing overlaps leaves behind,   *)
(* what a transaction prepared under it is prepared as, and what one       *)
(* goroutine alone can rely on.                                            *)
(***************************************************************************)
EXTENDS WalletSession, TLAPS

Typed ==
    /\ ctl \in [Fields -> Controller \cup {Nil}]
    /\ pc \in [Apps -> Labels]
    /\ at \in [Apps -> 1..Len(Stores)]
    /\ party \in [Apps -> Parties \cup {Nil}]
    /\ sync \in [Apps -> Syncs \cup {Nil}]
    /\ drafted \in [Apps -> Parties \cup {Nil}]
    /\ solo \in [Apps -> BOOLEAN]
    /\ inForce \in (Parties \X Syncs) \cup {Nil}
    /\ users \in SUBSET Apps

\* SetPartyID has its arguments before it stores, and begins at the first store.
Arguments ==
    \A a \in Apps :
        /\ pc[a] \notin {"store", "panic"} => at[a] = 1
        /\ pc[a] \in Setting => party[a] \in Parties
        /\ pc[a] = "store" => sync[a] \in Syncs

TypedInv == Typed /\ Arguments

\* While a call is solo nobody else changes the session.
SoloInv ==
    \A a, b \in Apps :
        solo[a] /\ pc[a] \in Changing \cup Preparing /\ b # a => pc[b] \notin Changing

\* While a party is in force nobody changes the session.
ForceInv == inForce # Nil => (\A a \in Apps : pc[a] \notin Changing) /\ SetPartyIDReachesHolders

\* What the k-th store of a goroutine is about, and that it is in place.
Field(k) == Stores[k][1]
Item(k)  == Stores[k][2]
Value(a, item) == IF item = "party" THEN party[a] ELSE sync[a]
Holds(a, k) == ctl[Field(k)] # Nil => ctl[Field(k)][Item(k)] = Value(a, Item(k))

\* The stores a solo SetPartyID has made are in place.
StoredInv ==
    \A a \in Apps : pc[a] = "store" /\ solo[a] =>
        \A k \in 1..Len(Stores) : k < at[a] => Holds(a, k)

\* What a solo preparation has read is what is in force.
ReadInv ==
    \A a \in Apps : pc[a] \in Preparing /\ solo[a] /\ inForce # Nil =>
        /\ pc[a] # "draft" => drafted[a] = inForce[1]
        /\ pc[a] \in {"readSync", "send"} => party[a] = inForce[1]
        /\ pc[a] = "send" => sync[a] = inForce[2]

OverlapInv == TypedInv /\ SoloInv /\ ForceInv /\ StoredInv /\ ReadInv

-----------------------------------------------------------------------------
LEMMA StoresFacts ==
    /\ Len(Stores) = 6
    /\ \A k \in 1..6 : Field(k) \in Holders /\ Item(k) \in {"party", "sync"}
    /\ \A k \in 1..6 : Item(k) = "party" => k + 1 \in 1..6 /\ Field(k + 1) = Field(k)
                                            /\ Item(k + 1) = "sync"
    /\ \A h \in Holders, item \in {"party", "sync"} :
         \E k \in 1..6 : Field(k) = h /\ Item(k) = item
BY DEF Stores, Holders, Field, Item

\* A controller stays one when its party or synchronizer is stored or its token expires,
\* and nothing else of the two changes.
LEMMA StoringParty ==
    ASSUME NEW r \in Controller, NEW p \in Parties
    PROVE  \E q \in Controller : q = [r EXCEPT !["party"] = p] /\ q.party = p /\ q.sync = r.sync
<1>1. LET q == [r EXCEPT !["party"] = p] IN q \in Controller /\ q.party = p /\ q.sync = r.sync
  BY DEF Controller
<1>2. QED BY <1>1

LEMMA StoringSync ==
    ASSUME NEW r \in Controller, NEW s \in Syncs
    PROVE  \E q \in Controller : q = [r EXCEPT !["sync"] = s] /\ q.sync = s /\ q.party = r.party
<1>1. LET q == [r EXCEPT !["sync"] = s] IN q \in Controller /\ q.sync = s /\ q.party = r.party
  BY DEF Controller
<1>2. QED BY <1>1

LEMMA Expiring ==
    ASSUME NEW r \in Controller
    PROVE  \E q \in Controller :
              q = [r EXCEPT !["expired"] = TRUE] /\ q.party = r.party /\ q.sync = r.sync
<1>1. LET q == [r EXCEPT !["expired"] = TRUE] IN
        q \in Controller /\ q.party = r.party /\ q.sync = r.sync
  BY DEF Controller
<1>2. QED BY <1>1

LEMMA FreshTypes == Fresh("user") \in Controller /\ Fresh("none") \in Controller
BY DEF Fresh, Controller

\* A store writes one item of one controller, and only where there is one.
LEMMA StoreEffect ==
    ASSUME TypedInv, NEW a \in Apps, StoreField(a),
           NEW k, k = at[a], NEW f, f = Field(k)
    PROVE  /\ k \in 1..6 /\ f \in Holders /\ Item(k) \in {"party", "sync"}
           /\ ctl' \in [Fields -> Controller \cup {Nil}]
           /\ \A g \in Fields : ctl'[g] = Nil <=> ctl[g] = Nil
           /\ \A g \in Fields : g # f => ctl'[g] = ctl[g]
           /\ ctl[f] # Nil /\ Item(k) = "party" =>
                ctl'[f].party = party[a] /\ ctl'[f].sync = ctl[f].sync
           /\ ctl[f] # Nil /\ Item(k) = "sync" =>
                ctl'[f].sync = sync[a] /\ ctl'[f].party = ctl[f].party
<1>1. k \in 1..6 /\ f \in Holders /\ Item(k) \in {"party", "sync"}
  BY StoresFacts DEF TypedInv, Typed
<1>2. party[a] \in Parties /\ sync[a] \in Syncs
  BY DEF StoreField, TypedInv, Arguments, Setting
<1>3. f \in Fields /\ ctl \in [Fields -> Controller \cup {Nil}]
  BY <1>1 DEF Fields, TypedInv, Typed
<1>4. CASE ctl[f] = Nil
  <2>1. ctl' = ctl
    BY <1>4 DEF StoreField, Field
  <2>2. QED BY <1>1, <1>3, <1>4, <2>1
<1>5. CASE ctl[f] # Nil /\ Item(k) = "party"
  <2>1. ctl' = [ctl EXCEPT ![f] = [ctl[f] EXCEPT !["party"] = party[a]]]
    BY <1>5 DEF StoreField, With, Field, Item
  <2>2. ctl[f] \in Controller
    BY <1>3, <1>5
  <2>3. PICK q \in Controller : /\ q = [ctl[f] EXCEPT !["party"] = party[a]]
                                /\ q.party = party[a] /\ q.sync = ctl[f].sync
    BY <1>2, <2>2, StoringParty
  <2>4. ctl' = [ctl EXCEPT ![f] = q]
    BY <2>1, <2>3
  <2>5. QED BY <1>1, <1>3, <1>5, <2>3, <2>4, NilIsNoController
<1>6. CASE ctl[f] # Nil /\ Item(k) = "sync"
  <2>1. ctl' = [ctl EXCEPT ![f] = [ctl[f] EXCEPT !["sync"] = sync[a]]]
    BY <1>6 DEF StoreField, With, Field, Item
  <2>2. ctl[f] \in Controller
    BY <1>3, <1>6
  <2>3. PICK q \in Controller : /\ q = [ctl[f] EXCEPT !["sync"] = sync[a]]
                                /\ q.sync = sync[a] /\ q.party = ctl[f].party
    BY <1>2, <2>2, StoringSync
  <2>4. ctl' = [ctl EXCEPT ![f] = q]
    BY <2>1, <2>3
  <2>5. QED BY <1>1, <1>3, <1>6, <2>3, <2>4, NilIsNoController
<1>7. QED BY <1>1, <1>4, <1>5, <1>6

\* Where a store leaves the goroutine: without a controller, at the next store, or done.
LEMMA StoreMoves ==
    ASSUME TypedInv, NEW a \in Apps, StoreField(a),
           NEW k, k = at[a], NEW f, f = Field(k),
           NEW n, n = IF Item(k) = "party" /\ ctl[f] = Nil THEN k + 2 ELSE k + 1
    PROVE  /\ pc[a] = "store" /\ n \in 2..7
           /\ \/ /\ ctl[f] = Nil /\ Item(k) = "sync"
                 /\ GoTo(a, "panic") /\ UNCHANGED <<at, party, sync, drafted, inForce>>
              \/ /\ ~(ctl[f] = Nil /\ Item(k) = "sync")
                 /\ n <= 6 /\ at' = [at EXCEPT ![a] = n]
                 /\ UNCHANGED <<pc, party, sync, drafted, inForce>>
              \/ /\ ~(ctl[f] = Nil /\ Item(k) = "sync")
                 /\ n = 7 /\ Return(a)
                 /\ inForce' = IF solo[a] THEN <<party[a], sync[a]>> ELSE Nil
           /\ UNCHANGED <<solo, users>>
<1>1. /\ at[a] \in 1..6 /\ Len(Stores) = 6 /\ Item(at[a]) \in {"party", "sync"}
      /\ Item(at[a]) = "party" => at[a] + 1 \in 1..6
  BY StoresFacts DEF TypedInv, Typed
<1>2. QED BY <1>1 DEF StoreField, Field, Item, Locals

-----------------------------------------------------------------------------
\* A call of Connect, ConnectAdmin or SetPartyID.
Begins(a) ==
    Connect(a) \/ ConnectAdmin(a) \/ \E p \in Parties, s \in Syncs \cup {Nil} : SetPartyID(a, p, s)

\* A step inside Connect or ConnectAdmin.
Rebuilds(a) ==
    \/ GetUserToken(a) \/ BuildUserLedger(a) \/ AwaitInit(a) \/ BuildTokenStandard(a)
    \/ BuildValidator(a) \/ GetAdminToken(a) \/ BuildAdminLedger(a)

\* A read of a preparation, or its end.
Reads(a) == Draft(a) \/ ReadParty(a) \/ ReadSync(a) \/ Send(a)

\* Everything but the factories, which only the steps of Connect and ConnectAdmin read.
session == <<ctl, pc, Locals, Ghosts>>

LEMMA NextCases ==
    ASSUME [Next]_vars
    PROVE  \/ \E a \in Apps : Begins(a) \/ Rebuilds(a) \/ ListSynchronizers(a) \/ StoreField(a)
                              \/ Prepare(a) \/ Reads(a)
           \/ \E f \in Fields : ExpireBearer(f)
           \/ UNCHANGED session
<1>1. CASE UNCHANGED vars \/ Configure
  BY <1>1 DEF vars, session, Configure, Locals, Ghosts
<1>2. ASSUME NEW a \in Apps, Step(a)
      PROVE  Begins(a) \/ Rebuilds(a) \/ ListSynchronizers(a) \/ StoreField(a) \/ Prepare(a) \/ Reads(a)
  BY <1>2 DEF Step, Begins, Rebuilds, Reads
<1>3. QED BY <1>1, <1>2 DEF Next

\* The locals of a goroutine that returns are cleared.
LEMMA Returned ==
    ASSUME Typed, NEW a \in Apps, Return(a)
    PROVE  /\ pc' = [pc EXCEPT ![a] = "idle"] /\ at'[a] = 1
           /\ at' \in [Apps -> 1..Len(Stores)] /\ party' \in [Apps -> Parties \cup {Nil}]
           /\ sync' \in [Apps -> Syncs \cup {Nil}] /\ drafted' \in [Apps -> Parties \cup {Nil}]
           /\ \A b \in Apps : b # a => /\ at'[b] = at[b] /\ party'[b] = party[b]
                                       /\ sync'[b] = sync[b] /\ drafted'[b] = drafted[b]
BY StoresFacts DEF Return, GoTo, Typed

\* What a beginning call does.
LEMMA BeginsEffect ==
    ASSUME TypedInv, NEW a \in Apps, Begins(a)
    PROVE  /\ TypedInv' /\ pc[a] = "idle" /\ pc'[a] \in Changing /\ UNCHANGED <<ctl, at, drafted>>
           /\ \A b \in Apps : b # a => pc'[b] = pc[b] /\ party'[b] = party[b] /\ sync'[b] = sync[b]
           /\ pc'[a] = "store" => at'[a] = at[a]
           /\ Disturb(a)
<1>1. pc[a] = "idle" /\ Disturb(a) /\ UNCHANGED <<ctl, at, drafted>>
  BY DEF Begins, Connect, ConnectAdmin, SetPartyID, Locals
<1>2. CASE Connect(a) \/ ConnectAdmin(a)
  <2>1. PICK label \in {"token", "adminToken"} : pc' = [pc EXCEPT ![a] = label]
    BY <1>2 DEF Connect, ConnectAdmin, GoTo
  <2>2. UNCHANGED <<party, sync>>
    BY <1>2 DEF Connect, ConnectAdmin, Locals
  <2>3. TypedInv'
    BY <1>1, <2>1, <2>2
    DEF TypedInv, Typed, Arguments, Setting, Disturb, Labels, Changing, Connecting, AdminConnecting
  <2>4. QED BY <1>1, <2>1, <2>2, <2>3 DEF TypedInv, Typed, Changing, Connecting, AdminConnecting
<1>3. ASSUME NEW p \in Parties, NEW s \in Syncs \cup {Nil}, SetPartyID(a, p, s)
      PROVE  /\ TypedInv' /\ pc'[a] \in Changing
             /\ \A b \in Apps : b # a => pc'[b] = pc[b] /\ party'[b] = party[b] /\ sync'[b] = sync[b]
  <2>1. /\ pc' = [pc EXCEPT ![a] = IF s = Nil THEN "list" ELSE "store"]
        /\ party' = [party EXCEPT ![a] = p] /\ sync' = [sync EXCEPT ![a] = s]
    BY <1>3 DEF SetPartyID, GoTo
  <2>2. TypedInv'
    BY <1>1, <2>1 DEF TypedInv, Typed, Arguments, Setting, Disturb, Labels, Changing
  <2>3. QED BY <2>1, <2>2 DEF TypedInv, Typed, Changing, Setting
<1>4. QED BY <1>1, <1>2, <1>3 DEF Begins

\* What a step of a connecting call does.
LEMMA RebuildsEffect ==
    ASSUME TypedInv, NEW a \in Apps, Rebuilds(a)
    PROVE  /\ TypedInv' /\ pc[a] \in Connecting \cup AdminConnecting
           /\ pc'[a] \in Connecting \cup AdminConnecting \cup {"idle", "panic"}
           /\ \A b \in Apps : b # a => pc'[b] = pc[b]
           /\ UNCHANGED <<Locals, Ghosts>>
<1>1. /\ pc[a] \in Connecting \cup AdminConnecting /\ UNCHANGED <<Locals, Ghosts>>
      /\ \E label \in Connecting \cup AdminConnecting \cup {"idle", "panic"} :
            pc' = [pc EXCEPT ![a] = label]
  BY DEF Rebuilds, GetUserToken, BuildUserLedger, AwaitInit, BuildTokenStandard, BuildValidator,
         GetAdminToken, BuildAdminLedger, GoTo, Connecting, AdminConnecting
<1>2. ctl' \in [Fields -> Controller \cup {Nil}]
  <2>1. CASE AwaitInit(a)
    <3>1. CASE UNCHANGED ctl
      BY <3>1 DEF TypedInv, Typed
    <3>2. CASE ~UNCHANGED ctl
      <4>1. PICK outcome \in {"ok", "failed"} :
              /\ ctl["userLedger"] # Nil
              /\ ctl' = [ctl EXCEPT !["userLedger"] = [ctl["userLedger"] EXCEPT !.ping = outcome]]
        BY <2>1, <3>2 DEF AwaitInit
      <4>2. ctl["userLedger"] \in Controller
        BY <4>1 DEF TypedInv, Typed, Fields, Holders
      <4>3. [ctl["userLedger"] EXCEPT !.ping = outcome] \in Controller
        BY <4>2 DEF Controller
      <4>4. QED BY <4>1, <4>3 DEF TypedInv, Typed
    <3>3. QED BY <3>1, <3>2
  <2>2. CASE ~AwaitInit(a)
    BY <2>2, FreshTypes
    DEF TypedInv, Typed, Rebuilds, GetUserToken, BuildUserLedger, BuildTokenStandard,
        BuildValidator, GetAdminToken, BuildAdminLedger
  <2>3. QED BY <2>1, <2>2
<1>3. TypedInv'
  BY <1>1, <1>2
  DEF TypedInv, Typed, Arguments, Locals, Ghosts, Labels, Changing, Setting, Connecting, AdminConnecting
<1>4. QED BY <1>1, <1>3 DEF TypedInv, Typed

\* What listing the synchronizers does.
LEMMA ListEffect ==
    ASSUME TypedInv, NEW a \in Apps, ListSynchronizers(a)
    PROVE  /\ TypedInv' /\ pc[a] = "list" /\ pc'[a] \in {"store", "idle"}
           /\ pc'[a] = "store" => ctl["userLedger"] # Nil
           /\ \A b \in Apps : b # a => /\ pc'[b] = pc[b] /\ at'[b] = at[b] /\ party'[b] = party[b]
                                       /\ sync'[b] = sync[b] /\ drafted'[b] = drafted[b]
           /\ at'[a] \in {1, at[a]}
           /\ UNCHANGED <<ctl, solo, inForce, users>>
<1>1. pc[a] = "list" /\ UNCHANGED <<ctl, solo, inForce, users>>
  BY DEF ListSynchronizers, Ghosts
<1>2. CASE Return(a)
  <2>1. TypedInv'
    BY <1>1, <1>2, Returned DEF TypedInv, Typed, Arguments, Setting, Labels
  <2>2. QED BY <1>1, <1>2, <2>1, Returned DEF Return, GoTo, TypedInv, Typed
<1>3. CASE ~Return(a)
  <2>1. PICK s \in Syncs : /\ sync' = [sync EXCEPT ![a] = s]
                           /\ pc' = [pc EXCEPT ![a] = "store"]
                           /\ UNCHANGED <<at, party, drafted>> /\ ctl["userLedger"] # Nil
    BY <1>3 DEF ListSynchronizers, GoTo
  <2>2. TypedInv'
    BY <1>1, <2>1 DEF TypedInv, Typed, Arguments, Setting, Labels, Changing
  <2>3. QED BY <1>1, <2>1, <2>2 DEF TypedInv, Typed
<1>4. QED BY <1>2, <1>3

\* A store keeps the types.
LEMMA StoreKeepsTypes ==
    ASSUME TypedInv, NEW a \in Apps, StoreField(a)
    PROVE  /\ TypedInv' /\ pc[a] = "store" /\ pc'[a] \in {"store", "idle", "panic"}
           /\ \A b \in Apps : b # a => /\ pc'[b] = pc[b] /\ at'[b] = at[b] /\ party'[b] = party[b]
                                       /\ sync'[b] = sync[b] /\ drafted'[b] = drafted[b]
           /\ UNCHANGED <<solo, users>>
<1> DEFINE k == at[a]
           f == Field(k)
           n == IF Item(k) = "party" /\ ctl[f] = Nil THEN k + 2 ELSE k + 1
<1>1. ctl' \in [Fields -> Controller \cup {Nil}]
  BY StoreEffect
<1>2. /\ pc[a] = "store" /\ n \in 2..7
      /\ \/ pc' = [pc EXCEPT ![a] = "panic"] /\ UNCHANGED <<at, party, sync, drafted, inForce>>
         \/ n <= 6 /\ at' = [at EXCEPT ![a] = n] /\ UNCHANGED <<pc, party, sync, drafted, inForce>>
         \/ Return(a) /\ inForce' = IF solo[a] THEN <<party[a], sync[a]>> ELSE Nil
      /\ UNCHANGED <<solo, users>>
  BY StoreMoves DEF GoTo
<1> HIDE DEF n
<1>3. n \in Int /\ (n <= 6 => n \in 1..Len(Stores))
  BY <1>2, StoresFacts
<1>4. party[a] \in Parties /\ sync[a] \in Syncs
  BY <1>2 DEF TypedInv, Arguments, Setting
<1>5. CASE pc' = [pc EXCEPT ![a] = "panic"] /\ UNCHANGED <<at, party, sync, drafted, inForce>>
  BY <1>1, <1>2, <1>5 DEF TypedInv, Typed, Arguments, Setting, Labels
<1>6. CASE n <= 6 /\ at' = [at EXCEPT ![a] = n] /\ UNCHANGED <<pc, party, sync, drafted, inForce>>
  BY <1>1, <1>2, <1>3, <1>6 DEF TypedInv, Typed, Arguments
<1>7. CASE Return(a) /\ inForce' = IF solo[a] THEN <<party[a], sync[a]>> ELSE Nil
  <2>1. inForce' \in (Parties \X Syncs) \cup {Nil}
    BY <1>4, <1>7
  <2>2. TypedInv'
    BY <1>1, <1>2, <1>7, <2>1, Returned DEF TypedInv, Typed, Arguments, Setting, Labels
  <2>3. QED BY <1>2, <1>7, <2>2, Returned DEF TypedInv, Typed
<1>8. QED BY <1>2, <1>5, <1>6, <1>7

LEMMA PrepareEffect ==
    ASSUME TypedInv, NEW a \in Apps, Prepare(a)
    PROVE  /\ TypedInv' /\ pc[a] = "idle" /\ pc'[a] = "draft"
           /\ ctl["tokenStandard"] # Nil /\ ctl["userLedger"] # Nil
           /\ \A b \in Apps : b # a => pc'[b] = pc[b] /\ solo'[b] = solo[b]
           /\ solo'[a] = \A b \in Apps : pc[b] \notin Changing
           /\ users' = users \cup {a} /\ UNCHANGED <<ctl, at, party, sync, drafted, inForce>>
<1>1. /\ pc' = [pc EXCEPT ![a] = "draft"] /\ pc[a] = "idle"
      /\ solo' = [solo EXCEPT ![a] = \A b \in Apps : pc[b] \notin Changing]
      /\ users' = users \cup {a} /\ UNCHANGED <<ctl, at, party, sync, drafted, inForce>>
      /\ ctl["tokenStandard"] # Nil /\ ctl["userLedger"] # Nil
  BY DEF Prepare, GoTo, Locals
<1>2. (\A b \in Apps : pc[b] \notin Changing) \in BOOLEAN
  OBVIOUS
<1>3. TypedInv'
  BY <1>1, <1>2 DEF TypedInv, Typed, Arguments, Setting, Labels, Preparing
<1>4. QED BY <1>1, <1>3 DEF TypedInv, Typed

\* What a read, or the end of a preparation, does.
LEMMA ReadsEffect ==
    ASSUME TypedInv, NEW a \in Apps, Reads(a)
    PROVE  /\ TypedInv' /\ pc[a] \in Preparing /\ UNCHANGED <<ctl, Ghosts>>
           /\ \A b \in Apps : b # a => /\ pc'[b] = pc[b] /\ at'[b] = at[b] /\ party'[b] = party[b]
                                       /\ sync'[b] = sync[b] /\ drafted'[b] = drafted[b]
           /\ \/ pc'[a] = "idle"
              \/ pc'[a] = "panic" /\ (ctl["tokenStandard"] = Nil \/ ctl["userLedger"] = Nil)
              \/ /\ pc[a] = "draft" /\ pc'[a] = "readParty"
                 /\ drafted'[a] = ctl["tokenStandard"].party /\ drafted'[a] # Nil
                 /\ ctl["tokenStandard"] # Nil
              \/ /\ pc[a] = "readParty" /\ pc'[a] = "readSync" /\ drafted'[a] = drafted[a]
                 /\ party'[a] = ctl["userLedger"].party /\ party'[a] # Nil
                 /\ ctl["userLedger"] # Nil
              \/ /\ pc[a] = "readSync" /\ pc'[a] = "send" /\ drafted'[a] = drafted[a]
                 /\ party'[a] = party[a] /\ sync'[a] = ctl["userLedger"].sync
                 /\ ctl["userLedger"] # Nil
<1>1. pc[a] \in Preparing /\ UNCHANGED <<ctl, Ghosts>>
  BY DEF Reads, Draft, ReadParty, ReadSync, Send, Preparing
<1>2. CASE Return(a)
  <2>1. TypedInv'
    BY <1>1, <1>2, Returned DEF TypedInv, Typed, Arguments, Setting, Labels, Ghosts
  <2>2. QED BY <1>1, <1>2, <2>1, Returned DEF TypedInv, Typed
<1>3. CASE GoTo(a, "panic") /\ UNCHANGED Locals /\ (ctl["tokenStandard"] = Nil \/ ctl["userLedger"] = Nil)
  BY <1>1, <1>3 DEF GoTo, Locals, Ghosts, TypedInv, Typed, Arguments, Setting, Labels
<1>4. ASSUME NEW f \in {"tokenStandard", "userLedger"}, ctl[f] # Nil
      PROVE  ctl[f].party \in Parties \cup {Nil} /\ ctl[f].sync \in Syncs \cup {Nil}
  BY <1>4 DEF TypedInv, Typed, Controller, Fields, Holders
<1>5. CASE /\ pc[a] = "draft" /\ GoTo(a, "readParty")
           /\ drafted' = [drafted EXCEPT ![a] = ctl["tokenStandard"].party]
           /\ ctl["tokenStandard"].party # Nil /\ ctl["tokenStandard"] # Nil
           /\ UNCHANGED <<party, sync, at>>
  <2>1. TypedInv'
    BY <1>1, <1>4, <1>5 DEF GoTo, TypedInv, Typed, Arguments, Setting, Labels, Preparing, Ghosts
  <2>2. QED BY <1>1, <1>5, <2>1 DEF GoTo, TypedInv, Typed
<1>6. CASE /\ pc[a] = "readParty" /\ GoTo(a, "readSync")
           /\ party' = [party EXCEPT ![a] = ctl["userLedger"].party]
           /\ ctl["userLedger"].party # Nil /\ ctl["userLedger"] # Nil
           /\ UNCHANGED <<drafted, sync, at>>
  <2>1. TypedInv'
    BY <1>1, <1>4, <1>6 DEF GoTo, TypedInv, Typed, Arguments, Setting, Labels, Preparing, Ghosts
  <2>2. QED BY <1>1, <1>6, <2>1 DEF GoTo, TypedInv, Typed
<1>7. CASE /\ pc[a] = "readSync" /\ GoTo(a, "send")
           /\ sync' = [sync EXCEPT ![a] = ctl["userLedger"].sync]
           /\ ctl["userLedger"] # Nil
           /\ UNCHANGED <<drafted, party, at>>
  <2>1. TypedInv'
    BY <1>1, <1>4, <1>7 DEF GoTo, TypedInv, Typed, Arguments, Setting, Labels, Preparing, Ghosts
  <2>2. QED BY <1>1, <1>7, <2>1 DEF GoTo, TypedInv, Typed
<1>8. QED
  <2>1. CASE Draft(a)
    BY <2>1, <1>2, <1>3, <1>5 DEF Draft, Read
  <2>2. CASE ReadParty(a)
    BY <2>2, <1>2, <1>3, <1>6 DEF ReadParty, Read
  <2>3. CASE ReadSync(a)
    BY <2>3, <1>2, <1>3, <1>7 DEF ReadSync, Read
  <2>4. CASE Send(a)
    BY <2>4, <1>2 DEF Send
  <2>5. QED BY <2>1, <2>2, <2>3, <2>4 DEF Reads

\* An expiry changes neither a party nor a synchronizer.
LEMMA ExpireEffect ==
    ASSUME TypedInv, NEW f \in Fields, ExpireBearer(f)
    PROVE  /\ TypedInv' /\ UNCHANGED <<pc, Locals, Ghosts>>
           /\ \A g \in Fields : /\ ctl'[g] = Nil <=> ctl[g] = Nil
                                /\ ctl'[g].party = ctl[g].party /\ ctl'[g].sync = ctl[g].sync
<1>1. /\ ctl[f] # Nil /\ ctl' = [ctl EXCEPT ![f] = [ctl[f] EXCEPT !.expired = TRUE]]
      /\ UNCHANGED <<pc, Locals, Ghosts>>
  BY DEF ExpireBearer
<1>2. ctl[f] \in Controller
  BY <1>1 DEF TypedInv, Typed
<1>3. PICK q \in Controller : /\ q = [ctl[f] EXCEPT !["expired"] = TRUE]
                              /\ q.party = ctl[f].party /\ q.sync = ctl[f].sync
  BY <1>2, Expiring
<1>4. ctl' = [ctl EXCEPT ![f] = q]
  BY <1>1, <1>3
<1>5. TypedInv'
  BY <1>1, <1>4 DEF TypedInv, Typed, Arguments, Locals, Ghosts
<1>6. QED BY <1>1, <1>3, <1>4, <1>5, NilIsNoController DEF TypedInv, Typed

-----------------------------------------------------------------------------
LEMMA TypedInvInit == Init => TypedInv
BY StoresFacts DEF Init, TypedInv, Typed, Arguments, Setting, Labels

LEMMA TypedInvStep == TypedInv /\ [Next]_vars => TypedInv'
<1> SUFFICES ASSUME TypedInv, [Next]_vars PROVE TypedInv'
  OBVIOUS
<1>1. CASE UNCHANGED session
  BY <1>1 DEF session, Locals, Ghosts, TypedInv, Typed, Arguments
<1>2. QED
  BY <1>1, NextCases, BeginsEffect, RebuildsEffect, ListEffect, StoreKeepsTypes, PrepareEffect,
     ReadsEffect, ExpireEffect

-----------------------------------------------------------------------------
\* What overlaps what.
LEMMA OverlapInit == Init => OverlapInv
<1> SUFFICES ASSUME Init PROVE OverlapInv
  OBVIOUS
<1>1. (\A a \in Apps : pc[a] = "idle") /\ inForce = Nil
  BY DEF Init
<1>2. SoloInv /\ ForceInv /\ StoredInv /\ ReadInv
  BY <1>1
  DEF SoloInv, ForceInv, StoredInv, ReadInv, Changing, Preparing, Connecting, AdminConnecting, Setting
<1>3. QED BY <1>2, TypedInvInit DEF OverlapInv

\* Changing, preparing, and neither.
LEMMA LabelsApart ==
    /\ \A label \in Preparing \cup {"idle", "panic"} : label \notin Changing
    /\ {"list", "store"} \cup Connecting \cup AdminConnecting \subseteq Changing
    /\ "idle" \notin Preparing /\ "panic" \notin Preparing
    /\ "store" \notin Connecting \cup AdminConnecting \cup Preparing
    /\ \A label \in Changing : label \notin Preparing
BY DEF Changing, Preparing, Connecting, AdminConnecting, Setting

\* Nobody who was not changing the session starts to, nobody starts a preparation.
LEMMA SoloKept ==
    ASSUME SoloInv, UNCHANGED solo,
           \A a \in Apps : /\ pc'[a] \in Changing => pc[a] \in Changing
                           /\ pc'[a] \in Preparing => pc[a] \in Preparing
    PROVE  SoloInv'
BY DEF SoloInv

\* A store stays in place where no party and no synchronizer changes.
LEMMA HoldsKept ==
    ASSUME NEW b \in Apps, NEW k \in 1..Len(Stores), Holds(b, k),
           \A g \in Fields : /\ ctl'[g] = Nil <=> ctl[g] = Nil
                             /\ ctl'[g].party = ctl[g].party /\ ctl'[g].sync = ctl[g].sync,
           party'[b] = party[b], sync'[b] = sync[b]
    PROVE  Holds(b, k)'
<1>1. Field(k) \in Fields /\ Item(k) \in {"party", "sync"}
  BY StoresFacts DEF Fields
<1>2. CASE Item(k) = "party"
  BY <1>1, <1>2 DEF Holds, Value, Field, Item
<1>3. CASE Item(k) = "sync"
  BY <1>1, <1>3 DEF Holds, Value, Field, Item
<1>4. QED BY <1>1, <1>2, <1>3

\* After a store it and those before it are in place.
LEMMA StoresInPlace ==
    ASSUME TypedInv, NEW a \in Apps, StoreField(a),
           NEW k, k = at[a], NEW f, f = Field(k),
           NEW n, n = IF Item(k) = "party" /\ ctl[f] = Nil THEN k + 2 ELSE k + 1,
           \A j \in 1..6 : j < k => Holds(a, j),
           NEW j \in 1..6, j < n, ctl'[Field(j)] # Nil
    PROVE  ctl'[Field(j)][Item(j)] = Value(a, Item(j))
<1>1. /\ k \in 1..6 /\ f \in Holders /\ Item(k) \in {"party", "sync"}
      /\ \A g \in Fields : ctl'[g] = Nil <=> ctl[g] = Nil
      /\ \A g \in Fields : g # f => ctl'[g] = ctl[g]
      /\ ctl[f] # Nil /\ Item(k) = "party" =>
           ctl'[f].party = party[a] /\ ctl'[f].sync = ctl[f].sync
      /\ ctl[f] # Nil /\ Item(k) = "sync" =>
           ctl'[f].sync = sync[a] /\ ctl'[f].party = ctl[f].party
  BY StoreEffect
<1>2. Field(j) \in Fields /\ Item(j) \in {"party", "sync"} /\ f \in Fields
  BY <1>1, StoresFacts DEF Fields
<1>3. CASE j < k
  <2>1. ctl[Field(j)] # Nil /\ ctl[Field(j)][Item(j)] = Value(a, Item(j))
    BY <1>1, <1>2, <1>3 DEF Holds
  <2>2. CASE Field(j) # f
    BY <1>1, <1>2, <2>1, <2>2
  <2>3. CASE Field(j) = f /\ Item(j) = "party"
    BY <1>1, <2>1, <2>3 DEF Value
  <2>4. CASE Field(j) = f /\ Item(j) = "sync"
    BY <1>1, <2>1, <2>4 DEF Value
  <2>5. QED BY <1>2, <2>2, <2>3, <2>4
<1>4. CASE j = k
  <2>1. ctl[f] # Nil
    BY <1>1, <1>2, <1>4
  <2>2. CASE Item(j) = "party"
    BY <1>1, <1>4, <2>1, <2>2 DEF Value
  <2>3. CASE Item(j) = "sync"
    BY <1>1, <1>4, <2>1, <2>3 DEF Value
  <2>4. QED BY <1>2, <2>2, <2>3
<1>5. CASE j = k + 1
  <2>1. Item(k) = "party" /\ ctl[f] = Nil
    BY <1>1, <1>5
  <2>2. Field(j) = f
    BY <1>1, <1>5, <2>1, StoresFacts
  <2>3. QED BY <1>1, <1>2, <2>1, <2>2
<1>6. QED BY <1>1, <1>3, <1>4, <1>5

\* The last store of a SetPartyID that nothing overlapped puts its party in force.
LEMMA SetPartyIDDone ==
    ASSUME TypedInv, NEW a \in Apps, NEW p, NEW s,
           \A j \in 1..6 : ctl'[Field(j)] # Nil =>
               ctl'[Field(j)][Item(j)] = IF Item(j) = "party" THEN p ELSE s,
           inForce' = <<p, s>>
    PROVE  SetPartyIDReachesHolders'
<1>1. ASSUME NEW h \in Holders, ctl'[h] # Nil
      PROVE  ctl'[h].party = p /\ ctl'[h].sync = s
  <2>1. PICK j \in 1..6 : Field(j) = h /\ Item(j) = "party"
    BY StoresFacts
  <2>2. PICK l \in 1..6 : Field(l) = h /\ Item(l) = "sync"
    BY StoresFacts
  <2>3. ctl'[h].party = p
    BY <1>1, <2>1
  <2>4. ctl'[h].sync = s
    BY <1>1, <2>2
  <2>5. QED BY <2>3, <2>4
<1>2. QED BY <1>1 DEF SetPartyIDReachesHolders, Agrees

\* A step of a goroutine that reads only, or of none: what the others stored stays.
LEMMA QuietStep ==
    ASSUME OverlapInv, TypedInv', UNCHANGED inForce,
           \A g \in Fields : /\ ctl'[g] = Nil <=> ctl[g] = Nil
                             /\ ctl'[g].party = ctl[g].party /\ ctl'[g].sync = ctl[g].sync,
           \A b \in Apps : pc'[b] \in Changing => pc[b] \in Changing,
           \A b \in Apps : pc'[b] = "store" => /\ pc[b] = "store" /\ solo'[b] = solo[b]
                                               /\ at'[b] = at[b] /\ party'[b] = party[b]
                                               /\ sync'[b] = sync[b]
    PROVE  ForceInv' /\ StoredInv'
<1>1. ForceInv'
  <2>1. inForce # Nil => \A h \in Holders : Agrees(h)'
    BY DEF OverlapInv, ForceInv, SetPartyIDReachesHolders, Agrees, Fields
  <2>2. QED BY <2>1 DEF OverlapInv, ForceInv, SetPartyIDReachesHolders
<1>2. ASSUME NEW b \in Apps, pc'[b] = "store", solo'[b], NEW k \in 1..Len(Stores), k < at'[b]
      PROVE  Holds(b, k)'
  <2>1. Holds(b, k)
    BY <1>2 DEF OverlapInv, StoredInv
  <2>2. QED BY <1>2, <2>1, HoldsKept
<1>3. QED BY <1>1, <1>2 DEF StoredInv

LEMMA OverlapStep == OverlapInv /\ [Next]_vars => OverlapInv'
<1> SUFFICES ASSUME OverlapInv, [Next]_vars PROVE OverlapInv'
  OBVIOUS
<1>0. TypedInv /\ TypedInv'
  BY TypedInvStep DEF OverlapInv
<1>1. ASSUME NEW a \in Apps, Begins(a) PROVE OverlapInv'
  <2>1. /\ pc[a] = "idle" /\ pc'[a] \in Changing /\ UNCHANGED <<ctl, at>> /\ Disturb(a)
        /\ \A b \in Apps : b # a => pc'[b] = pc[b]
    BY <1>0, <1>1, BeginsEffect
  <2>2. inForce' = Nil /\ \A b \in Apps : solo'[b] => b = a /\ \A d \in Apps \ {a} : pc[d] \notin Changing
    BY <2>1 DEF Disturb
  <2>3. SoloInv'
    BY <2>1, <2>2 DEF SoloInv
  <2>4. ForceInv' /\ ReadInv'
    BY <2>2 DEF ForceInv, ReadInv
  <2>5. at'[a] = 1
    BY <1>0, <2>1 DEF TypedInv, Arguments
  <2>6. StoredInv'
    BY <2>2, <2>5 DEF StoredInv
  <2>7. QED BY <1>0, <2>3, <2>4, <2>6 DEF OverlapInv
<1>2. ASSUME NEW a \in Apps, Rebuilds(a) \/ ListSynchronizers(a) PROVE OverlapInv'
  <2>1. /\ pc[a] \in Changing /\ pc'[a] \notin Preparing
        /\ pc'[a] = "store" => at'[a] = 1
        /\ \A b \in Apps : b # a => pc'[b] = pc[b]
        /\ UNCHANGED <<solo, inForce>>
    <3>1. CASE Rebuilds(a)
      BY <1>0, <3>1, RebuildsEffect, LabelsApart DEF Ghosts
    <3>2. CASE ListSynchronizers(a)
      <4>1. pc[a] = "list" /\ at[a] = 1
        BY <1>0, <3>2, ListEffect DEF TypedInv, Arguments
      <4>2. QED BY <1>0, <3>2, <4>1, ListEffect, LabelsApart
    <3>3. QED BY <1>2, <3>1, <3>2
  <2>2. inForce = Nil
    BY <2>1 DEF OverlapInv, ForceInv
  <2>3. ForceInv' /\ ReadInv'
    BY <2>1, <2>2 DEF ForceInv, ReadInv
  <2>4. SoloInv'
    BY <2>1, SoloKept DEF OverlapInv
  <2>5. \A b \in Apps : pc'[b] = "store" /\ solo'[b] => b = a
    BY <2>1, LabelsApart DEF OverlapInv, SoloInv
  <2>6. StoredInv'
    BY <2>1, <2>5 DEF StoredInv
  <2>7. QED BY <1>0, <2>3, <2>4, <2>6 DEF OverlapInv
<1>3. ASSUME NEW a \in Apps, StoreField(a) PROVE OverlapInv'
  <2> DEFINE k == at[a]
             f == Field(k)
             n == IF Item(k) = "party" /\ ctl[f] = Nil THEN k + 2 ELSE k + 1
  <2>1. /\ pc[a] = "store" /\ pc'[a] \in {"store", "idle", "panic"}
        /\ \A b \in Apps : b # a => pc'[b] = pc[b]
        /\ UNCHANGED <<solo, users>>
    BY <1>0, <1>3, StoreKeepsTypes
  <2>2. /\ n \in 2..7
        /\ \/ pc'[a] = "panic" /\ UNCHANGED inForce
           \/ /\ n <= 6 /\ at'[a] = n /\ UNCHANGED <<pc, party, sync, inForce>>
           \/ /\ n = 7 /\ pc'[a] = "idle"
              /\ inForce' = IF solo[a] THEN <<party[a], sync[a]>> ELSE Nil
    BY <1>0, <1>3, StoreMoves DEF GoTo, Return, TypedInv, Typed
  <2>3. \A j \in 1..6 : j < n /\ solo[a] /\ ctl'[Field(j)] # Nil =>
          ctl'[Field(j)][Item(j)] = Value(a, Item(j))
    <3>1. solo[a] => \A j \in 1..6 : j < k => Holds(a, j)
      BY <2>1, StoresFacts DEF OverlapInv, StoredInv
    <3>2. QED BY <1>0, <1>3, <3>1, StoresInPlace
  <2> HIDE DEF n
  <2>4. inForce = Nil /\ \A b \in Apps : solo[b] /\ b # a => pc[b] \notin Changing \cup Preparing
    BY <2>1, LabelsApart DEF OverlapInv, ForceInv, SoloInv
  <2>5. SoloInv'
    BY <2>1, LabelsApart, SoloKept DEF OverlapInv
  <2>6. ForceInv' /\ ReadInv'
    <3>1. CASE inForce' = Nil
      BY <3>1 DEF ForceInv, ReadInv
    <3>2. CASE inForce' # Nil
      <4>1. n = 7 /\ pc'[a] = "idle" /\ solo[a] /\ inForce' = <<party[a], sync[a]>>
        BY <2>2, <2>4, <3>2
      <4>2. SetPartyIDReachesHolders'
        BY <1>0, <2>3, <4>1, SetPartyIDDone DEF Value
      <4>3. \A b \in Apps : pc'[b] \notin Changing
        BY <2>1, <4>1, LabelsApart DEF OverlapInv, SoloInv
      <4>4. ReadInv'
        BY <2>1, <2>4, <4>1, LabelsApart DEF ReadInv
      <4>5. QED BY <4>2, <4>3, <4>4 DEF ForceInv
    <3>3. QED BY <3>1, <3>2
  <2>7. StoredInv'
    <3>1. ASSUME NEW b \in Apps, pc'[b] = "store", solo'[b], NEW j \in 1..Len(Stores), j < at'[b]
          PROVE  Holds(b, j)'
      <4>1. b = a
        BY <2>1, <2>4, <3>1, LabelsApart
      <4>2. at'[a] = n /\ UNCHANGED <<party, sync>>
        BY <2>2, <3>1, <4>1
      <4>3. j \in 1..6 /\ j < n /\ solo[a]
        BY <2>1, <3>1, <4>1, <4>2, StoresFacts
      <4>4. ctl'[Field(j)] # Nil => ctl'[Field(j)][Item(j)] = Value(a, Item(j))
        BY <2>3, <4>3
      <4>5. Value(a, Item(j))' = Value(a, Item(j)) /\ Field(j)' = Field(j) /\ Item(j)' = Item(j)
        BY <4>2 DEF Value, Field, Item
      <4>6. QED BY <4>1, <4>4, <4>5 DEF Holds
    <3>2. QED BY <3>1 DEF StoredInv
  <2>8. QED BY <1>0, <2>5, <2>6, <2>7 DEF OverlapInv
<1>4. ASSUME NEW a \in Apps, Prepare(a) PROVE OverlapInv'
  <2>1. /\ pc[a] = "idle" /\ pc'[a] = "draft" /\ "draft" \in Preparing
        /\ \A b \in Apps : b # a => pc'[b] = pc[b] /\ solo'[b] = solo[b]
        /\ solo'[a] = \A b \in Apps : pc[b] \notin Changing
        /\ UNCHANGED <<ctl, at, party, sync, drafted, inForce>>
    BY <1>0, <1>4, PrepareEffect DEF Preparing
  <2>2. \A b \in Apps : pc'[b] \in Changing => pc[b] \in Changing /\ b # a
    BY <2>1, LabelsApart
  <2>3. SoloInv'
    BY <2>1, <2>2 DEF OverlapInv, SoloInv
  <2>4. ForceInv' /\ StoredInv'
    BY <1>0, <2>1, <2>2, QuietStep
  <2>5. ReadInv'
    BY <2>1 DEF OverlapInv, ReadInv
  <2>6. QED BY <1>0, <2>3, <2>4, <2>5 DEF OverlapInv
<1>5. ASSUME NEW a \in Apps, Reads(a) PROVE OverlapInv'
  <2>1. /\ pc[a] \in Preparing /\ UNCHANGED <<ctl, solo, inForce>>
        /\ \A b \in Apps : b # a => /\ pc'[b] = pc[b] /\ at'[b] = at[b] /\ party'[b] = party[b]
                                    /\ sync'[b] = sync[b] /\ drafted'[b] = drafted[b]
        /\ pc'[a] \in Preparing \cup {"idle", "panic"}
    BY <1>0, <1>5, ReadsEffect DEF Ghosts, Preparing
  <2>2. /\ \A b \in Apps : pc'[b] \in Changing => pc[b] \in Changing
        /\ \A b \in Apps : pc'[b] \in Preparing => pc[b] \in Preparing
        /\ \A b \in Apps : pc'[b] = "store" => b # a
    BY <2>1, LabelsApart
  <2>3. SoloInv'
    BY <2>1, <2>2, SoloKept DEF OverlapInv
  <2>4. ForceInv' /\ StoredInv'
    BY <1>0, <2>1, <2>2, QuietStep
  <2>5. ReadInv'
    <3>1. ASSUME pc'[a] \in Preparing, solo[a], inForce # Nil
          PROVE  /\ pc'[a] # "draft" => drafted'[a] = inForce[1]
                 /\ pc'[a] \in {"readSync", "send"} => party'[a] = inForce[1]
                 /\ pc'[a] = "send" => sync'[a] = inForce[2]
      <4>1. \A h \in {"tokenStandard", "userLedger"} : ctl[h] # Nil =>
              ctl[h].party = inForce[1] /\ ctl[h].sync = inForce[2]
        BY <3>1 DEF OverlapInv, ForceInv, SetPartyIDReachesHolders, Agrees, Holders
      <4>2. /\ pc[a] # "draft" => drafted[a] = inForce[1]
            /\ pc[a] \in {"readSync", "send"} => party[a] = inForce[1]
        BY <2>1, <3>1 DEF OverlapInv, ReadInv
      <4>3. QED BY <1>0, <1>5, <3>1, <4>1, <4>2, ReadsEffect, LabelsApart
    <3>2. QED BY <2>1, <3>1 DEF OverlapInv, ReadInv
  <2>6. QED BY <1>0, <2>3, <2>4, <2>5 DEF OverlapInv
<1>6. ASSUME NEW f \in Fields, ExpireBearer(f) PROVE OverlapInv'
  <2>1. /\ UNCHANGED <<pc, at, party, sync, drafted, solo, inForce>>
        /\ \A g \in Fields : /\ ctl'[g] = Nil <=> ctl[g] = Nil
                             /\ ctl'[g].party = ctl[g].party /\ ctl'[g].sync = ctl[g].sync
    BY <1>0, <1>6, ExpireEffect DEF Locals, Ghosts
  <2>2. SoloInv' /\ ReadInv'
    BY <2>1 DEF OverlapInv, SoloInv, ReadInv
  <2>3. ForceInv' /\ StoredInv'
    BY <1>0, <2>1, QuietStep
  <2>4. QED BY <1>0, <2>2, <2>3 DEF OverlapInv
<1>7. CASE UNCHANGED session
  BY <1>0, <1>7
  DEF session, Locals, Ghosts, OverlapInv, SoloInv, ForceInv, SetPartyIDReachesHolders, Agrees, StoredInv, Holds, Value,
      Field, Item, ReadInv
<1>8. QED BY <1>1, <1>2, <1>3, <1>4, <1>5, <1>6, <1>7, NextCases

LEMMA OverlapInvHolds == Spec => []OverlapInv
BY OverlapInit, OverlapStep, PTL DEF Spec

\* For any goroutines: after a SetPartyID that no Connect and no SetPartyID overlapped, the
\* three controllers of the user hold its party and synchronizer until the next one begins.
THEOREM SetPartyIDReachesHoldersHolds == Spec => []SetPartyIDReachesHolders
<1>1. OverlapInv => SetPartyIDReachesHolders
  BY DEF OverlapInv, ForceInv, SetPartyIDReachesHolders
<1>2. QED BY OverlapInvHolds, <1>1, PTL

\* What is prepared meanwhile, by however many goroutines, is of one session.
THEOREM PreparedAsOnePartyHolds == Spec => []PreparedAsOneParty
<1>1. OverlapInv => PreparedAsOneParty
  BY DEF OverlapInv, ReadInv, PreparedAsOneParty, Preparing
<1>2. QED BY OverlapInvHolds, <1>1, PTL

-----------------------------------------------------------------------------
\* One goroutine alone.

\* Whoever is in a call has used the session.
UsersInv == \A a \in Apps : pc[a] # "idle" => a \in users

\* A SetPartyID that has written the user ledger and not yet the token standard.
Between(a) == pc[a] = "store" /\ at[a] \in {2, 3}

\* Outside of that the two controllers have one party, if both have one.
OneParty ==
    \/ \E a \in Apps : Between(a)
    \/ ctl["userLedger"] = Nil \/ ctl["tokenStandard"] = Nil
    \/ Nil \in {ctl["userLedger"].party, ctl["tokenStandard"].party}
    \/ ctl["userLedger"].party = ctl["tokenStandard"].party

\* Where a goroutine is, the controllers it will use are there, and it has read theirs.
Equipped(a) ==
    /\ pc[a] # "panic"
    /\ pc[a] = "await" => ctl["userLedger"] # Nil
    /\ pc[a] = "store" /\ Item(at[a]) = "sync" => ctl[Field(at[a])] # Nil
    /\ Between(a) /\ ctl["userLedger"] # Nil => ctl["userLedger"].party = party[a]
    /\ pc[a] \in Preparing => ctl["tokenStandard"] # Nil /\ ctl["userLedger"] # Nil
    /\ pc[a] \in {"readParty", "readSync", "send"} =>
         drafted[a] = ctl["tokenStandard"].party /\ drafted[a] # Nil
    /\ pc[a] \in {"readSync", "send"} => party[a] = ctl["userLedger"].party /\ party[a] # Nil

AloneInv == TypedInv /\ UsersInv /\ (Alone => OneParty /\ \A a \in Apps : Equipped(a))

LEMMA AloneInit == Init => AloneInv
<1> SUFFICES ASSUME Init PROVE AloneInv
  OBVIOUS
<1>1. (\A a \in Apps : pc[a] = "idle") /\ ctl["userLedger"] = Nil
  BY DEF Init, Fields, Holders
<1>2. UsersInv /\ OneParty
  BY <1>1 DEF UsersInv, OneParty
<1>3. \A a \in Apps : Equipped(a)
  BY <1>1 DEF Equipped, Between, Preparing
<1>4. QED BY <1>2, <1>3, TypedInvInit DEF AloneInv

\* The others of a lonely goroutine are idle, and equipped for that.
LEMMA OthersIdle ==
    ASSUME AloneInv, Alone', NEW a \in Apps, a \in users', users' \in {users, users \cup {a}},
           \A b \in Apps : b # a => pc'[b] = pc[b]
    PROVE  Alone /\ \A b \in Apps : b # a => pc'[b] = "idle" /\ Equipped(b)' /\ ~Between(b)
<1>1. Alone
  BY DEF Alone
<1>2. \A b \in Apps : b # a => b \notin users
  BY DEF Alone
<1>3. \A b \in Apps : b # a => pc[b] = "idle"
  BY <1>2 DEF AloneInv, UsersInv
<1>4. QED BY <1>1, <1>3 DEF Equipped, Between, Preparing

LEMMA AloneStep == AloneInv /\ [Next]_vars => AloneInv'
<1> SUFFICES ASSUME AloneInv, [Next]_vars PROVE AloneInv'
  OBVIOUS
<1>0. TypedInv /\ TypedInv'
  BY TypedInvStep DEF AloneInv
<1>1. ASSUME NEW a \in Apps, Begins(a) PROVE AloneInv'
  <2>1. /\ pc[a] = "idle" /\ pc'[a] \in Changing /\ pc'[a] \in {"token", "adminToken", "list", "store"}
        /\ UNCHANGED <<ctl, at>> /\ users' = users \cup {a}
        /\ \A b \in Apps : b # a => pc'[b] = pc[b]
    BY <1>0, <1>1, BeginsEffect
    DEF Begins, Connect, ConnectAdmin, SetPartyID, Disturb, GoTo, TypedInv, Typed
  <2>2. UsersInv'
    BY <2>1 DEF AloneInv, UsersInv
  <2>3. ASSUME Alone' PROVE OneParty' /\ \A b \in Apps : Equipped(b)'
    <3>1. Alone /\ \A b \in Apps : b # a => Equipped(b)' /\ ~Between(b)
      BY <1>0, <2>1, <2>3, OthersIdle DEF TypedInv, Typed
    <3>2. at'[a] = 1 /\ Item(1) = "party"
      BY <1>0, <2>1 DEF TypedInv, Arguments, Item, Stores
    <3>3. Equipped(a)'
      BY <2>1, <3>2 DEF Equipped, Between, Preparing, Item
    <3>4. ~Between(a)
      BY <2>1 DEF Between
    <3>5. OneParty'
      BY <2>1, <3>1, <3>4 DEF AloneInv, OneParty
    <3>6. QED BY <3>1, <3>3, <3>5
  <2>4. QED BY <1>0, <2>2, <2>3 DEF AloneInv
<1>2. ASSUME NEW a \in Apps, Rebuilds(a) PROVE AloneInv'
  <2>1. /\ pc[a] \in Connecting \cup AdminConnecting
        /\ pc'[a] \in Connecting \cup AdminConnecting \cup {"idle", "panic"}
        /\ \A b \in Apps : b # a => pc'[b] = pc[b]
        /\ UNCHANGED users
    BY <1>0, <1>2, RebuildsEffect DEF Ghosts
  <2>2. a \in users
    BY <2>1 DEF AloneInv, UsersInv, Connecting, AdminConnecting
  <2>3. UsersInv'
    BY <2>1, <2>2 DEF AloneInv, UsersInv
  <2>4. ASSUME Alone' PROVE OneParty' /\ \A b \in Apps : Equipped(b)'
    <3>1. Alone /\ \A b \in Apps : b # a => Equipped(b)' /\ ~Between(b)
      BY <2>1, <2>2, <2>4, OthersIdle
    <3>2. Equipped(a) /\ OneParty /\ ~Between(a)
      BY <2>1, <3>1 DEF AloneInv, Between, Connecting, AdminConnecting
    <3>3. pc'[a] # "panic" /\ (pc'[a] = "await" => ctl'["userLedger"] # Nil)
      <4>1. Fresh("user") # Nil
        BY FreshTypes, NilIsNoController
      <4>2. QED
        BY <1>0, <1>2, <3>2, <4>1
        DEF Rebuilds, GetUserToken, BuildUserLedger, AwaitInit, BuildTokenStandard, BuildValidator,
            GetAdminToken, BuildAdminLedger, GoTo, Equipped, TypedInv, Typed, Fields, Holders
    <3>4. Equipped(a)'
      BY <2>1, <3>3 DEF Equipped, Between, Preparing, Connecting, AdminConnecting
    <3>5. \A h \in {"userLedger", "tokenStandard"} :
            \/ ctl'[h] = Nil \/ ctl'[h].party = Nil
            \/ ctl[h] # Nil /\ ctl'[h].party = ctl[h].party
      <4>1. CASE AwaitInit(a)
        <5>1. CASE UNCHANGED ctl
          BY <5>1
        <5>2. CASE ~UNCHANGED ctl
          <6>1. PICK outcome \in {"ok", "failed"} :
                  /\ ctl["userLedger"] # Nil
                  /\ ctl' = [ctl EXCEPT !["userLedger"] = [ctl["userLedger"] EXCEPT !.ping = outcome]]
            BY <4>1, <5>2 DEF AwaitInit
          <6>2. ctl["userLedger"] \in Controller
            BY <1>0, <6>1 DEF TypedInv, Typed, Fields, Holders
          <6>3. [ctl["userLedger"] EXCEPT !.ping = outcome].party = ctl["userLedger"].party
            BY <6>2 DEF Controller
          <6>4. QED BY <1>0, <6>1, <6>3 DEF TypedInv, Typed, Fields, Holders
        <5>3. QED BY <5>1, <5>2
      <4>2. CASE ~AwaitInit(a)
        <5>1. Fresh("user").party = Nil /\ Fresh("none").party = Nil
          BY DEF Fresh
        <5>2. QED
          BY <1>0, <1>2, <4>2, <5>1
          DEF Rebuilds, GetUserToken, BuildUserLedger, BuildTokenStandard, BuildValidator,
              GetAdminToken, BuildAdminLedger, TypedInv, Typed, Fields, Holders
      <4>3. QED BY <4>1, <4>2
    <3>6. OneParty'
      BY <3>1, <3>2, <3>5 DEF OneParty
    <3>7. QED BY <3>1, <3>4, <3>6
  <2>5. QED BY <1>0, <2>3, <2>4 DEF AloneInv
<1>3. ASSUME NEW a \in Apps, ListSynchronizers(a) PROVE AloneInv'
  <2>1. /\ pc[a] = "list" /\ pc'[a] \in {"store", "idle"} /\ at'[a] = 1 /\ UNCHANGED <<ctl, users>>
        /\ \A b \in Apps : b # a => pc'[b] = pc[b]
    BY <1>0, <1>3, ListEffect DEF TypedInv, Arguments
  <2>2. a \in users
    BY <2>1 DEF AloneInv, UsersInv
  <2>3. UsersInv'
    BY <2>1, <2>2 DEF AloneInv, UsersInv
  <2>4. ASSUME Alone' PROVE OneParty' /\ \A b \in Apps : Equipped(b)'
    <3>1. Alone /\ \A b \in Apps : b # a => Equipped(b)' /\ ~Between(b)
      BY <2>1, <2>2, <2>4, OthersIdle
    <3>2. Item(1) = "party"
      BY DEF Item, Stores
    <3>3. Equipped(a)'
      BY <2>1, <3>2 DEF Equipped, Between, Preparing, Item
    <3>4. ~Between(a)
      BY <2>1 DEF Between
    <3>5. OneParty'
      BY <2>1, <3>1, <3>4 DEF AloneInv, OneParty
    <3>6. QED BY <3>1, <3>3, <3>5
  <2>5. QED BY <1>0, <2>3, <2>4 DEF AloneInv
<1>4. ASSUME NEW a \in Apps, StoreField(a) PROVE AloneInv'
  <2>0. PICK k, f, n : k = at[a] /\ f = Field(k)
                       /\ n = IF Item(k) = "party" /\ ctl[f] = Nil THEN k + 2 ELSE k + 1
    OBVIOUS
  <2>1. /\ pc[a] = "store" /\ pc'[a] \in {"store", "idle", "panic"} /\ UNCHANGED users
        /\ \A b \in Apps : b # a => pc'[b] = pc[b]
    BY <1>0, <1>4, StoreKeepsTypes
  <2>2. a \in users
    BY <2>1 DEF AloneInv, UsersInv
  <2>3. UsersInv'
    BY <2>1, <2>2 DEF AloneInv, UsersInv
  <2>4. ASSUME Alone' PROVE OneParty' /\ \A b \in Apps : Equipped(b)'
    <3>1. Alone /\ \A b \in Apps : b # a => pc'[b] = "idle" /\ Equipped(b)' /\ ~Between(b)
      BY <2>1, <2>2, <2>4, OthersIdle
    <3>2. Equipped(a) /\ OneParty
      BY <3>1 DEF AloneInv
    <3>3. /\ n \in 2..7 /\ ~(ctl[f] = Nil /\ Item(k) = "sync")
          /\ \/ pc'[a] = "store" /\ n <= 6 /\ at'[a] = n /\ UNCHANGED party
             \/ n = 7 /\ pc'[a] = "idle"
      <4>1. ~(ctl[f] = Nil /\ Item(k) = "sync")
        BY <2>0, <2>1, <3>2 DEF Equipped
      <4>2. QED BY <1>0, <1>4, <2>0, <2>1, <4>1, StoreMoves DEF GoTo, Return, TypedInv, Typed
    <3>4. /\ k \in 1..6 /\ f \in Holders /\ Item(k) \in {"party", "sync"}
          /\ \A g \in Fields : ctl'[g] = Nil <=> ctl[g] = Nil
          /\ \A g \in Fields : g # f => ctl'[g] = ctl[g]
          /\ ctl[f] # Nil /\ Item(k) = "party" => ctl'[f].party = party[a]
          /\ ctl[f] # Nil /\ Item(k) = "sync" => ctl'[f].party = ctl[f].party
      BY <1>0, <1>4, <2>0, StoreEffect
    <3>5. /\ Field(1) = "userLedger" /\ Field(2) = "userLedger" /\ Field(3) = "tokenStandard"
          /\ Field(4) = "tokenStandard" /\ Field(5) = "validator" /\ Field(6) = "validator"
          /\ Item(1) = "party" /\ Item(2) = "sync" /\ Item(3) = "party" /\ Item(4) = "sync"
          /\ Item(5) = "party" /\ Item(6) = "sync"
      BY DEF Field, Item, Stores
    <3>6. ctl[f] = Nil => UNCHANGED ctl
      BY <1>4, <2>0 DEF StoreField, Field
    <3>7. {"userLedger", "tokenStandard", "validator"} \subseteq Fields
      BY DEF Fields, Holders
    <3>8. Equipped(a)'
      <4>1. CASE pc'[a] = "idle"
        BY <4>1 DEF Equipped, Between, Preparing
      <4>2. CASE pc'[a] = "store"
        <5>1. at'[a] = n /\ n \in 2..6 /\ party'[a] = party[a]
          BY <3>3, <4>2
        <5>2. Item(n) = "sync" => ctl'[Field(n)] # Nil
          BY <2>0, <3>3, <3>4, <3>5, <3>7, <5>1
        <5>3. n \in {2, 3} /\ ctl'["userLedger"] # Nil => ctl'["userLedger"].party = party[a]
          BY <2>0, <2>1, <3>2, <3>3, <3>4, <3>5, <3>6, <3>7, <5>1 DEF Equipped, Between
        <5>4. QED BY <4>2, <5>1, <5>2, <5>3 DEF Equipped, Between, Preparing, Item, Field
      <4>3. QED BY <3>3, <4>1, <4>2
    <3>9. OneParty'
      <4>1. CASE k = 1
        BY <2>0, <2>1, <3>2, <3>3, <3>4, <3>5, <3>6, <3>7, <4>1 DEF OneParty, Between
      <4>2. CASE k = 2
        BY <2>0, <3>3, <3>5, <4>2 DEF OneParty, Between
      <4>3. CASE k = 3
        BY <2>0, <2>1, <3>2, <3>4, <3>5, <3>7, <4>3 DEF OneParty, Equipped, Between
      <4>4. CASE k \in 4..6
        <5>1. \A h \in {"userLedger", "tokenStandard"} :
                /\ ctl'[h] = Nil <=> ctl[h] = Nil
                /\ ctl[h] # Nil => ctl'[h].party = ctl[h].party
          BY <3>4, <3>5, <3>7, <4>4, <2>0
        <5>2. ~Between(a)
          BY <2>0, <4>4 DEF Between
        <5>3. QED BY <3>1, <3>2, <5>1, <5>2 DEF OneParty
      <4>5. QED BY <3>4, <4>1, <4>2, <4>3, <4>4
    <3>10. QED BY <3>1, <3>8, <3>9
  <2>5. QED BY <1>0, <2>3, <2>4 DEF AloneInv
<1>5. ASSUME NEW a \in Apps, Prepare(a) PROVE AloneInv'
  <2>1. /\ pc[a] = "idle" /\ pc'[a] = "draft" /\ users' = users \cup {a} /\ UNCHANGED <<ctl, at>>
        /\ ctl["tokenStandard"] # Nil /\ ctl["userLedger"] # Nil
        /\ \A b \in Apps : b # a => pc'[b] = pc[b]
    BY <1>0, <1>5, PrepareEffect
  <2>2. UsersInv'
    BY <2>1 DEF AloneInv, UsersInv
  <2>3. ASSUME Alone' PROVE OneParty' /\ \A b \in Apps : Equipped(b)'
    <3>1. Alone /\ \A b \in Apps : b # a => Equipped(b)' /\ ~Between(b)
      BY <1>0, <2>1, <2>3, OthersIdle DEF TypedInv, Typed
    <3>2. Equipped(a)'
      BY <2>1 DEF Equipped, Between
    <3>3. OneParty'
      BY <2>1, <3>1 DEF AloneInv, OneParty, Between
    <3>4. QED BY <3>1, <3>2, <3>3
  <2>4. QED BY <1>0, <2>2, <2>3 DEF AloneInv
<1>6. ASSUME NEW a \in Apps, Reads(a) PROVE AloneInv'
  <2>1. /\ pc[a] \in Preparing /\ UNCHANGED <<ctl, users>>
        /\ pc'[a] \in {"idle", "panic"} \cup Preparing
        /\ \A b \in Apps : b # a => pc'[b] = pc[b]
    BY <1>0, <1>6, ReadsEffect DEF Ghosts, Preparing
  <2>2. a \in users
    BY <2>1 DEF AloneInv, UsersInv, Preparing
  <2>3. UsersInv'
    BY <2>1, <2>2 DEF AloneInv, UsersInv
  <2>4. ASSUME Alone' PROVE OneParty' /\ \A b \in Apps : Equipped(b)'
    <3>1. Alone /\ \A b \in Apps : b # a => Equipped(b)' /\ ~Between(b)
      BY <2>1, <2>2, <2>4, OthersIdle
    <3>2. Equipped(a) /\ OneParty /\ ~Between(a)
      BY <2>1, <3>1 DEF AloneInv, Between, Preparing
    <3>3. ctl["tokenStandard"] # Nil /\ ctl["userLedger"] # Nil
      BY <2>1, <3>2 DEF Equipped
    <3>4. Equipped(a)'
      BY <1>0, <1>6, <2>1, <3>2, <3>3, ReadsEffect DEF Equipped, Between, Preparing
    <3>5. OneParty'
      BY <2>1, <3>1, <3>2 DEF OneParty
    <3>6. QED BY <3>1, <3>4, <3>5
  <2>5. QED BY <1>0, <2>3, <2>4 DEF AloneInv
<1>7. ASSUME NEW g \in Fields, ExpireBearer(g) PROVE AloneInv'
  <2>1. /\ UNCHANGED <<pc, at, party, sync, drafted, users>>
        /\ \A h \in Fields : (ctl'[h] = Nil <=> ctl[h] = Nil) /\ ctl'[h].party = ctl[h].party
    BY <1>0, <1>7, ExpireEffect DEF Locals, Ghosts
  <2>2. UsersInv' /\ (Alone' => Alone)
    BY <2>1 DEF AloneInv, UsersInv, Alone
  <2>3. OneParty => OneParty'
    BY <2>1 DEF OneParty, Between, Fields, Holders
  <2>4. ASSUME NEW a \in Apps, Equipped(a) PROVE Equipped(a)'
    <3>1. pc[a] = "store" => Field(at[a]) \in Fields
      BY <1>0, StoresFacts DEF TypedInv, Typed, Fields
    <3>2. {"userLedger", "tokenStandard"} \subseteq Fields
      BY DEF Fields, Holders
    <3>3. QED BY <2>1, <2>4, <3>1, <3>2 DEF Equipped, Between, Field, Item
  <2>5. QED BY <1>0, <2>2, <2>3, <2>4 DEF AloneInv
<1>8. CASE UNCHANGED session
  BY <1>0, <1>8
  DEF session, Locals, Ghosts, AloneInv, UsersInv, Alone, OneParty, Between, Equipped, Field, Item
<1>9. QED BY <1>1, <1>2, <1>3, <1>4, <1>5, <1>6, <1>7, <1>8, NextCases

LEMMA AloneInvHolds == Spec => []AloneInv
BY AloneInit, AloneStep, PTL DEF Spec

\* Configure only ever adds factories.
LEMMA FactoriesTyped == Spec => [](factories \in SUBSET Factories)
<1>1. Init => factories \in SUBSET Factories  BY DEF Init
<1>2. factories \in SUBSET Factories /\ [Next]_vars => (factories \in SUBSET Factories)'
  BY DEF Next, Configure, vars
<1>3. QED BY <1>1, <1>2, PTL DEF Spec

\* One goroutine alone never sends for a party what it drafted for another, whatever
\* sequence of succeeding and failing calls it makes.
THEOREM SessionInvHolds == Spec => []SessionInv
<1>1. ASSUME AloneInv, factories \in SUBSET Factories PROVE SessionInv
  <2>1. ASSUME Alone, NEW a \in Apps, pc[a] = "send" PROVE drafted[a] = party[a]
    <3>1. Equipped(a) /\ OneParty
      BY <1>1, <2>1 DEF AloneInv
    <3>2. \A b \in Apps : b # a => pc[b] = "idle"
      BY <1>1, <2>1 DEF AloneInv, UsersInv, Alone
    <3>3. \A b \in Apps : ~Between(b)
      BY <2>1, <3>2 DEF Between
    <3>4. QED BY <2>1, <3>1, <3>3 DEF Equipped, OneParty, Preparing
  <2>2. QED BY <1>1, <2>1 DEF AloneInv, TypedInv, Typed, SessionInv
<1>2. QED BY AloneInvHolds, FactoriesTyped, <1>1, PTL

\* Nor does it ever dereference a controller that a failed Connect set to nil.
THEOREM NeverPanicsHolds == Spec => []NeverPanics
<1>1. AloneInv => NeverPanics
  BY DEF AloneInv, Equipped, NeverPanics
<1>2. QED BY AloneInvHolds, <1>1, PTL
=============================================================================
