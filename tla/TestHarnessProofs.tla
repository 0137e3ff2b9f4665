---------------------------- MODULE TestHarnessProofs ----------------------------
(***************************************************************************)
(* Theorems about TestHarness and PartyAdmin.                              *)
(***************************************************************************)
EXTENDS TestHarness, TLAPS

LedgerOK == ledger \in Ledgers /\ ledger.dso <= ledger.allocated

\* Ledger m has kept everything of ledger l that a Setup relies on.
Grows(l, m) ==
    /\ m \in Ledgers /\ m.dso <= m.allocated
    /\ l.primary[UserID] # NoParty => m.primary[UserID] = l.primary[UserID]
    /\ l.packages => m.packages
    /\ l.vetted => m.vetted
    /\ l.dso # NoParty => m.dso = l.dso
    /\ l.acts[UserID] \subseteq m.acts[UserID]
    /\ l.rules <= m.rules
    /\ l.rounds => m.rounds

-----------------------------------------------------------------------------
(* What the participant's requests do to its ledger. *)

\* The fields of a ledger, one by one.
LEMMA LedgerFields ==
    ASSUME NEW l \in Ledgers
    PROVE  /\ l.allocated \in Nat /\ l.dso \in Nat /\ l.rules \in Nat
           /\ l.primary \in [Users -> Nat] /\ l.acts \in [Users -> SUBSET Nat]
           /\ l.admins \in SUBSET Users
           /\ l.packages \in BOOLEAN /\ l.vetted \in BOOLEAN /\ l.rounds \in BOOLEAN
  BY DEF Ledgers

\* A new sandbox's ledger is one.
LEMMA NewLedgerOK == NewLedger \in Ledgers /\ NewLedger.dso <= NewLedger.allocated
  BY DEF NewLedger, Ledgers, NoParty

\* A request without effect keeps the ledger.
LEMMA GrowsSame == LedgerOK => Grows(ledger, ledger)
  BY LedgerFields DEF LedgerOK, Grows

\* So does the allocation of a party.
LEMMA GrowsAllocating ==
    LedgerOK => Grows(ledger, Allocating) /\ Allocating.rules = ledger.rules
  BY LedgerFields DEF LedgerOK, Grows, Allocating, Ledgers

\* So does granting the test user rights,
LEMMA GrowsGranting ==
    ASSUME LedgerOK, NEW ps, \A x \in ps : x \in Nat
    PROVE  Grows(ledger, Granting(UserID, ps)) /\ Granting(UserID, ps).rules = ledger.rules
<1> DEFINE m == Granting(UserID, ps)
<1>1. ledger \in Ledgers /\ ledger.dso <= ledger.allocated  BY DEF LedgerOK
<1>2. ledger.acts \in [Users -> SUBSET Nat] /\ UserID \in Users
  BY <1>1, LedgerFields, UsersAssumption
<1>3. ledger.acts[UserID] \cup ps \in SUBSET Nat  BY <1>2
<1>4. m.acts \in [Users -> SUBSET Nat]
      /\ m.acts[UserID] = ledger.acts[UserID] \cup ps
  BY <1>1, <1>2, <1>3 DEF Granting, Ledgers
<1>5. m \in Ledgers /\ m.dso = ledger.dso /\ m.allocated = ledger.allocated
      /\ m.primary = ledger.primary /\ m.packages = ledger.packages /\ m.vetted = ledger.vetted
      /\ m.rules = ledger.rules /\ m.rounds = ledger.rounds
  BY <1>1, <1>2, <1>3, <1>4 DEF Granting, Ledgers
<1> QED  BY <1>1, <1>4, <1>5, LedgerFields DEF Grows

\* creating a user: another one, or the test user where there is none,
LEMMA GrowsCreating ==
    ASSUME LedgerOK, NEW u \in Users, NEW x \in Nat,
           u = UserID => ledger.primary[UserID] = NoParty
    PROVE  /\ Grows(ledger, Creating(u, x)) /\ Creating(u, x).rules = ledger.rules
           /\ u = UserID => Creating(u, x).primary[UserID] = x
<1> DEFINE m == Creating(u, x)
<1>1. ledger \in Ledgers /\ ledger.dso <= ledger.allocated  BY DEF LedgerOK
<1>2. ledger.acts \in [Users -> SUBSET Nat] /\ ledger.primary \in [Users -> Nat] /\ UserID \in Users
  BY <1>1, LedgerFields, UsersAssumption
<1>3. ledger.acts[u] \cup {x} \in SUBSET Nat  BY <1>2
<1>4. m.acts \in [Users -> SUBSET Nat] /\ ledger.acts[UserID] \subseteq m.acts[UserID]
  BY <1>1, <1>2, <1>3 DEF Creating, Ledgers
<1>5. m.primary \in [Users -> Nat] /\ m.primary[u] = x
      /\ (u # UserID => m.primary[UserID] = ledger.primary[UserID])
  BY <1>1, <1>2 DEF Creating, Ledgers
<1>6. m \in Ledgers /\ m.dso = ledger.dso /\ m.allocated = ledger.allocated
      /\ m.packages = ledger.packages /\ m.vetted = ledger.vetted
      /\ m.rules = ledger.rules /\ m.rounds = ledger.rounds
  BY <1>1, <1>2, <1>4, <1>5 DEF Creating, Ledgers
<1> QED  BY <1>1, <1>4, <1>5, <1>6, LedgerFields DEF Grows

\* and every other change a Setup makes.
LEMMA GrowsSetting ==
    ASSUME LedgerOK
    PROVE  /\ Grows(ledger, [ledger EXCEPT !.packages = TRUE])
           /\ Grows(ledger, [ledger EXCEPT !.vetted = TRUE])
           /\ ledger.dso = NoParty => Grows(ledger, [Allocating EXCEPT !.dso = ledger.allocated + 1])
           /\ Grows(ledger, [ledger EXCEPT !.rules = @ + 1])
           /\ Grows(ledger, [ledger EXCEPT !.rounds = TRUE])
           /\ Grows(ledger, [ledger EXCEPT !.admins = @ \cup {UserID}])
           /\ [ledger EXCEPT !.admins = @ \cup {UserID}].rules = ledger.rules
<1>1. ledger \in Ledgers /\ ledger.dso <= ledger.allocated  BY DEF LedgerOK
<1>2. UserID \in Users
  BY UsersAssumption
<1>3. Grows(ledger, [ledger EXCEPT !.packages = TRUE])
  <2> DEFINE m == [ledger EXCEPT !.packages = TRUE]
  <2>1. m \in Ledgers  BY <1>1 DEF Ledgers
  <2>2. m.allocated = ledger.allocated /\ m.primary = ledger.primary /\ m.acts = ledger.acts
        /\ m.dso = ledger.dso /\ m.rules = ledger.rules
    BY <1>1 DEF Ledgers
  <2>3. m.packages /\ m.vetted = ledger.vetted /\ m.rounds = ledger.rounds
    BY <1>1 DEF Ledgers
  <2> QED  BY <1>1, <2>1, <2>2, <2>3, LedgerFields DEF Grows
<1>4. Grows(ledger, [ledger EXCEPT !.vetted = TRUE])
  <2> DEFINE m == [ledger EXCEPT !.vetted = TRUE]
  <2>1. m \in Ledgers  BY <1>1 DEF Ledgers
  <2>2. m.allocated = ledger.allocated /\ m.primary = ledger.primary /\ m.acts = ledger.acts
        /\ m.dso = ledger.dso /\ m.rules = ledger.rules
    BY <1>1 DEF Ledgers
  <2>3. m.packages = ledger.packages /\ m.vetted /\ m.rounds = ledger.rounds
    BY <1>1 DEF Ledgers
  <2> QED  BY <1>1, <2>1, <2>2, <2>3, LedgerFields DEF Grows
<1>5. ledger.dso = NoParty => Grows(ledger, [Allocating EXCEPT !.dso = ledger.allocated + 1])
  <2> DEFINE m == [Allocating EXCEPT !.dso = ledger.allocated + 1]
  <2>0. Allocating \in Ledgers /\ Allocating.allocated = ledger.allocated + 1
        /\ ledger.allocated + 1 \in Nat
    BY <1>1 DEF Ledgers, Allocating
  <2>1. m \in Ledgers /\ m.dso = ledger.allocated + 1 /\ m.allocated = ledger.allocated + 1
    BY <2>0 DEF Ledgers
  <2>2. m.primary = ledger.primary /\ m.acts = ledger.acts /\ m.rules = ledger.rules
        /\ m.packages = ledger.packages /\ m.vetted = ledger.vetted /\ m.rounds = ledger.rounds
    BY <1>1 DEF Ledgers, Allocating
  <2> QED  BY <1>1, <2>1, <2>2, LedgerFields DEF Grows
<1>6. Grows(ledger, [ledger EXCEPT !.rules = @ + 1])
  BY <1>1, LedgerFields DEF Grows, Ledgers
<1>7. Grows(ledger, [ledger EXCEPT !.rounds = TRUE])
  <2> DEFINE m == [ledger EXCEPT !.rounds = TRUE]
  <2>1. m \in Ledgers  BY <1>1 DEF Ledgers
  <2>2. m.allocated = ledger.allocated /\ m.primary = ledger.primary /\ m.acts = ledger.acts
        /\ m.dso = ledger.dso /\ m.rules = ledger.rules
    BY <1>1 DEF Ledgers
  <2>3. m.packages = ledger.packages /\ m.vetted = ledger.vetted /\ m.rounds
    BY <1>1 DEF Ledgers
  <2> QED  BY <1>1, <2>1, <2>2, <2>3, LedgerFields DEF Grows
<1>8. /\ Grows(ledger, [ledger EXCEPT !.admins = @ \cup {UserID}])
      /\ [ledger EXCEPT !.admins = @ \cup {UserID}].rules = ledger.rules
  BY <1>1, <1>2, LedgerFields DEF Grows, Ledgers
<1> QED  BY <1>3, <1>4, <1>5, <1>6, <1>7, <1>8

\* An answer leaves the request's effect or nothing.
LEMMA Answered ==
    ASSUME LedgerOK, faults \in Nat, NEW ok \in BOOLEAN, NEW effect,
           ok => Grows(ledger, effect), Succeeds(ok, effect) \/ Fails(ok, effect)
    PROVE  /\ Grows(ledger, ledger') /\ faults' \in Nat /\ faults <= faults'
           /\ effect.rules = ledger.rules => ledger'.rules = ledger.rules
           /\ ok /\ faults' = 0 => Succeeds(ok, effect)
  BY GrowsSame, FaultAssumption DEF Succeeds, Fails

-----------------------------------------------------------------------------
(* What a binary has prepared. *)

\* The types of its variables, and what a change of them is.
LEMMA VariablesFields ==
    ASSUME NEW n \in Nat, NEW o \in Variables(n)
    PROVE  /\ o.mine \in 0..n /\ o.doomed \in 0..n /\ o.party \in Nat
           /\ o.rule \in BOOLEAN /\ o.round \in BOOLEAN
           /\ Blank \in Variables(n) /\ o \in Variables(n + 1)
  BY DEF Variables, Blank, NoParty

\* What is prepared stays so while the ledger keeps what a Setup relies on.
LEMMA PreparedGrows ==
    ASSUME NEW label, NEW n \in Nat, NEW o \in Variables(n), NEW l \in Ledgers, NEW m,
           Grows(l, m), Prepared(label, o, l)
    PROVE  Prepared(label, o, m)
<1> DEFINE later(from) == Past(label, from)
<1> HIDE DEF later
<1>1. l.rules \in Nat /\ m.rules \in Nat /\ l.dso \in Nat /\ o.party \in Nat
  BY LedgerFields, VariablesFields DEF Grows
<1>2. later(BeforeDso \cup {"grant"}) => later(BeforeDso)
  BY DEF later, Past
<1> QED  BY <1>1, <1>2 DEF Grows, Prepared, later, NoParty

\* Setup has prepared nothing before it has a container.
LEMMA NothingPrepared ==
    ASSUME NEW label, NEW o, NEW l,
           label \in {"off", "client"} \cup Starting, o.round = FALSE
    PROVE  Prepared(label, o, l)
  BY DEF Prepared, Past, Starting, Preparing, BeforeUser, BeforeVetted, BeforeDso, BeforeRules

-----------------------------------------------------------------------------
(* How a step keeps SetupInv. *)

\* The parts of the invariant.
LEMMA InvParts ==
    ASSUME SetupInv
    PROVE  /\ LedgerOK /\ AdminTypeOK /\ faults \in Nat /\ stops \in Nat
           /\ boxes \in Nat /\ phase \in Phases /\ box \in {0, boxes}
           /\ pc \in [Callers -> Labels] /\ own \in [Callers -> Variables(boxes)]
  BY DEF SetupInv, SetupTypeOK, ContainersInOrder, LedgerOK

\* No container is created: each binary stays where it is, which needs the phase only
\* while it is about to start its container, or arrives somewhere with what it needs.
LEMMA Keeps ==
    ASSUME SetupInv, Grows(ledger, ledger'), faults' \in Nat, stops' \in Nat, AdminTypeOK',
           boxes' = boxes, box' \in {0, box}, phase' \in Phases, box' = 0 => phase' = "none",
           pc' \in [Callers -> Labels], own' \in [Callers -> Variables(boxes)],
           \A q \in Callers :
               \/ /\ pc'[q] = pc[q] /\ own'[q] = own[q]
                  /\ pc[q] = "start" /\ own[q].mine = box' => phase' = phase
               \/ /\ pc'[q] # "start"
                  /\ own'[q].round => pc'[q] = "ready"
                  /\ box' # 0 /\ own'[q].mine = box' => Prepared(pc'[q], own'[q], ledger')
    PROVE  SetupInv'
<1>1. LedgerOK /\ boxes \in Nat /\ box \in {0, boxes}  BY InvParts
<1>2. SetupTypeOK'  BY <1>1 DEF SetupTypeOK, Grows
<1>3. ContainersInOrder'
  <2>1. box' \in {0, boxes'} /\ (box' = 0 => phase' = "none")  BY <1>1
  <2>2. ASSUME NEW q \in Callers, pc'[q] = "start"
        PROVE  /\ pc[q] = "start" /\ own'[q] = own[q] /\ own'[q].mine # 0
               /\ own'[q].mine = box' => phase' = "created"
    BY <2>2 DEF SetupInv, ContainersInOrder
  <2>3. ASSUME NEW q \in Callers, own'[q].round
        PROVE  pc'[q] = "ready"
    BY <2>3 DEF SetupInv, ContainersInOrder
  <2> QED  BY <2>1, <2>2, <2>3 DEF SetupInv, ContainersInOrder
<1>4. ASSUME NEW q \in Callers, box' # 0, own'[q].mine = box'
      PROVE  Prepared(pc'[q], own'[q], ledger')
  <2>1. CASE pc'[q] = pc[q] /\ own'[q] = own[q]
    <3>1. Prepared(pc[q], own[q], ledger)  BY <1>4, <2>1 DEF SetupInv
    <3>2. own[q] \in Variables(boxes) /\ ledger \in Ledgers  BY <1>1, InvParts DEF LedgerOK
    <3> QED  BY <1>1, <2>1, <3>1, <3>2, PreparedGrows
  <2>2. CASE ~(pc'[q] = pc[q] /\ own'[q] = own[q])  BY <1>4, <2>2
  <2> QED  BY <2>1, <2>2
<1> QED  BY <1>2, <1>3, <1>4 DEF SetupInv

\* One binary moves and no container changes.
LEMMA Moves ==
    ASSUME SetupInv, Grows(ledger, ledger'), faults' \in Nat, AdminTypeOK', UNCHANGED docker,
           NEW p \in Callers, NEW label \in Labels, NEW o \in Variables(boxes),
           Becoming(p, label, o), label # "start", o.round => label = "ready",
           box # 0 /\ o.mine = box => Prepared(label, o, ledger')
    PROVE  SetupInv'
<1>1. /\ stops' = stops /\ boxes' = boxes /\ box' = box /\ phase' = phase
  BY DEF docker
<1>2. /\ stops \in Nat /\ phase \in Phases /\ pc \in [Callers -> Labels]
      /\ own \in [Callers -> Variables(boxes)]
  BY InvParts
<1>3. box = 0 => phase = "none"  BY DEF SetupInv, ContainersInOrder
<1>4. /\ pc' \in [Callers -> Labels] /\ own' \in [Callers -> Variables(boxes)]
      /\ pc'[p] = label /\ own'[p] = o
      /\ \A q \in Callers : q # p => pc'[q] = pc[q] /\ own'[q] = own[q]
  BY <1>2 DEF Becoming, GoTo
<1> QED  BY <1>1, <1>2, <1>3, <1>4, Keeps

\* A request of Setup: it needs its effect to keep the ledger, and to give the binary
\* what it relies on where it goes next.
LEMMA Requests ==
    ASSUME SetupInv, NEW p \in Callers, NEW from \in Preparing, NEW to \in Preparing \cup {"ready"},
           NEW ok \in BOOLEAN, NEW effect, NEW o \in Variables(boxes),
           Request(p, from, to, ok, effect, o), o.round = own[p].round,
           ok => Grows(ledger, effect),
           ok /\ box # 0 /\ o.mine = box => Prepared(to, o, effect)
    PROVE  SetupInv' /\ Grows(ledger, ledger')
<1>1. LedgerOK /\ faults \in Nat /\ boxes \in Nat /\ AdminTypeOK /\ own \in [Callers -> Variables(boxes)]
  BY InvParts
<1>2. Grows(ledger, ledger') /\ faults' \in Nat  BY <1>1, Answered DEF Request
<1>3. UNCHANGED docker /\ AdminTypeOK'
  BY <1>1 DEF Request, Outside, adminVars, AdminTypeOK
<1>4. pc[p] = from /\ from # "ready" /\ to # "start" /\ to \in Labels /\ "off" \in Labels
  BY DEF Request, Preparing, Labels
<1>5. o.round = FALSE
  BY <1>1, <1>4, VariablesFields DEF SetupInv, ContainersInOrder
<1>6. CASE Succeeds(ok, effect) /\ Becoming(p, to, o)
  BY <1>2, <1>3, <1>4, <1>5, <1>6, Moves DEF Succeeds
<1>7. CASE Exit(p)
  <2>1. Blank \in Variables(boxes)  BY <1>1, VariablesFields
  <2>2. Blank.round = FALSE /\ Prepared("off", Blank, ledger')  BY NothingPrepared DEF Blank
  <2> QED  BY <1>2, <1>3, <1>4, <1>7, <2>1, <2>2, Moves DEF Exit
<1> QED  BY <1>6, <1>7 DEF Request

\* A request that leaves the variables alone.
LEMMA Submissions ==
    ASSUME SetupInv, NEW p \in Callers, NEW from \in Preparing, NEW to \in Preparing \cup {"ready"},
           NEW ok \in BOOLEAN, NEW effect, Submits(p, from, to, ok, effect),
           ok => Grows(ledger, effect),
           ok /\ Prepared(from, own[p], effect) => Prepared(to, own[p], effect)
    PROVE  SetupInv' /\ Grows(ledger, ledger')
<1>1. own[p] \in Variables(boxes) /\ boxes \in Nat /\ ledger \in Ledgers
  BY InvParts DEF LedgerOK
<1>2. pc[p] = from  BY DEF Submits, Request
<1>3. ASSUME ok, box # 0, own[p].mine = box
      PROVE  Prepared(to, own[p], effect)
  <2>1. Prepared(from, own[p], ledger)  BY <1>2, <1>3 DEF SetupInv
  <2>2. Prepared(from, own[p], effect)  BY <1>1, <1>3, <2>1, PreparedGrows
  <2> QED  BY <1>3, <2>2
<1> QED  BY <1>1, <1>3, Requests DEF Submits

\* A request that reads.
LEMMA Readings ==
    ASSUME SetupInv, NEW p \in Callers, NEW from \in Preparing, NEW to \in Preparing \cup {"ready"},
           NEW ok \in BOOLEAN, Reads(p, from, to, ok),
           ok /\ Prepared(from, own[p], ledger) => Prepared(to, own[p], ledger)
    PROVE  SetupInv' /\ Grows(ledger, ledger')
<1>1. Grows(ledger, ledger)  BY InvParts, GrowsSame
<1> QED  BY <1>1, Submissions DEF Reads

\* The positions of Setup, and what they tell apart.
LEMMA Positions ==
    /\ Preparing \subseteq Labels /\ Starting \subseteq Labels /\ "off" \in Labels /\ "ready" \in Labels
    /\ "ready" \notin Preparing /\ "start" \notin Preparing
    /\ \A p : Serves(p) \in BOOLEAN /\ Connected(p) \in BOOLEAN
  BY DEF Labels, Preparing, Starting, Serves, Connected

-----------------------------------------------------------------------------
(* One lemma for each step of Setup that prepares the sandbox. *)

USE DEF Past, Preparing, BeforeUser, BeforeVetted, BeforeDso, BeforeRules

LEMMA ListUsersKeeps ==
    ASSUME SetupInv, NEW p \in Callers, ListUsers(p)  PROVE SetupInv' /\ Grows(ledger, ledger')
<1> DEFINE primary == ledger.primary[UserID]
           o == [own[p] EXCEPT !.party = primary]
<1>1. own[p] \in Variables(boxes) /\ boxes \in Nat /\ LedgerOK  BY InvParts
<1>2. primary \in Nat  BY <1>1, LedgerFields, UsersAssumption DEF LedgerOK
<1>3. "client" \in Preparing /\ "sync" \in Preparing /\ "await" \in Preparing  BY DEF Preparing
<1>4. Serves(p) \in BOOLEAN  BY Positions
<1>5. CASE primary # NoParty
  <2>1. Request(p, "client", "sync", Serves(p), ledger, o)  BY <1>5 DEF ListUsers
  <2>2. o \in Variables(boxes) /\ o.round = own[p].round /\ o.party = primary
    BY <1>1, <1>2 DEF Variables
  <2>3. own[p].round = FALSE
    BY <1>1, <2>1, VariablesFields DEF SetupInv, ContainersInOrder, Request
  <2>4. Prepared("sync", o, ledger)  BY <1>5, <2>2, <2>3 DEF Prepared
  <2>5. Grows(ledger, ledger)  BY <1>1, GrowsSame
  <2> HIDE DEF o
  <2> QED  BY <1>3, <1>4, <2>1, <2>2, <2>4, <2>5, Requests
<1>6. CASE primary = NoParty
  <2>1. Reads(p, "client", "await", Serves(p))  BY <1>6 DEF ListUsers
  <2>2. Prepared("client", own[p], ledger) => Prepared("await", own[p], ledger)  BY DEF Prepared
  <2> QED  BY <1>3, <1>4, <2>1, <2>2, Readings
<1> QED  BY <1>5, <1>6

LEMMA AwaitSynchronizerKeeps ==
    ASSUME SetupInv, NEW p \in Callers, AwaitSynchronizer(p)  PROVE SetupInv' /\ Grows(ledger, ledger')
<1>1. "await" \in Preparing /\ "allocate" \in Preparing  BY DEF Preparing
<1>2. Prepared("await", own[p], ledger) => Prepared("allocate", own[p], ledger)  BY DEF Prepared
<1> QED  BY <1>1, <1>2, Positions, Readings DEF AwaitSynchronizer

LEMMA AllocateTestPartyKeeps ==
    ASSUME SetupInv, NEW p \in Callers, AllocateTestParty(p)  PROVE SetupInv' /\ Grows(ledger, ledger')
<1> DEFINE o == [own[p] EXCEPT !.party = ledger.allocated + 1]
<1>1. own[p] \in Variables(boxes) /\ boxes \in Nat /\ LedgerOK  BY InvParts
<1>2. ledger.allocated \in Nat  BY <1>1, LedgerFields DEF LedgerOK
<1>3. "allocate" \in Preparing /\ "createUser" \in Preparing  BY DEF Preparing
<1>4. Connected(p) \in BOOLEAN  BY Positions
<1>5. Request(p, "allocate", "createUser", Connected(p), Allocating, o)  BY DEF AllocateTestParty
<1>6. o \in Variables(boxes) /\ o.round = own[p].round /\ o.party # NoParty
  BY <1>1, <1>2 DEF Variables, NoParty
<1>7. own[p].round = FALSE
  BY <1>1, <1>5, VariablesFields DEF SetupInv, ContainersInOrder, Request
<1>8. Prepared("createUser", o, Allocating)  BY <1>6, <1>7 DEF Prepared
<1>9. Grows(ledger, Allocating)  BY <1>1, GrowsAllocating
<1> HIDE DEF o
<1> QED  BY <1>3, <1>4, <1>5, <1>6, <1>8, <1>9, Requests

LEMMA CreateTestUserKeeps ==
    ASSUME SetupInv, NEW p \in Callers, CreateTestUser(p)  PROVE SetupInv' /\ Grows(ledger, ledger')
<1> DEFINE ok == Serves(p) /\ ledger.primary[UserID] = NoParty
           effect == Creating(UserID, own[p].party)
<1>1. own[p] \in Variables(boxes) /\ boxes \in Nat /\ LedgerOK  BY InvParts
<1>2. own[p].party \in Nat /\ UserID \in Users  BY <1>1, VariablesFields, UsersAssumption
<1>3. "createUser" \in Preparing /\ "sync" \in Preparing  BY DEF Preparing
<1>4. ok \in BOOLEAN  BY Positions
<1>5. Submits(p, "createUser", "sync", ok, effect)  BY DEF CreateTestUser
<1>6. ok => Grows(ledger, effect) /\ effect.primary[UserID] = own[p].party
  BY <1>1, <1>2, GrowsCreating
<1>7. ok /\ Prepared("createUser", own[p], effect) => Prepared("sync", own[p], effect)
  BY <1>6 DEF Prepared
<1> HIDE DEF ok, effect
<1> QED  BY <1>3, <1>4, <1>5, <1>6, <1>7, Submissions

LEMMA GetSynchronizerKeeps ==
    ASSUME SetupInv, NEW p \in Callers, GetSynchronizer(p)  PROVE SetupInv' /\ Grows(ledger, ledger')
<1>1. "sync" \in Preparing /\ "upload" \in Preparing  BY DEF Preparing
<1>2. Prepared("sync", own[p], ledger) => Prepared("upload", own[p], ledger)  BY DEF Prepared
<1> QED  BY <1>1, <1>2, Positions, Readings DEF GetSynchronizer

LEMMA UploadDarFilesKeeps ==
    ASSUME SetupInv, NEW p \in Callers, UploadDarFiles(p)  PROVE SetupInv' /\ Grows(ledger, ledger')
<1>1. "upload" \in Preparing /\ "vet" \in Preparing  BY DEF Preparing
<1>2. CASE Reads(p, "upload", "vet", TRUE)
  <2>1. Prepared("upload", own[p], ledger) => Prepared("vet", own[p], ledger)  BY DEF Prepared
  <2> QED  BY <1>1, <1>2, <2>1, Readings
<1>3. CASE Submits(p, "upload", "vet", Connected(p), [ledger EXCEPT !.packages = TRUE])
  <2> DEFINE effect == [ledger EXCEPT !.packages = TRUE]
  <2>1. Grows(ledger, effect)  BY InvParts, GrowsSetting
  <2>2. Prepared("upload", own[p], effect) => Prepared("vet", own[p], effect)  BY DEF Prepared
  <2>3. Submits(p, "upload", "vet", Connected(p), effect)  BY <1>3
  <2> HIDE DEF effect
  <2> QED  BY <1>1, <2>1, <2>2, <2>3, Positions, Submissions
<1> QED  BY <1>2, <1>3 DEF UploadDarFiles

LEMMA VetPackagesKeeps ==
    ASSUME SetupInv, NEW p \in Callers, VetPackages(p)  PROVE SetupInv' /\ Grows(ledger, ledger')
<1> DEFINE ok == Connected(p) /\ ledger.packages
           effect == [ledger EXCEPT !.vetted = TRUE]
<1>1. "vet" \in Preparing /\ "listDso" \in Preparing  BY DEF Preparing
<1>2. ledger \in Ledgers /\ LedgerOK  BY InvParts DEF LedgerOK
<1>3. ok \in BOOLEAN  BY <1>2, Positions, LedgerFields
<1>4. Grows(ledger, effect)  BY <1>2, GrowsSetting
<1>5. effect.vetted /\ (ok => effect.packages)  BY <1>2 DEF Ledgers
<1>6. ok /\ Prepared("vet", own[p], effect) => Prepared("listDso", own[p], effect)
  BY <1>5 DEF Prepared
<1>7. Submits(p, "vet", "listDso", ok, effect)  BY DEF VetPackages
<1> HIDE DEF ok, effect
<1> QED  BY <1>1, <1>3, <1>4, <1>6, <1>7, Submissions

\* A page shows parties that are known.
LEMMA PagesShowParties ==
    ASSUME NEW n \in Nat, NEW page \in Pages(n)  PROVE page \in SUBSET (1..n) /\ page \in SUBSET Nat
  BY DEF Pages

LEMMA ListDsoKeeps ==
    ASSUME SetupInv, NEW p \in Callers, ListDso(p)  PROVE SetupInv' /\ Grows(ledger, ledger')
<1>0. PICK page \in Pages(ledger.allocated) :
         Reads(p, "listDso", IF ledger.dso \in page THEN "grant" ELSE "allocDso", Serves(p))
  BY DEF ListDso
<1> DEFINE to == IF ledger.dso \in page THEN "grant" ELSE "allocDso"
<1>1. "listDso" \in Preparing /\ to \in Preparing  BY DEF Preparing
<1>2. Prepared("listDso", own[p], ledger) => Prepared(to, own[p], ledger)
  <2>1. CASE ledger.dso \notin page  BY <2>1 DEF Prepared
  <2>2. CASE ledger.dso \in page
    <3>1. ledger \in Ledgers /\ ledger.allocated \in Nat  BY InvParts DEF LedgerOK, Ledgers
    <3>2. ledger.dso # NoParty  BY <2>2, <3>1, PagesShowParties DEF NoParty
    <3> QED  BY <2>2, <3>2 DEF Prepared
  <2> QED  BY <2>1, <2>2
<1>3. Reads(p, "listDso", to, Serves(p))  BY <1>0
<1> HIDE DEF to
<1> QED  BY <1>1, <1>2, <1>3, Positions, Readings

LEMMA AllocateDsoKeeps ==
    ASSUME SetupInv, NEW p \in Callers, AllocateDso(p)  PROVE SetupInv' /\ Grows(ledger, ledger')
<1> DEFINE ok == Connected(p) /\ ledger.dso = NoParty
           effect == [Allocating EXCEPT !.dso = ledger.allocated + 1]
<1>1. "allocDso" \in Preparing /\ "grant" \in Preparing  BY DEF Preparing
<1>2. ledger \in Ledgers /\ LedgerOK  BY InvParts DEF LedgerOK
<1>3. ok \in BOOLEAN  BY Positions
<1>4. ok => Grows(ledger, effect)  BY <1>2, GrowsSetting
<1>5. Allocating \in Ledgers  BY <1>2, GrowsAllocating DEF Grows
<1>6. effect.dso # NoParty  BY <1>2, <1>5, LedgerFields DEF Ledgers, NoParty
<1>7. Prepared("allocDso", own[p], effect) => Prepared("grant", own[p], effect)
  BY <1>6 DEF Prepared
<1>8. Submits(p, "allocDso", "grant", ok, effect)  BY DEF AllocateDso
<1> HIDE DEF ok, effect
<1> QED  BY <1>1, <1>3, <1>4, <1>7, <1>8, Submissions

LEMMA GrantDsoRightsKeeps ==
    ASSUME SetupInv, NEW p \in Callers, GrantDsoRights(p)  PROVE SetupInv' /\ Grows(ledger, ledger')
<1> DEFINE effect == Granting(UserID, {ledger.dso})
<1>1. "grant" \in Preparing /\ "rules" \in Preparing  BY DEF Preparing
<1>2. ledger \in Ledgers /\ LedgerOK  BY InvParts DEF LedgerOK
<1>3. ledger.dso \in Nat /\ ledger.acts \in [Users -> SUBSET Nat] /\ UserID \in Users
  BY <1>2, LedgerFields, UsersAssumption
<1>4. Grows(ledger, effect)  BY <1>2, <1>3, GrowsGranting
<1>5. effect.dso = ledger.dso /\ effect.dso \in effect.acts[UserID]
  BY <1>2, <1>3 DEF Granting, Ledgers
<1>6. Prepared("grant", own[p], effect) => Prepared("rules", own[p], effect)
  BY <1>5 DEF Prepared
<1>7. Submits(p, "grant", "rules", Serves(p), effect)  BY DEF GrantDsoRights
<1> HIDE DEF effect
<1> QED  BY <1>1, <1>4, <1>6, <1>7, Positions, Submissions

LEMMA CheckRulesKeeps ==
    ASSUME SetupInv, NEW p \in Callers, CheckRules(p)  PROVE SetupInv' /\ Grows(ledger, ledger')
<1>1. own[p] \in Variables(boxes) /\ boxes \in Nat /\ LedgerOK /\ ledger \in Ledgers
  BY InvParts DEF LedgerOK
<1>2. CASE Reads(p, "rules", IF ledger.rules > 0 THEN "ready" ELSE "createRules",
                 Serves(p) /\ ledger.packages)
  <2> DEFINE to == IF ledger.rules > 0 THEN "ready" ELSE "createRules"
             ok == Serves(p) /\ ledger.packages
  <2>1. "rules" \in Preparing /\ to \in Preparing \cup {"ready"}  BY DEF Preparing
  <2>2. ok \in BOOLEAN  BY <1>1, Positions, LedgerFields
  <2>3. Prepared("rules", own[p], ledger) => Prepared(to, own[p], ledger)
    <3>1. CASE ledger.rules > 0  BY <3>1 DEF Prepared
    <3>2. CASE ~(ledger.rules > 0)  BY <3>2 DEF Prepared
    <3> QED  BY <3>1, <3>2
  <2>4. Reads(p, "rules", to, ok)  BY <1>2
  <2> HIDE DEF to, ok
  <2> QED  BY <2>1, <2>2, <2>3, <2>4, Readings
<1>3. CASE /\ pc[p] = "rules" /\ Faulty /\ Becoming(p, "createRules", own[p])
           /\ UNCHANGED <<ledger, docker, Outside>>
  <2>1. faults' \in Nat  BY <1>3, InvParts DEF Faulty
  <2>2. AdminTypeOK'  BY <1>3, InvParts DEF AdminTypeOK, Outside, adminVars
  <2>3. Grows(ledger, ledger')  BY <1>1, <1>3, GrowsSame
  <2>4. own[p].round = FALSE
    BY <1>1, <1>3, VariablesFields DEF SetupInv, ContainersInOrder
  <2>5. ASSUME box # 0, own[p].mine = box  PROVE Prepared("createRules", own[p], ledger')
    <3>1. Prepared("rules", own[p], ledger)  BY <1>3, <2>5 DEF SetupInv
    <3> QED  BY <1>3, <3>1 DEF Prepared
  <2>6. "createRules" \in Labels  BY DEF Labels, Preparing
  <2> QED  BY <1>1, <1>3, <2>1, <2>2, <2>3, <2>4, <2>5, <2>6, Moves
<1> QED  BY <1>2, <1>3 DEF CheckRules

LEMMA CreateRulesKeeps ==
    ASSUME SetupInv, NEW p \in Callers, CreateRules(p)  PROVE SetupInv' /\ Grows(ledger, ledger')
<1> DEFINE ok == Connected(p) /\ ledger.vetted /\ ledger.dso \in ledger.acts[UserID]
           effect == [ledger EXCEPT !.rules = @ + 1]
<1>1. "createRules" \in Preparing /\ "readRules" \in Preparing  BY DEF Preparing
<1>2. ledger \in Ledgers /\ LedgerOK  BY InvParts DEF LedgerOK
<1>3. ok \in BOOLEAN  BY <1>2, Positions, LedgerFields
<1>4. Grows(ledger, effect)  BY <1>2, GrowsSetting
<1>5. effect.rules > 0  BY <1>2 DEF Ledgers
<1>6. Prepared("createRules", own[p], effect) => Prepared("readRules", own[p], effect)
  BY <1>5 DEF Prepared
<1>7. Submits(p, "createRules", "readRules", ok, effect)  BY DEF CreateRules
<1> HIDE DEF ok, effect
<1> QED  BY <1>1, <1>3, <1>4, <1>6, <1>7, Submissions

\* A stream of updates is read: the binary goes on, with what it found or without.
LEMMA UpdatesKeep ==
    ASSUME SetupInv, NEW p \in Callers, NEW from \in Preparing, pc[p] = from,
           NEW to \in Preparing \cup {"ready", "off"}, NEW o \in Variables(boxes), Becoming(p, to, o),
           UNCHANGED <<ledger, faults, docker, Outside>>, o.round => to = "ready",
           /\ o.mine = own[p].mine /\ (Prepared(from, own[p], ledger) => Prepared(to, o, ledger))
           \/ Prepared(to, o, ledger)
    PROVE  SetupInv' /\ Grows(ledger, ledger')
<1>1. LedgerOK /\ faults \in Nat /\ AdminTypeOK  BY InvParts
<1>2. Grows(ledger, ledger')  BY <1>1, GrowsSame
<1>3. AdminTypeOK' /\ UNCHANGED docker  BY <1>1 DEF AdminTypeOK, Outside, adminVars
<1>4. box # 0 /\ o.mine = box => Prepared(to, o, ledger')  BY DEF SetupInv
<1>5. to \in Labels /\ to # "start"  BY DEF Labels, Preparing
<1> QED  BY <1>1, <1>2, <1>3, <1>4, <1>5, Moves

LEMMA ReadRuleIdKeeps ==
    ASSUME SetupInv, NEW p \in Callers, ReadRuleId(p)  PROVE SetupInv' /\ Grows(ledger, ledger')
<1> DEFINE o == [own[p] EXCEPT !.rule = TRUE]
<1>1. own[p] \in Variables(boxes) /\ boxes \in Nat  BY InvParts
<1>2. "readRules" \in Preparing /\ "ext" \in Preparing  BY DEF Preparing
<1>3. pc[p] = "readRules" /\ UNCHANGED <<ledger, faults, docker, Outside>>
  BY DEF ReadRuleId, ReadsUpdates
<1>4. own[p].round = FALSE  BY <1>1, <1>3, VariablesFields DEF SetupInv, ContainersInOrder
<1>5. o \in Variables(boxes) /\ o.mine = own[p].mine /\ o.round = own[p].round
      /\ o.party = own[p].party /\ o.rule = TRUE
  BY <1>1 DEF Variables
<1>6. Prepared("readRules", own[p], ledger) => Prepared("ext", own[p], ledger)  BY DEF Prepared
<1>7. Prepared("readRules", own[p], ledger) => Prepared("ext", o, ledger)
  BY <1>4, <1>5 DEF Prepared
<1>8. Becoming(p, "ext", o) \/ Becoming(p, "ext", own[p])  BY DEF ReadRuleId, ReadsUpdates
<1> HIDE DEF o
<1> QED  BY <1>1, <1>2, <1>3, <1>4, <1>5, <1>6, <1>7, <1>8, UpdatesKeep

LEMMA CreateExternalRulesKeeps ==
    ASSUME SetupInv, NEW p \in Callers, CreateExternalRules(p)  PROVE SetupInv' /\ Grows(ledger, ledger')
<1>1. "ext" \in Preparing /\ "boot" \in Preparing  BY DEF Preparing
<1>2. Prepared("ext", own[p], ledger) => Prepared("boot", own[p], ledger)  BY DEF Prepared
<1> QED  BY <1>1, <1>2, Positions, Readings DEF CreateExternalRules

LEMMA BootstrapRoundsKeeps ==
    ASSUME SetupInv, NEW p \in Callers, BootstrapRounds(p)  PROVE SetupInv' /\ Grows(ledger, ledger')
<1> DEFINE ok == Connected(p) /\ own[p].rule
           effect == [ledger EXCEPT !.rounds = TRUE]
<1>1. "boot" \in Preparing /\ "readRound" \in Preparing  BY DEF Preparing
<1>2. ledger \in Ledgers /\ LedgerOK /\ own[p] \in Variables(boxes) /\ boxes \in Nat
  BY InvParts DEF LedgerOK
<1>3. ok \in BOOLEAN  BY <1>2, Positions, VariablesFields
<1>4. Grows(ledger, effect)  BY <1>2, GrowsSetting
<1>5. effect.rounds  BY <1>2 DEF Ledgers
<1>6. ok /\ Prepared("boot", own[p], effect) => Prepared("readRound", own[p], effect)
  BY <1>5 DEF Prepared
<1>7. Submits(p, "boot", "readRound", ok, effect)  BY DEF BootstrapRounds
<1> HIDE DEF ok, effect
<1> QED  BY <1>1, <1>3, <1>4, <1>6, <1>7, Submissions

LEMMA ReadRoundIdKeeps ==
    ASSUME SetupInv, NEW p \in Callers, ReadRoundId(p)  PROVE SetupInv' /\ Grows(ledger, ledger')
<1> DEFINE o == [own[p] EXCEPT !.round = TRUE]
<1>1. own[p] \in Variables(boxes) /\ boxes \in Nat  BY InvParts
<1>2. "readRound" \in Preparing  BY DEF Preparing
<1>3. pc[p] = "readRound" /\ UNCHANGED <<ledger, faults, docker, Outside>>
  BY DEF ReadRoundId, ReadsUpdates
<1>4. o \in Variables(boxes) /\ o.mine = own[p].mine /\ o.rule = own[p].rule
      /\ o.party = own[p].party
  BY <1>1 DEF Variables
<1>5. Prepared("readRound", own[p], ledger) => Prepared("ready", o, ledger)
  BY <1>4 DEF Prepared
<1>6. Blank \in Variables(boxes) /\ Blank.round = FALSE /\ Prepared("off", Blank, ledger)
  BY <1>1, VariablesFields, NothingPrepared DEF Blank
<1>7. Becoming(p, "ready", o) \/ Becoming(p, "off", Blank)
  BY DEF ReadRoundId, ReadsUpdates, Exit
<1> HIDE DEF o
<1>8. CASE Becoming(p, "ready", o)  BY <1>2, <1>3, <1>4, <1>5, <1>8, UpdatesKeep
<1>9. CASE Becoming(p, "off", Blank)  BY <1>2, <1>3, <1>6, <1>9, UpdatesKeep
<1> QED  BY <1>7, <1>8, <1>9

-----------------------------------------------------------------------------
(* The steps that find, start and remove the sandbox, and those of the others. *)

\* A binary moves on before it has prepared anything; a container that changes its
\* phase is not one that another binary is about to start.
LEMMA BeforePreparing ==
    ASSUME SetupInv, NEW p \in Callers, NEW label \in ({"off", "client"} \cup Starting) \ {"start"},
           NEW o \in Variables(boxes), Becoming(p, label, o), o.round = FALSE,
           UNCHANGED <<ledger, boxes, stops, adminVars>>, faults' \in Nat,
           box' \in {0, box}, box' = 0 => phase' = "none", phase' \in Phases,
           \A q \in Callers : q # p /\ pc[q] = "start" /\ own[q].mine = box' => phase' = phase
    PROVE  SetupInv'
<1>1. /\ LedgerOK /\ AdminTypeOK /\ stops \in Nat /\ pc \in [Callers -> Labels]
      /\ own \in [Callers -> Variables(boxes)]
  BY InvParts
<1>2. Grows(ledger, ledger')  BY <1>1, GrowsSame
<1>3. AdminTypeOK' /\ stops' \in Nat  BY <1>1 DEF AdminTypeOK, adminVars
<1>4. label \in Labels  BY DEF Labels, Preparing
<1>5. /\ pc' \in [Callers -> Labels] /\ own' \in [Callers -> Variables(boxes)]
      /\ pc'[p] = label /\ own'[p] = o
      /\ \A q \in Callers : q # p => pc'[q] = pc[q] /\ own'[q] = own[q]
  BY <1>1, <1>4 DEF Becoming, GoTo
<1>6. Prepared(label, o, ledger')  BY NothingPrepared
<1> QED  BY <1>2, <1>3, <1>5, <1>6, Keeps

\* Such a step without a change of the container.
LEMMA Searching ==
    ASSUME SetupInv, NEW p \in Callers, NEW label \in ({"off", "client"} \cup Starting) \ {"start"},
           NEW o \in Variables(boxes), Becoming(p, label, o), o.round = FALSE,
           UNCHANGED <<ledger, docker, adminVars>>, faults' \in Nat
    PROVE  SetupInv'
<1>1. /\ box' = box /\ phase' = phase /\ UNCHANGED <<ledger, boxes, stops, adminVars>>
  BY DEF docker
<1>2. phase \in Phases /\ (box = 0 => phase = "none")  BY InvParts DEF SetupInv, ContainersInOrder
<1> QED  BY <1>1, <1>2, BeforePreparing

\* A binary that is not ready has no round's contract id, whatever else it notes.
LEMMA Noting ==
    ASSUME SetupInv, NEW p \in Callers, pc[p] # "ready"
    PROVE  /\ own[p] \in Variables(boxes) /\ own[p].round = FALSE
           /\ Blank \in Variables(boxes) /\ Blank.round = FALSE
           /\ \A n \in 0..boxes :
                 /\ [own[p] EXCEPT !.mine = n] \in Variables(boxes)
                 /\ [own[p] EXCEPT !.mine = n].round = FALSE
                 /\ [own[p] EXCEPT !.doomed = n] \in Variables(boxes)
                 /\ [own[p] EXCEPT !.doomed = n].round = FALSE
           /\ box \in 0..boxes /\ 0 \in 0..boxes /\ boxes \in Nat /\ faults \in Nat
<1>1. own[p] \in Variables(boxes) /\ boxes \in Nat /\ box \in {0, boxes} /\ faults \in Nat
  BY InvParts
<1>2. own[p].round = FALSE  BY <1>1, VariablesFields DEF SetupInv, ContainersInOrder
<1>3. Blank \in Variables(boxes) /\ Blank.round = FALSE  BY <1>1, VariablesFields DEF Blank
<1>4. ASSUME NEW n \in 0..boxes
      PROVE  /\ [own[p] EXCEPT !.mine = n] \in Variables(boxes)
             /\ [own[p] EXCEPT !.mine = n].round = own[p].round
             /\ [own[p] EXCEPT !.doomed = n] \in Variables(boxes)
             /\ [own[p] EXCEPT !.doomed = n].round = own[p].round
  BY <1>1 DEF Variables
<1> QED  BY <1>1, <1>2, <1>3, <1>4

\* Find, Attach, WaitForPort and WaitForCantonReady only search and wait.
LEMMA SearchesKeep ==
    ASSUME SetupInv, NEW p \in Callers,
           Find(p) \/ Attach(p) \/ WaitForPort(p) \/ WaitForCantonReady(p)
    PROVE  SetupInv'
<1> DEFINE taken == [own[p] EXCEPT !.mine = box]
           doomed == [own[p] EXCEPT !.doomed = box]
<1>1. pc[p] # "ready" /\ faults' \in Nat /\ UNCHANGED <<ledger, docker, adminVars>>
  BY InvParts DEF Find, Attach, WaitForPort, WaitForCantonReady, Faulty, Outside
<1>2. /\ taken \in Variables(boxes) /\ taken.round = FALSE
      /\ doomed \in Variables(boxes) /\ doomed.round = FALSE
      /\ own[p] \in Variables(boxes) /\ own[p].round = FALSE
      /\ Blank \in Variables(boxes) /\ Blank.round = FALSE
  BY <1>1, Noting
<1>3. \E label \in {"off", "client", "port", "remove", "create", "removeAttached"},
         o \in {taken, doomed, own[p], Blank} : Becoming(p, label, o)
  BY DEF Find, Attach, WaitForPort, WaitForCantonReady, Taken, Doomed, Exit
<1> HIDE DEF taken, doomed
<1>4. PICK label \in {"off", "client", "port", "remove", "create", "removeAttached"},
           o \in {taken, doomed, own[p], Blank} : Becoming(p, label, o)
  BY <1>3
<1>5. o \in Variables(boxes) /\ o.round = FALSE  BY <1>2
<1>6. label \in ({"off", "client"} \cup Starting) \ {"start"}  BY DEF Starting
<1> QED  BY <1>1, <1>4, <1>5, <1>6, Searching

\* Remove and RemoveAttached take the container or leave it.
LEMMA RemovalsKeep ==
    ASSUME SetupInv, NEW p \in Callers, Remove(p) \/ RemoveAttached(p)
    PROVE  SetupInv'
<1> DEFINE o == [own[p] EXCEPT !.doomed = 0]
<1>1. pc[p] # "ready" /\ UNCHANGED <<ledger, boxes, stops, adminVars>> /\ Removes(p)
  BY DEF Remove, RemoveAttached, Outside
<1>2. /\ o \in Variables(boxes) /\ o.round = FALSE
      /\ Blank \in Variables(boxes) /\ Blank.round = FALSE
  BY <1>1, Noting
<1>3. Becoming(p, "create", o) \/ Becoming(p, "off", Blank)
  BY DEF Remove, RemoveAttached, Exit
<1>4. /\ faults' \in Nat /\ box' \in {0, box} /\ (box' = 0 => phase' = "none")
      /\ phase' \in Phases /\ (box' # 0 => phase' = phase)
  BY <1>1, InvParts DEF Removes, Faulty, SetupInv, ContainersInOrder, Phases
<1>5. \A q \in Callers : q # p /\ pc[q] = "start" /\ own[q].mine = box' => phase' = phase
  BY <1>4 DEF SetupInv, ContainersInOrder
<1>6. "create" \in ({"off", "client"} \cup Starting) \ {"start"}
      /\ "off" \in ({"off", "client"} \cup Starting) \ {"start"}
  BY DEF Starting
<1> HIDE DEF o
<1>7. CASE Becoming(p, "create", o)  BY <1>1, <1>2, <1>4, <1>5, <1>6, <1>7, BeforePreparing
<1>8. CASE Becoming(p, "off", Blank)  BY <1>1, <1>2, <1>4, <1>5, <1>6, <1>8, BeforePreparing
<1> QED  BY <1>3, <1>7, <1>8

\* StartContainer starts only the container this binary has created.
LEMMA StartContainerKeeps ==
    ASSUME SetupInv, NEW p \in Callers, StartContainer(p)
    PROVE  SetupInv'
<1>1. /\ pc[p] = "start" /\ UNCHANGED <<ledger, boxes, stops, adminVars, box>>
  BY DEF StartContainer, Outside
<1>2. /\ own[p] \in Variables(boxes) /\ own[p].round = FALSE
      /\ Blank \in Variables(boxes) /\ Blank.round = FALSE /\ faults \in Nat
  BY <1>1, Noting
<1>3. "wait" \in ({"off", "client"} \cup Starting) \ {"start"}
      /\ "off" \in ({"off", "client"} \cup Starting) \ {"start"}
  BY DEF Starting
<1>4. box = 0 => phase = "none"  BY DEF SetupInv, ContainersInOrder
<1>5. CASE box = own[p].mine /\ phase' = "starting" /\ Becoming(p, "wait", own[p]) /\ UNCHANGED faults
  <2>1. box # 0 /\ \A q \in Callers : pc[q] = "start" /\ own[q].mine = box => q = p
    BY <1>1, <1>5 DEF SetupInv, ContainersInOrder
  <2>2. phase' \in Phases  BY <1>5 DEF Phases
  <2> QED  BY <1>1, <1>2, <1>3, <1>5, <2>1, <2>2, BeforePreparing
<1>6. CASE Becoming(p, "off", Blank) /\ UNCHANGED phase /\ faults' \in Nat
  <2>1. phase' \in Phases  BY <1>6, InvParts
  <2> QED  BY <1>1, <1>2, <1>3, <1>4, <1>6, <2>1, BeforePreparing
<1> QED  BY <1>2, <1>5, <1>6 DEF StartContainer, Exit, Faulty

\* CreateContainer: a new container is nobody else's.
LEMMA CreateContainerKeeps ==
    ASSUME SetupInv, NEW p \in Callers, CreateContainer(p)
    PROVE  SetupInv'
<1>1. pc[p] = "create" /\ UNCHANGED <<stops, adminVars>>  BY DEF CreateContainer, Outside
<1>2. /\ own[p] \in Variables(boxes) /\ own[p].round = FALSE
      /\ Blank \in Variables(boxes) /\ Blank.round = FALSE /\ faults \in Nat
  BY <1>1, Noting
<1>3. CASE /\ boxes' = boxes + 1 /\ box' = boxes' /\ phase' = "created" /\ ledger' = NewLedger
           /\ Becoming(p, "start", [own[p] EXCEPT !.mine = boxes']) /\ UNCHANGED faults
  <2> DEFINE o == [own[p] EXCEPT !.mine = boxes + 1]
  <2>1. /\ AdminTypeOK /\ boxes \in Nat /\ stops \in Nat /\ pc \in [Callers -> Labels]
        /\ own \in [Callers -> Variables(boxes)]
    BY InvParts
  <2>2. o \in Variables(boxes + 1) /\ o.mine = boxes + 1 /\ o.round = FALSE
    <3>1. own[p] \in Variables(boxes + 1)  BY <1>2, <2>1, VariablesFields
    <3> QED  BY <1>2, <2>1, <3>1 DEF Variables
  <2>3. "start" \in Labels  BY DEF Labels, Starting
  <2>4. own \in [Callers -> Variables(boxes + 1)]
    <3>1. \A q \in Callers : own[q] \in Variables(boxes + 1)  BY <2>1, VariablesFields
    <3> QED  BY <2>1, <3>1
  <2> HIDE DEF o
  <2>5. /\ pc' \in [Callers -> Labels] /\ own' \in [Callers -> Variables(boxes')]
        /\ pc'[p] = "start" /\ own'[p] = o
        /\ \A q \in Callers : q # p => pc'[q] = pc[q] /\ own'[q] = own[q] /\ own[q].mine \in 0..boxes
    <3>1. Becoming(p, "start", o)  BY <1>3 DEF o
    <3>2. \A q \in Callers : own[q].mine \in 0..boxes  BY <2>1, VariablesFields
    <3> QED  BY <1>3, <2>1, <2>2, <2>3, <2>4, <3>1, <3>2 DEF Becoming, GoTo
  <2>6. SetupTypeOK'
    <3>1. AdminTypeOK'  BY <1>1, <2>1 DEF AdminTypeOK, adminVars
    <3> QED  BY <1>1, <1>2, <1>3, <2>1, <2>5, <3>1, NewLedgerOK DEF SetupTypeOK, Phases
  <2>7. ContainersInOrder'
    <3>1. box' \in {0, boxes'} /\ box' # 0  BY <1>3, <2>1
    <3>2. ASSUME NEW q \in Callers, pc'[q] = "start"
          PROVE  own'[q].mine # 0 /\ phase' = "created"
      BY <1>3, <2>1, <2>2, <2>5, <3>2 DEF SetupInv, ContainersInOrder
    <3>3. ASSUME NEW q \in Callers, NEW r \in Callers, pc'[q] = "start", pc'[r] = "start",
                 own'[r].mine = own'[q].mine
          PROVE  r = q
      BY <2>1, <2>2, <2>5, <3>3 DEF SetupInv, ContainersInOrder
    <3>4. ASSUME NEW q \in Callers, own'[q].round
          PROVE  pc'[q] = "ready"
      BY <2>2, <2>5, <3>4 DEF SetupInv, ContainersInOrder
    <3> QED  BY <3>1, <3>2, <3>3, <3>4 DEF ContainersInOrder
  <2>8. ASSUME NEW q \in Callers, own'[q].mine = box'
        PROVE  Prepared(pc'[q], own'[q], ledger')
    <3>1. q = p  BY <1>3, <2>1, <2>5, <2>8
    <3>2. "start" \in Starting  BY DEF Starting
    <3> QED  BY <2>2, <2>5, <3>1, <3>2, NothingPrepared
  <2> QED  BY <2>6, <2>7, <2>8 DEF SetupInv
<1>4. CASE \/ box # 0 /\ Becoming(p, "attach", own[p]) /\ UNCHANGED <<ledger, faults, box, boxes, phase>>
           \/ Faulty /\ Becoming(p, "off", Blank) /\ UNCHANGED <<ledger, box, boxes, phase>>
  <2>1. "attach" \in ({"off", "client"} \cup Starting) \ {"start"}
        /\ "off" \in ({"off", "client"} \cup Starting) \ {"start"}
    BY DEF Starting
  <2>2. UNCHANGED docker /\ faults' \in Nat  BY <1>1, <1>2, <1>4 DEF CreateContainer, docker, Faulty
  <2> QED  BY <1>1, <1>2, <1>4, <2>1, <2>2, Searching
<1> QED  BY <1>3, <1>4 DEF CreateContainer, Exit

\* Launch starts the search.
LEMMA LaunchKeeps ==
    ASSUME SetupInv, NEW p \in Callers, Launch(p)
    PROVE  SetupInv'
<1>1. pc[p] # "ready" /\ UNCHANGED <<ledger, docker, adminVars>> /\ faults' = faults
  BY DEF Launch
<1>2. own[p] \in Variables(boxes) /\ own[p].round = FALSE /\ faults \in Nat  BY <1>1, Noting
<1>3. "find" \in ({"off", "client"} \cup Starting) \ {"start"}  BY DEF Starting
<1>4. Becoming(p, "find", own[p])
  <2>1. own \in [Callers -> Variables(boxes)]  BY InvParts
  <2>2. own' = [own EXCEPT ![p] = own[p]]  BY <2>1 DEF Launch
  <2> QED  BY <2>2 DEF Launch, Becoming
<1> QED  BY <1>1, <1>2, <1>3, <1>4, Searching

\* End: a binary that is gone relies on nothing.
LEMMA EndKeeps ==
    ASSUME SetupInv, NEW p \in Callers, End(p)
    PROVE  SetupInv'
<1>1. UNCHANGED docker /\ ledger' = ledger /\ faults' = faults /\ Becoming(p, "off", Blank)
  BY DEF End, Exit
<1>2. LedgerOK /\ AdminTypeOK /\ faults \in Nat /\ boxes \in Nat  BY InvParts
<1>3. own[p] \in Variables(boxes)  BY InvParts
<1>4. Blank \in Variables(boxes) /\ Blank.round = FALSE /\ Prepared("off", Blank, ledger')
  BY <1>2, <1>3, VariablesFields, NothingPrepared DEF Blank
<1>5. AdminTypeOK'  BY <1>2 DEF AdminTypeOK, End, Forget, Becomes, CallStates, NoParty
<1>6. Grows(ledger, ledger')  BY <1>1, <1>2, GrowsSame
<1> QED  BY <1>1, <1>2, <1>4, <1>5, <1>6, Positions, Moves

\* Boot and Stop change the phase of a container that has been started.
LEMMA SandboxKeeps ==
    ASSUME SetupInv, Boot \/ Stop
    PROVE  SetupInv'
<1>1. UNCHANGED <<ledger, faults, adminVars, box, boxes, pc, own>>  BY DEF Boot, Stop, Outside
<1>2. /\ LedgerOK /\ AdminTypeOK /\ faults \in Nat /\ stops \in Nat /\ pc \in [Callers -> Labels]
      /\ own \in [Callers -> Variables(boxes)]
  BY InvParts
<1>3. Grows(ledger, ledger') /\ AdminTypeOK'  BY <1>1, <1>2, GrowsSame DEF AdminTypeOK, adminVars
<1>4. Running /\ phase' \in Phases /\ stops' \in Nat
  BY <1>2 DEF Boot, Stop, Running, Phases, Outside
<1>5. box # 0 /\ \A q \in Callers : pc[q] = "start" => own[q].mine # box
  BY <1>4 DEF SetupInv, ContainersInOrder, Running
<1> QED  BY <1>1, <1>2, <1>3, <1>4, <1>5, Keeps

\* A step of a ledger controller's call only adds parties, users and rights.
LEMMA AdminKeeps ==
    ASSUME LedgerOK, AdminTypeOK, faults \in Nat, NEW p \in Callers, NEW served \in BOOLEAN,
           AdminStep(p, served) \/ \E operation \in Operations : StartCall(p, operation)
    PROVE  /\ Grows(ledger, ledger') /\ ledger'.rules = ledger.rules
           /\ faults' \in Nat /\ faults <= faults' /\ AdminTypeOK'
<1>1. /\ ledger \in Ledgers /\ ledger.allocated \in Nat /\ ledger.dso \in Nat /\ UserID \in Users
      /\ OtherUser \in Users /\ UserID # OtherUser /\ ledger.primary \in [Users -> Nat]
  BY LedgerFields, UsersAssumption DEF LedgerOK
<1>2. /\ Grows(ledger, ledger)
      /\ Grows(ledger, Allocating) /\ Allocating.rules = ledger.rules
      /\ \A q \in Callers : /\ Grows(ledger, Granting(UserID, {subject[q]}))
                            /\ Granting(UserID, {subject[q]}).rules = ledger.rules
  <2>1. \A q \in Callers : subject[q] \in Nat  BY DEF AdminTypeOK
  <2> QED  BY <2>1, GrowsSame, GrowsAllocating, GrowsGranting
<1>3. CASE AllocateInternalParty(p, served)
  <2>1. PICK hintIsFree \in BOOLEAN :
          Succeeds(served /\ hintIsFree, Allocating) \/ Fails(served /\ hintIsFree, Allocating)
    BY <1>3 DEF AllocateInternalParty
  <2>2. /\ Grows(ledger, ledger') /\ ledger'.rules = ledger.rules
        /\ faults' \in Nat /\ faults <= faults'
    BY <1>2, <2>1, Answered
  <2>3. AdminTypeOK'  BY <1>1, <1>3 DEF AllocateInternalParty, AdminTypeOK, Becomes, CallStates
  <2> QED  BY <2>2, <2>3
<1>4. CASE AllocateExternalParty(p, served)
  <2>1. /\ Grows(ledger, ledger') /\ ledger'.rules = ledger.rules
        /\ faults' \in Nat /\ faults <= faults'
    BY <1>2, <1>4, Answered DEF AllocateExternalParty
  <2>2. AdminTypeOK'  BY <1>1, <1>4 DEF AllocateExternalParty, AdminTypeOK, Becomes, CallStates
  <2> QED  BY <2>1, <2>2
<1>5. CASE GrantExternal(p, served)
  <2>1. /\ Grows(ledger, ledger') /\ ledger'.rules = ledger.rules
        /\ faults' \in Nat /\ faults <= faults'
    BY <1>2, <1>5, Answered DEF GrantExternal
  <2>2. AdminTypeOK'  BY <1>5 DEF GrantExternal, AdminTypeOK, Becomes, CallStates
  <2> QED  BY <2>1, <2>2
<1>6. CASE GrantRights(p, served)
  <2>1. PICK ps \in SUBSET {ledger.primary[UserID], ledger.dso} :
          Succeeds(served, Granting(UserID, ps)) \/ Fails(served, Granting(UserID, ps))
    BY <1>6 DEF GrantRights
  <2>2. \A x \in ps : x \in Nat  BY <1>1, <2>1
  <2>3. Grows(ledger, Granting(UserID, ps)) /\ Granting(UserID, ps).rules = ledger.rules
    BY <2>2, GrowsGranting
  <2>4. /\ Grows(ledger, ledger') /\ ledger'.rules = ledger.rules
        /\ faults' \in Nat /\ faults <= faults'
     BY <2>1, <2>3, Answered
  <2>5. AdminTypeOK'  BY <1>6 DEF GrantRights, AdminTypeOK, Becomes, CallStates
  <2> QED  BY <2>4, <2>5
<1>7. CASE GrantMasterUserRights(p, served)
  <2> DEFINE granted == [ledger EXCEPT !.admins = @ \cup {UserID}]
  <2>1. PICK effect \in {granted, ledger} : Succeeds(served, effect) \/ Fails(served, effect)
    BY <1>7 DEF GrantMasterUserRights
  <2>2. Grows(ledger, granted) /\ granted.rules = ledger.rules  BY GrowsSetting
  <2> HIDE DEF granted
  <2>3. Grows(ledger, effect) /\ effect.rules = ledger.rules  BY <1>2, <2>1, <2>2
  <2>4. /\ Grows(ledger, ledger') /\ ledger'.rules = ledger.rules
        /\ faults' \in Nat /\ faults <= faults'
     BY <2>1, <2>3, Answered
  <2>5. AdminTypeOK'  BY <1>7 DEF GrantMasterUserRights, AdminTypeOK, Becomes, CallStates
  <2> QED  BY <2>4, <2>5
<1>8. CASE CreateUser(p, served)
  <2> DEFINE ok == served /\ ledger.primary[OtherUser] = NoParty
             effect == Creating(OtherUser, ledger.primary[UserID])
  <2>1. Succeeds(ok, effect) \/ Fails(ok, effect)  BY <1>8 DEF CreateUser
  <2>2. Grows(ledger, effect) /\ effect.rules = ledger.rules  BY <1>1, GrowsCreating
  <2>3. ok \in BOOLEAN  OBVIOUS
  <2> HIDE DEF ok, effect
  <2>4. /\ Grows(ledger, ledger') /\ ledger'.rules = ledger.rules
        /\ faults' \in Nat /\ faults <= faults'
     BY <2>1, <2>2, <2>3, Answered
  <2>5. AdminTypeOK'  BY <1>8 DEF CreateUser, AdminTypeOK, Becomes, CallStates
  <2> QED  BY <2>4, <2>5
<1>9. CASE ListWallets(p, served)
  <2>1. /\ Grows(ledger, ledger') /\ ledger'.rules = ledger.rules
        /\ faults' \in Nat /\ faults <= faults'
    BY <1>2, <1>9, Answered DEF ListWallets
  <2>2. \A page \in Pages(ledger.allocated) : page \in SUBSET Nat
    BY <1>1, PagesShowParties DEF LedgerOK, Ledgers
  <2>3. AdminTypeOK'  BY <1>1, <1>9, <2>2 DEF ListWallets, AdminTypeOK, Becomes, CallStates
  <2> QED  BY <2>1, <2>3
<1>10. CASE ListSynchronizers(p, served)
  <2>1. /\ Grows(ledger, ledger') /\ ledger'.rules = ledger.rules
        /\ faults' \in Nat /\ faults <= faults'
    BY <1>2, <1>10, Answered DEF ListSynchronizers
  <2>2. PICK x \in todo[p] :
          /\ todo' = [todo EXCEPT ![p] = @ \ {x}]
          /\ accounts' = [accounts EXCEPT ![p] = @ \cup {x}] \/ UNCHANGED accounts
          /\ UNCHANGED <<call, subject>>
    BY <1>10 DEF ListSynchronizers
  <2>3. todo[p] \ {x} \in SUBSET Nat /\ accounts[p] \cup {x} \in SUBSET Nat
    BY <2>2 DEF AdminTypeOK
  <2>4. AdminTypeOK'  BY <2>2, <2>3 DEF AdminTypeOK
  <2> QED  BY <2>1, <2>4
<1>11. CASE ReturnAccounts(p) \/ \E operation \in Operations : StartCall(p, operation)
  <2>1. UNCHANGED <<ledger, faults, subject, todo, accounts>>
        /\ \E state \in Operations \cup {"listed"} : Becomes(p, state)
    BY <1>11 DEF ReturnAccounts, StartCall
  <2>2. AdminTypeOK'  BY <2>1 DEF AdminTypeOK, Becomes, CallStates
  <2> QED  BY <1>2, <2>1, <2>2
<1> QED  BY <1>3, <1>4, <1>5, <1>6, <1>7, <1>8, <1>9, <1>10, <1>11 DEF AdminStep

\* Test: the tests' calls move no binary.
LEMMA TestKeeps ==
    ASSUME SetupInv, NEW p \in Callers, Test(p)
    PROVE  SetupInv'
<1>1. /\ LedgerOK /\ AdminTypeOK /\ faults \in Nat /\ stops \in Nat /\ phase \in Phases
      /\ pc \in [Callers -> Labels] /\ own \in [Callers -> Variables(boxes)]
  BY InvParts
<1>2. /\ AdminStep(p, Connected(p)) \/ \E operation \in Operations : StartCall(p, operation)
      /\ UNCHANGED <<box, boxes, phase, stops, pc, own>>
  BY DEF Test, docker
<1>3. Grows(ledger, ledger') /\ faults' \in Nat /\ AdminTypeOK'
  BY <1>1, <1>2, Positions, AdminKeeps
<1>4. box = 0 => phase = "none"  BY DEF SetupInv, ContainersInOrder
<1> QED  BY <1>1, <1>2, <1>3, <1>4, Keeps

LEMMA InitSetupInv == Init => SetupInv
<1> SUFFICES ASSUME Init PROVE SetupInv  OBVIOUS
<1>1. Blank \in Variables(0) /\ Blank.round = FALSE  BY DEF Blank, Variables, NoParty
<1>2. AdminTypeOK  BY DEF Init, AdminInit, AdminTypeOK, CallStates, NoParty
<1>3. SetupTypeOK
  BY <1>1, <1>2, NewLedgerOK, Positions DEF Init, SetupTypeOK, Phases
<1>4. ContainersInOrder  BY <1>1 DEF Init, ContainersInOrder
<1> QED  BY <1>3, <1>4 DEF Init, SetupInv

\* A step of Setup, by what it does.
LEMMA SetupKeeps ==
    ASSUME SetupInv, NEW p \in Callers, Setup(p)
    PROVE  SetupInv'
<1>1. CASE Find(p) \/ Attach(p) \/ WaitForPort(p) \/ WaitForCantonReady(p)
  BY <1>1, SearchesKeep
<1>2. CASE Remove(p) \/ RemoveAttached(p)  BY <1>2, RemovalsKeep
<1>3. CASE CreateContainer(p)  BY <1>3, CreateContainerKeeps
<1>4. CASE StartContainer(p)  BY <1>4, StartContainerKeeps
<1>5. CASE ListUsers(p) \/ AwaitSynchronizer(p) \/ AllocateTestParty(p) \/ CreateTestUser(p)
  BY <1>5, ListUsersKeeps, AwaitSynchronizerKeeps, AllocateTestPartyKeeps, CreateTestUserKeeps
<1>6. CASE GetSynchronizer(p) \/ UploadDarFiles(p) \/ VetPackages(p)
  BY <1>6, GetSynchronizerKeeps, UploadDarFilesKeeps, VetPackagesKeeps
<1>7. CASE ListDso(p) \/ AllocateDso(p) \/ GrantDsoRights(p)
  BY <1>7, ListDsoKeeps, AllocateDsoKeeps, GrantDsoRightsKeeps
<1>8. CASE CheckRules(p) \/ CreateRules(p) \/ ReadRuleId(p)
  BY <1>8, CheckRulesKeeps, CreateRulesKeeps, ReadRuleIdKeeps
<1>9. CASE CreateExternalRules(p) \/ BootstrapRounds(p) \/ ReadRoundId(p)
  BY <1>9, CreateExternalRulesKeeps, BootstrapRoundsKeeps, ReadRoundIdKeeps
<1> QED  BY <1>1, <1>2, <1>3, <1>4, <1>5, <1>6, <1>7, <1>8, <1>9 DEF Setup

\* A step that changes nothing keeps it.
LEMMA StutterKeeps == SetupInv /\ UNCHANGED vars => SetupInv'
<1> SUFFICES ASSUME SetupInv, UNCHANGED vars PROVE SetupInv'  OBVIOUS
<1>1. UNCHANGED <<ledger, faults, adminVars, boxes, box, phase, stops, pc, own>>
  BY DEF vars, docker
<1>2. /\ LedgerOK /\ AdminTypeOK /\ faults \in Nat /\ stops \in Nat /\ phase \in Phases
      /\ pc \in [Callers -> Labels] /\ own \in [Callers -> Variables(boxes)]
  BY InvParts
<1>3. Grows(ledger, ledger') /\ AdminTypeOK'  BY <1>1, <1>2, GrowsSame DEF AdminTypeOK, adminVars
<1>4. box = 0 => phase = "none"  BY DEF SetupInv, ContainersInOrder
<1> QED  BY <1>1, <1>2, <1>3, <1>4, Keeps

\* What a test binary's Setup has prepared in the sandbox it shares with the others is
\* there as long as that container has the name, whatever they do: testutil.go's steps
\* look, act and go on without a lock.
THEOREM SetupInvHolds == Spec => []SetupInv
<1>1. SetupInv /\ [Next]_vars => SetupInv'
  <2> SUFFICES ASSUME SetupInv, [Next]_vars PROVE SetupInv'  OBVIOUS
  <2>1. ASSUME NEW p \in Callers, Launch(p) \/ Setup(p) \/ Test(p) \/ End(p)
        PROVE  SetupInv'
    BY <2>1, LaunchKeeps, SetupKeeps, TestKeeps, EndKeeps
  <2>2. CASE Boot \/ Stop  BY <2>2, SandboxKeeps
  <2>3. CASE UNCHANGED vars  BY <2>3, StutterKeeps
  <2> QED  BY <2>1, <2>2, <2>3 DEF Next
<1> QED  BY InitSetupInv, <1>1, PTL DEF Spec

-----------------------------------------------------------------------------
(* Serialized binaries. *)

\* With go test -p 1 one binary runs at a time: the container it is about to remove
\* stays stopped, and while no request fails its search for AmuletRules stays true.
SerialInv ==
    serialized =>
        /\ ~contended
        /\ faults = 0 => ledger.rules <= 1
        /\ \A p, q \in Callers : pc[p] # "off" /\ pc[q] # "off" => p = q
        /\ \A p \in Callers :
              /\ pc[p] \in {"remove", "removeAttached"} /\ own[p].doomed = box => ~Running
              /\ faults = 0 /\ pc[p] = "createRules" /\ own[p].mine = box => ledger.rules = 0

\* A step of one binary with its sandbox: it goes on, or ends.
Asks(p, to) ==
    /\ pc[p] \in Preparing
    /\ UNCHANGED <<docker, serialized, adminVars>>
    /\ faults' = faults \/ faults' = faults + 1
    /\ \E o : Becoming(p, to, o) \/ Becoming(p, "off", o)

LEMMA RequestsAsk ==
    ASSUME NEW p, NEW from \in Preparing, NEW to, NEW ok, NEW effect, NEW o,
           Request(p, from, to, ok, effect, o)
    PROVE  Asks(p, to) /\ ledger' \in {ledger, effect}
  BY DEF Request, Succeeds, Fails, Exit, Outside, Asks

LEMMA SubmissionsAsk ==
    ASSUME NEW p, NEW from \in Preparing, NEW to, NEW ok, NEW effect
    PROVE  /\ Submits(p, from, to, ok, effect) => Asks(p, to) /\ ledger' \in {ledger, effect}
           /\ Reads(p, from, to, ok) => Asks(p, to) /\ ledger' = ledger
<1>1. Submits(p, from, to, ok, effect) => Asks(p, to) /\ ledger' \in {ledger, effect}
  BY RequestsAsk DEF Submits
<1>2. Reads(p, from, to, ok) => Asks(p, to) /\ ledger' \in {ledger, ledger}
  BY RequestsAsk DEF Submits, Reads
<1> QED  BY <1>1, <1>2

\* Every step of Setup with its sandbox but CreateRules leaves the AmuletRules alone, and
\* only CheckRules goes on to create them.
LEMMA OthersKeepRules ==
    ASSUME SetupInv, NEW p \in Callers,
           \/ ListUsers(p) \/ AwaitSynchronizer(p) \/ AllocateTestParty(p) \/ CreateTestUser(p)
           \/ GetSynchronizer(p) \/ UploadDarFiles(p) \/ VetPackages(p) \/ ListDso(p)
           \/ AllocateDso(p) \/ GrantDsoRights(p) \/ ReadRuleId(p)
           \/ CreateExternalRules(p) \/ BootstrapRounds(p) \/ ReadRoundId(p)
    PROVE  /\ ledger'.rules = ledger.rules
           /\ \E to \in (Preparing \ {"createRules"}) \cup {"ready", "off"} : Asks(p, to)
<1>1. ledger \in Ledgers /\ LedgerOK  BY InvParts DEF LedgerOK
<1>2. /\ Allocating.rules = ledger.rules /\ Creating(UserID, own[p].party).rules = ledger.rules
      /\ [Allocating EXCEPT !.dso = ledger.allocated + 1].rules = ledger.rules
      /\ [ledger EXCEPT !.packages = TRUE].rules = ledger.rules
      /\ [ledger EXCEPT !.vetted = TRUE].rules = ledger.rules
      /\ [ledger EXCEPT !.rounds = TRUE].rules = ledger.rules
      /\ Granting(UserID, {ledger.dso}).rules = ledger.rules
  BY <1>1 DEF Ledgers, Allocating, Creating, Granting
<1>3. CASE ListUsers(p)
  <2>1. CASE Request(p, "client", "sync", Serves(p), ledger,
                     [own[p] EXCEPT !.party = ledger.primary[UserID]])
    <3>1. Asks(p, "sync") /\ ledger' \in {ledger, ledger}  BY <2>1, RequestsAsk
    <3> QED  BY <3>1
  <2>2. CASE Reads(p, "client", "await", Serves(p))
    <3>1. Asks(p, "await") /\ ledger' = ledger  BY <2>2, SubmissionsAsk
    <3> QED  BY <3>1
  <2> QED  BY <1>3, <2>1, <2>2 DEF ListUsers
<1>4. CASE AwaitSynchronizer(p) \/ GetSynchronizer(p) \/ CreateExternalRules(p)
  BY <1>4, SubmissionsAsk DEF AwaitSynchronizer, GetSynchronizer, CreateExternalRules
<1>9. CASE ListDso(p)
  <2>1. PICK to \in {"allocDso", "grant"} : Reads(p, "listDso", to, Serves(p))
    BY <1>9 DEF ListDso
  <2> QED  BY <2>1, SubmissionsAsk
<1>5. CASE AllocateTestParty(p)
  <2>1. Asks(p, "createUser") /\ ledger' \in {ledger, Allocating}
    BY <1>5, RequestsAsk DEF AllocateTestParty
  <2> QED  BY <1>2, <2>1
<1>6. CASE CreateTestUser(p) \/ AllocateDso(p) \/ GrantDsoRights(p)
  <2>1. \/ Asks(p, "sync") /\ ledger' \in {ledger, Creating(UserID, own[p].party)}
        \/ Asks(p, "grant") /\ ledger' \in {ledger, [Allocating EXCEPT !.dso = ledger.allocated + 1]}
        \/ Asks(p, "rules") /\ ledger' \in {ledger, Granting(UserID, {ledger.dso})}
    BY <1>6, SubmissionsAsk DEF CreateTestUser, AllocateDso, GrantDsoRights
  <2> QED  BY <1>2, <2>1
<1>7. CASE UploadDarFiles(p) \/ VetPackages(p) \/ BootstrapRounds(p)
  <2>1. CASE UploadDarFiles(p)
    <3>1. Asks(p, "vet") /\ ledger' \in {ledger, [ledger EXCEPT !.packages = TRUE]}
      BY <2>1, SubmissionsAsk DEF UploadDarFiles
    <3> QED  BY <1>2, <3>1
  <2>2. CASE VetPackages(p)
    <3>1. Asks(p, "listDso") /\ ledger' \in {ledger, [ledger EXCEPT !.vetted = TRUE]}
      BY <2>2, SubmissionsAsk DEF VetPackages
    <3> QED  BY <1>2, <3>1
  <2>3. CASE BootstrapRounds(p)
    <3>1. Asks(p, "readRound") /\ ledger' \in {ledger, [ledger EXCEPT !.rounds = TRUE]}
      BY <2>3, SubmissionsAsk DEF BootstrapRounds
    <3> QED  BY <1>2, <3>1
  <2> QED  BY <1>7, <2>1, <2>2, <2>3
<1>8. CASE ReadRuleId(p) \/ ReadRoundId(p)
  <2>1. /\ pc[p] \in {"readRules", "readRound"}
        /\ UNCHANGED <<ledger, faults, docker, serialized, adminVars>>
    BY <1>8 DEF ReadRuleId, ReadRoundId, ReadsUpdates, Outside
  <2>2. \E o : Becoming(p, "ext", o) \/ Becoming(p, "ready", o) \/ Becoming(p, "off", o)
    BY <1>8 DEF ReadRuleId, ReadRoundId, ReadsUpdates, Exit
  <2>3. Asks(p, "ext") \/ Asks(p, "ready")  BY <2>1, <2>2 DEF Asks
  <2> QED  BY <2>1, <2>3
<1> QED  BY <1>3, <1>4, <1>5, <1>6, <1>7, <1>8, <1>9

\* The step of the one binary that is there: the rest of SerialInv is about it alone.
LEMMA SerialMoves ==
    ASSUME SetupInv, SerialInv, NEW p \in Callers, serialized' = serialized,
           NEW label, GoTo(p, label),
           serialized => \A q \in Callers : q # p => pc[q] = "off",
           serialized =>
               /\ ~contended'
               /\ faults' = 0 => ledger'.rules <= 1
               /\ label \in {"remove", "removeAttached"} /\ own'[p].doomed = box' => ~Running'
               /\ faults' = 0 /\ label = "createRules" /\ own'[p].mine = box' => ledger'.rules = 0
    PROVE  SerialInv'
<1>1. pc \in [Callers -> Labels]  BY InvParts
<1>2. pc'[p] = label /\ \A q \in Callers : q # p => pc'[q] = pc[q]  BY <1>1 DEF GoTo
<1> QED  BY <1>2 DEF SerialInv

\* A binary that has started is the only one.
LEMMA Alone ==
    ASSUME SerialInv, serialized, NEW p \in Callers, pc[p] # "off"
    PROVE  \A q \in Callers : q # p => pc[q] = "off"
  BY DEF SerialInv

\* What SerialInv says of the state before a step.
LEMMA SerialParts ==
    ASSUME SetupInv, SerialInv, serialized, NEW p \in Callers
    PROVE  /\ ~contended /\ (faults = 0 => ledger.rules <= 1) /\ faults \in Nat /\ ledger.rules \in Nat
           /\ pc[p] \in {"remove", "removeAttached"} /\ own[p].doomed = box => ~Running
           /\ faults = 0 /\ pc[p] = "createRules" /\ own[p].mine = box => ledger.rules = 0
<1>1. faults \in Nat /\ ledger \in Ledgers  BY InvParts DEF LedgerOK
<1> QED  BY <1>1, LedgerFields DEF SerialInv

LEMMA SerialPrepares ==
    ASSUME SetupInv, SerialInv, NEW p \in Callers,
           NEW to \in (Preparing \ {"createRules"}) \cup {"ready", "off"}, Asks(p, to),
           ledger'.rules = ledger.rules
    PROVE  SerialInv'
<1>1. UNCHANGED <<serialized, contended>> /\ pc[p] # "off"  BY DEF Asks, docker, Preparing
<1>2. serialized => ~contended' /\ (faults' = 0 => ledger'.rules <= 1)
  BY <1>1, SerialParts DEF Asks
<1>3. PICK label \in {to, "off"} : GoTo(p, label)  BY DEF Asks, Becoming
<1>4. label \notin {"remove", "removeAttached", "createRules"}  BY <1>3 DEF Preparing
<1> QED  BY <1>1, <1>2, <1>3, <1>4, Alone, SerialMoves

LEMMA SerialCheckRules ==
    ASSUME SetupInv, SerialInv, NEW p \in Callers, CheckRules(p)
    PROVE  SerialInv'
<1> DEFINE to == IF ledger.rules > 0 THEN "ready" ELSE "createRules"
<1>1. "rules" \in Preparing /\ to \in {"ready", "createRules"}  BY DEF Preparing
<1>2. CASE Reads(p, "rules", to, Serves(p) /\ ledger.packages)
  <2>1. Asks(p, to) /\ ledger' = ledger  BY <1>1, <1>2, SubmissionsAsk
  <2>2. UNCHANGED <<serialized, contended>> /\ pc[p] # "off"  BY <2>1 DEF Asks, docker, Preparing
  <2>3. serialized => /\ ~contended' /\ (faults' = 0 => ledger'.rules <= 1)
                      /\ to = "createRules" => ledger'.rules = 0
    BY <2>1, <2>2, SerialParts DEF Asks
  <2>4. PICK label \in {to, "off"} : GoTo(p, label)  BY <2>1 DEF Asks, Becoming
  <2> HIDE DEF to
  <2> QED  BY <1>1, <2>2, <2>3, <2>4, Alone, SerialMoves
<1>3. CASE /\ pc[p] = "rules" /\ Faulty /\ GoTo(p, "createRules")
           /\ UNCHANGED <<ledger, docker, serialized>>
  <2>1. faults' # 0  BY <1>3, InvParts DEF Faulty
  <2>2. UNCHANGED <<serialized, contended>> /\ pc[p] # "off"  BY <1>3 DEF docker
  <2>3. serialized => ~contended'  BY <2>2, SerialParts
  <2> QED  BY <1>3, <2>1, <2>2, <2>3, Alone, SerialMoves
<1> QED  BY <1>2, <1>3 DEF CheckRules, Becoming, Outside

LEMMA SerialCreateRules ==
    ASSUME SetupInv, SerialInv, NEW p \in Callers, CreateRules(p)
    PROVE  SerialInv'
<1> DEFINE ok == Connected(p) /\ ledger.vetted /\ ledger.dso \in ledger.acts[UserID]
           effect == [ledger EXCEPT !.rules = @ + 1]
<1>1. ledger \in Ledgers /\ LedgerOK /\ faults \in Nat  BY InvParts DEF LedgerOK
<1>2. effect.rules = ledger.rules + 1  BY <1>1 DEF Ledgers
<1>3. /\ pc[p] = "createRules" /\ Asks(p, "readRules")
      /\ Succeeds(ok, effect) \/ Fails(ok, effect)
  <2>1. "createRules" \in Preparing /\ Submits(p, "createRules", "readRules", ok, effect)
    BY DEF CreateRules, Preparing
  <2> HIDE DEF ok, effect
  <2> QED  BY <2>1, SubmissionsAsk DEF Submits, Request
<1>4. UNCHANGED <<serialized, contended>> /\ pc[p] # "off"  BY <1>3 DEF Asks, docker
<1>5. serialized => ~contended' /\ (faults' = 0 => ledger'.rules <= 1)
  <2> SUFFICES ASSUME serialized PROVE ~contended' /\ (faults' = 0 => ledger'.rules <= 1)
    OBVIOUS
  <2>1. ~contended'  BY <1>4, SerialParts
  <2>2. ASSUME faults' = 0  PROVE ledger'.rules <= 1
    <3>1. faults = 0 /\ (ledger' = ledger \/ (ok /\ ledger' = effect))
      BY <1>1, <1>3, <2>2 DEF Succeeds, Fails
    <3>2. CASE ledger' = ledger  BY <3>1, <3>2, SerialParts
    <3>3. CASE ok /\ ledger' = effect
      <4>1. own[p].mine = box  BY <3>3 DEF Connected
      <4> QED  BY <1>2, <1>3, <3>1, <3>3, <4>1, SerialParts
    <3> QED  BY <3>1, <3>2, <3>3
  <2> QED  BY <2>1, <2>2
<1>6. PICK label \in {"readRules", "off"} : GoTo(p, label)  BY <1>3 DEF Asks, Becoming
<1> QED  BY <1>4, <1>5, <1>6, Alone, SerialMoves

LEMMA SerialSearches ==
    ASSUME SetupInv, SerialInv, NEW p \in Callers,
           Find(p) \/ Attach(p) \/ WaitForPort(p) \/ WaitForCantonReady(p)
    PROVE  SerialInv'
<1>1. /\ pc[p] # "off" /\ UNCHANGED <<ledger, serialized, contended, box, phase>>
      /\ faults' = faults \/ faults' = faults + 1
  BY DEF Find, Attach, WaitForPort, WaitForCantonReady, Faulty, Outside, docker
<1>2. serialized => ~contended' /\ (faults' = 0 => ledger'.rules <= 1)
  BY <1>1, SerialParts
<1>3. PICK label \in {"off", "client", "port", "remove", "create", "removeAttached"} :
         GoTo(p, label) /\ (label \in {"remove", "removeAttached"} => ~Running)
  BY DEF Find, Attach, WaitForPort, WaitForCantonReady, Taken, Doomed, Exit, Becoming
<1>4. ~Running => ~Running'  BY <1>1 DEF Running
<1> QED  BY <1>1, <1>2, <1>3, <1>4, Alone, SerialMoves

LEMMA SerialContainers ==
    ASSUME SetupInv, SerialInv, NEW p \in Callers,
           Remove(p) \/ RemoveAttached(p) \/ CreateContainer(p) \/ StartContainer(p)
    PROVE  SerialInv'
<1>1. pc[p] # "off" /\ UNCHANGED serialized /\ (faults' = faults \/ faults' = faults + 1)
  BY DEF Remove, RemoveAttached, CreateContainer, StartContainer, Removes, Faulty, Outside
<1>2. PICK label \in {"off", "create", "start", "attach", "wait"} : GoTo(p, label)
  BY DEF Remove, RemoveAttached, CreateContainer, StartContainer, Exit, Becoming
<1>3. ledger' = ledger \/ ledger' = NewLedger
  BY DEF Remove, RemoveAttached, CreateContainer, StartContainer
<1>4. serialized => (faults' = 0 => ledger'.rules <= 1)
  <2>1. NewLedger.rules = 0  BY DEF NewLedger
  <2> QED  BY <1>1, <1>3, <2>1, SerialParts
<1>5. serialized => ~contended'
  <2>1. CASE Remove(p) \/ RemoveAttached(p)
    BY <2>1, SerialParts DEF Remove, RemoveAttached, Removes
  <2>2. CASE CreateContainer(p) \/ StartContainer(p)
    BY <2>2, SerialParts DEF CreateContainer, StartContainer
  <2> QED  BY <2>1, <2>2
<1> QED  BY <1>1, <1>2, <1>4, <1>5, Alone, SerialMoves

\* A step that moves no binary, removes nothing and starts no stopped container.
LEMMA SerialStays ==
    ASSUME SetupInv, SerialInv, UNCHANGED <<serialized, contended, box, pc, own>>,
           ledger'.rules = ledger.rules, faults' = 0 => faults = 0, ~Running => ~Running'
    PROVE  SerialInv'
  BY DEF SerialInv

LEMMA SerialOthers ==
    ASSUME SetupInv, SerialInv, NEW p \in Callers, Launch(p) \/ Test(p) \/ End(p)
    PROVE  SerialInv'
<1>1. UNCHANGED <<serialized, contended, box, phase>>  BY DEF Launch, Test, End, docker
<1>2. CASE Launch(p)
  <2>1. /\ GoTo(p, "find") /\ UNCHANGED <<ledger, faults>>
        /\ serialized => \A q \in Callers : pc[q] = "off"
    BY <1>2 DEF Launch
  <2>2. serialized => ~contended' /\ (faults' = 0 => ledger'.rules <= 1)
    BY <1>1, <2>1, SerialParts
  <2> QED  BY <1>1, <2>1, <2>2, SerialMoves
<1>3. CASE End(p)
  <2>1. pc[p] # "off" /\ GoTo(p, "off") /\ UNCHANGED <<ledger, faults>>
    BY <1>3 DEF End, Exit, Becoming
  <2>2. serialized => ~contended' /\ (faults' = 0 => ledger'.rules <= 1)
    BY <1>1, <2>1, SerialParts
  <2> QED  BY <1>1, <2>1, <2>2, Alone, SerialMoves
<1>4. CASE Test(p)
  <2>1. /\ AdminStep(p, Connected(p)) \/ \E operation \in Operations : StartCall(p, operation)
        /\ UNCHANGED <<pc, own>>
    BY <1>4 DEF Test
  <2>2. LedgerOK /\ AdminTypeOK /\ faults \in Nat  BY InvParts
  <2>3. ledger'.rules = ledger.rules /\ faults' \in Nat /\ faults <= faults'
    BY <2>1, <2>2, Positions, AdminKeeps
  <2>4. (faults' = 0 => faults = 0) /\ (~Running => ~Running')
    BY <1>1, <2>2, <2>3 DEF Running
  <2> QED  BY <1>1, <2>1, <2>3, <2>4, SerialStays
<1> QED  BY <1>2, <1>3, <1>4

LEMMA SerialSandbox ==
    ASSUME SetupInv, SerialInv, Boot \/ Stop \/ UNCHANGED vars
    PROVE  SerialInv'
<1>1. UNCHANGED <<serialized, contended, box, pc, own, ledger, faults>>
  BY DEF Boot, Stop, vars, docker, Outside
<1>2. ~Running => ~Running'  BY DEF Boot, Stop, vars, docker, Running
<1> QED  BY <1>1, <1>2, SerialStays

\* go test -p 1 (unit.yml:50): no binary removes a sandbox that runs, and while no
\* request fails AmuletRules are created at most once.
THEOREM SerializedSetupsDoNotContendHolds == Spec => []SerializedSetupsDoNotContend
<1>1. Init => SerialInv
  <2> SUFFICES ASSUME Init PROVE SerialInv  OBVIOUS
  <2>1. ledger.rules = 0  BY DEF Init, NewLedger
  <2> QED  BY <2>1 DEF Init, SerialInv
<1>2. SetupInv /\ SerialInv /\ [Next]_vars => SerialInv'
  <2> SUFFICES ASSUME SetupInv, SerialInv, [Next]_vars PROVE SerialInv'  OBVIOUS
  <2>1. ASSUME NEW p \in Callers, Setup(p)
        PROVE  SerialInv'
    <3>1. CASE Find(p) \/ Attach(p) \/ WaitForPort(p) \/ WaitForCantonReady(p)
      BY <3>1, SerialSearches
    <3>2. CASE Remove(p) \/ RemoveAttached(p) \/ CreateContainer(p) \/ StartContainer(p)
      BY <3>2, SerialContainers
    <3>3. CASE CheckRules(p)  BY <3>3, SerialCheckRules
    <3>4. CASE CreateRules(p)  BY <3>4, SerialCreateRules
    <3>5. ASSUME ~CheckRules(p), ~CreateRules(p),
                 ~(Find(p) \/ Attach(p) \/ WaitForPort(p) \/ WaitForCantonReady(p)),
                 ~(Remove(p) \/ RemoveAttached(p) \/ CreateContainer(p) \/ StartContainer(p))
          PROVE  SerialInv'
      <4>1. /\ ledger'.rules = ledger.rules
            /\ \E to \in (Preparing \ {"createRules"}) \cup {"ready", "off"} : Asks(p, to)
        BY <2>1, <3>5, OthersKeepRules DEF Setup
      <4> QED  BY <4>1, SerialPrepares
    <3> QED  BY <3>1, <3>2, <3>3, <3>4, <3>5
  <2>2. ASSUME NEW p \in Callers, Launch(p) \/ Test(p) \/ End(p)
        PROVE  SerialInv'
    BY <2>2, SerialOthers
  <2>3. CASE Boot \/ Stop \/ UNCHANGED vars  BY <2>3, SerialSandbox
  <2> QED  BY <2>1, <2>2, <2>3 DEF Next
<1>3. SerialInv => SerializedSetupsDoNotContend  BY DEF SerialInv, SerializedSetupsDoNotContend
<1> QED  BY <1>1, <1>2, <1>3, SetupInvHolds, PTL DEF Spec

-----------------------------------------------------------------------------
(* Answers of the ledger controller and the wallet. *)

\* What a call has to be able to tell when it answers, given the participant's ledger.
Told(state, party, left, found, l) ==
    /\ state = "allocated" => party \in l.acts[UserID]
    /\ state = "synchronizers" => found \cup left \in Pages(party)
    /\ state = "listed" => found \in Pages(party)

\* The states of a call that has had an answer.
HadAnswer == {"grantExternal", "allocated", "synchronizers", "listed"}

\* Only the process that is ready calls; it has collected accounts only in RequestAccounts;
\* and while nothing fails, a call that has had an answer has it from a sandbox that is
\* still up, and has lost none of the parties it was about.
AdminInv ==
    /\ \A p \in Callers :
          /\ pc[p] # "ready" => call[p] = "none"
          /\ call[p] \notin {"synchronizers", "listed"} => accounts[p] = {}
    /\ faults = 0 /\ stops = 0 =>
          \A p \in Callers : box # 0 /\ own[p].mine = box =>
              /\ call[p] \in HadAnswer => phase = "ready"
              /\ Told(call[p], subject[p], todo[p], accounts[p], ledger)

\* What has been told stays true while the user keeps its rights.
LEMMA ToldGrows ==
    ASSUME NEW state, NEW party, NEW left, NEW found, NEW l, NEW m,
           Told(state, party, left, found, l), l.acts[UserID] \subseteq m.acts[UserID]
    PROVE  Told(state, party, left, found, m)
  BY DEF Told, HadAnswer

\* In a step each caller stays in its call, whose sandbox keeps what it said, or does
\* something that leaves it with what it tells.
LEMMA AdminMoves ==
    ASSUME AdminInv, faults' = 0 => faults = 0, stops' = 0 => stops = 0,
           \A q \in Callers :
               \/ /\ call'[q] = call[q] /\ subject'[q] = subject[q]
                  /\ todo'[q] = todo[q] /\ accounts'[q] = accounts[q]
                  /\ call[q] # "none" =>
                        /\ pc'[q] = pc[q]
                        /\ stops' = 0 /\ box' # 0 /\ own'[q].mine = box' =>
                              /\ box # 0 /\ own[q].mine = box
                              /\ phase = "ready" => phase' = "ready"
                              /\ ledger.acts[UserID] \subseteq ledger'.acts[UserID]
               \/ /\ pc'[q] # "ready" => call'[q] = "none"
                  /\ call'[q] \notin {"synchronizers", "listed"} => accounts'[q] = {}
                  /\ faults' = 0 /\ stops' = 0 /\ box' # 0 /\ own'[q].mine = box' =>
                        /\ call'[q] \in HadAnswer
                              => phase' = "ready"
                        /\ Told(call'[q], subject'[q], todo'[q], accounts'[q], ledger')
    PROVE  AdminInv'
<1>1. ASSUME NEW q \in Callers
      PROVE  /\ pc'[q] # "ready" => call'[q] = "none"
             /\ call'[q] \notin {"synchronizers", "listed"} => accounts'[q] = {}
  BY DEF AdminInv
<1>2. ASSUME faults' = 0, stops' = 0, NEW q \in Callers, box' # 0, own'[q].mine = box'
      PROVE  /\ call'[q] \in HadAnswer => phase' = "ready"
             /\ Told(call'[q], subject'[q], todo'[q], accounts'[q], ledger')
  <2>1. CASE call'[q] = "none"  BY <2>1 DEF Told, HadAnswer
  <2>2. CASE /\ call'[q] = call[q] /\ subject'[q] = subject[q]
             /\ todo'[q] = todo[q] /\ accounts'[q] = accounts[q] /\ call[q] # "none"
             /\ box # 0 /\ own[q].mine = box /\ (phase = "ready" => phase' = "ready")
             /\ ledger.acts[UserID] \subseteq ledger'.acts[UserID]
    <3>1. /\ call[q] \in HadAnswer => phase = "ready"
          /\ Told(call[q], subject[q], todo[q], accounts[q], ledger)
      BY <1>2, <2>2 DEF AdminInv
    <3>2. Told(call[q], subject[q], todo[q], accounts[q], ledger')  BY <2>2, <3>1, ToldGrows
    <3> QED  BY <2>2, <3>1, <3>2
  <2> QED  BY <1>2, <2>1, <2>2
<1> QED  BY <1>1, <1>2 DEF AdminInv

\* The steps that make no call: the process that moves is not ready, and the sandbox of
\* another one that calls goes on or is gone.
LEMMA AdminQuiet ==
    ASSUME SetupInv, AdminInv, NEW p \in Callers, pc[p] # "ready", UNCHANGED <<adminVars, stops>>,
           faults' = faults \/ faults' = faults + 1, NEW label, NEW o, Becoming(p, label, o),
           \A q \in Callers : pc[q] = "ready" /\ box' # 0 /\ own[q].mine = box' =>
               /\ box' = box /\ (phase = "ready" => phase' = "ready")
               /\ ledger.acts[UserID] \subseteq ledger'.acts[UserID]
    PROVE  AdminInv'
<1>1. /\ faults \in Nat /\ pc \in [Callers -> Labels] /\ own \in [Callers -> Variables(boxes)]
  BY InvParts
<1>2. (faults' = 0 => faults = 0) /\ (stops' = 0 => stops = 0)  BY <1>1
<1>3. \A q \in Callers : q # p => pc'[q] = pc[q] /\ own'[q] = own[q]
  BY <1>1 DEF Becoming, GoTo
<1>4. call[p] = "none" /\ \A q \in Callers : call[q] # "none" => pc[q] = "ready" /\ q # p
  BY DEF AdminInv
<1>5. UNCHANGED <<call, subject, todo, accounts>>  BY DEF adminVars
<1>6. ASSUME NEW q \in Callers, call[q] # "none"
      PROVE  /\ pc'[q] = pc[q]
             /\ stops' = 0 /\ box' # 0 /\ own'[q].mine = box' =>
                   /\ box # 0 /\ own[q].mine = box
                   /\ phase = "ready" => phase' = "ready"
                   /\ ledger.acts[UserID] \subseteq ledger'.acts[UserID]
  BY <1>3, <1>4, <1>6
<1> QED  BY <1>2, <1>5, <1>6, AdminMoves

\* Every step of Setup with its sandbox asks, and keeps the test user's rights.
LEMMA PreparingAsks ==
    ASSUME SetupInv, NEW p \in Callers, Setup(p),
           ~(Find(p) \/ Attach(p) \/ WaitForPort(p) \/ WaitForCantonReady(p)),
           ~(Remove(p) \/ RemoveAttached(p) \/ CreateContainer(p) \/ StartContainer(p))
    PROVE  Grows(ledger, ledger') /\ \E to : Asks(p, to)
<1>1. CASE CheckRules(p)
  <2>1. Grows(ledger, ledger')  BY <1>1, CheckRulesKeeps
  <2>2. CASE \E to : Reads(p, "rules", to, Serves(p) /\ ledger.packages)
    <3>1. "rules" \in Preparing  BY DEF Preparing
    <3> QED  BY <2>1, <2>2, <3>1, SubmissionsAsk
  <2>3. CASE /\ pc[p] = "rules" /\ Faulty /\ Becoming(p, "createRules", own[p])
             /\ UNCHANGED <<ledger, docker, Outside>>
    <3>1. Asks(p, "createRules")  BY <2>3 DEF Asks, Faulty, Outside, Preparing
    <3> QED  BY <2>1, <3>1
  <2> QED  BY <1>1, <2>2, <2>3 DEF CheckRules
<1>2. CASE CreateRules(p)
  <2>1. Grows(ledger, ledger')  BY <1>2, CreateRulesKeeps
  <2>2. "createRules" \in Preparing /\ \E ok, effect : Submits(p, "createRules", "readRules", ok, effect)
    BY <1>2 DEF CreateRules, Preparing
  <2> QED  BY <2>1, <2>2, SubmissionsAsk
<1>3. ASSUME \/ ListUsers(p) \/ AwaitSynchronizer(p) \/ AllocateTestParty(p) \/ CreateTestUser(p)
             \/ GetSynchronizer(p) \/ UploadDarFiles(p) \/ VetPackages(p) \/ ListDso(p)
             \/ AllocateDso(p) \/ GrantDsoRights(p) \/ ReadRuleId(p)
             \/ CreateExternalRules(p) \/ BootstrapRounds(p) \/ ReadRoundId(p)
      PROVE  Grows(ledger, ledger') /\ \E to : Asks(p, to)
  <2>1. CASE ListUsers(p) \/ AwaitSynchronizer(p) \/ AllocateTestParty(p) \/ CreateTestUser(p)
    BY <1>3, <2>1, OthersKeepRules, ListUsersKeeps, AwaitSynchronizerKeeps, AllocateTestPartyKeeps,
       CreateTestUserKeeps
  <2>2. CASE GetSynchronizer(p) \/ UploadDarFiles(p) \/ VetPackages(p) \/ ListDso(p)
    BY <1>3, <2>2, OthersKeepRules, GetSynchronizerKeeps, UploadDarFilesKeeps, VetPackagesKeeps,
       ListDsoKeeps
  <2>3. CASE AllocateDso(p) \/ GrantDsoRights(p) \/ ReadRuleId(p)
    BY <1>3, <2>3, OthersKeepRules, AllocateDsoKeeps, GrantDsoRightsKeeps, ReadRuleIdKeeps
  <2>4. CASE CreateExternalRules(p) \/ BootstrapRounds(p) \/ ReadRoundId(p)
    BY <1>3, <2>4, OthersKeepRules, CreateExternalRulesKeeps, BootstrapRoundsKeeps, ReadRoundIdKeeps
  <2> QED  BY <1>3, <2>1, <2>2, <2>3, <2>4
<1> QED  BY <1>1, <1>2, <1>3 DEF Setup

LEMMA AdminSetup ==
    ASSUME SetupInv, AdminInv, NEW p \in Callers, Setup(p)
    PROVE  AdminInv'
<1>1. CASE Find(p) \/ Attach(p) \/ WaitForPort(p) \/ WaitForCantonReady(p)
  <2>1. /\ pc[p] # "ready" /\ UNCHANGED <<adminVars, stops, ledger, box, phase>>
        /\ faults' = faults \/ faults' = faults + 1
        /\ \E label, o : Becoming(p, label, o)
    BY <1>1 DEF Find, Attach, WaitForPort, WaitForCantonReady, Taken, Doomed, Exit, Faulty,
                Outside, docker
  <2> QED  BY <2>1, AdminQuiet
<1>2. CASE Remove(p) \/ RemoveAttached(p)
  <2>1. /\ pc[p] # "ready" /\ UNCHANGED <<adminVars, stops, ledger>>
        /\ faults' = faults \/ faults' = faults + 1
        /\ \E label, o : Becoming(p, label, o)
        /\ box' # 0 => box' = box /\ phase' = phase
    BY <1>2 DEF Remove, RemoveAttached, Removes, Exit, Faulty, Outside
  <2> QED  BY <2>1, AdminQuiet
<1>3. CASE CreateContainer(p)
  <2>1. /\ pc[p] # "ready" /\ UNCHANGED <<adminVars, stops>>
        /\ faults' = faults \/ faults' = faults + 1
        /\ \E label, o : Becoming(p, label, o)
    BY <1>3 DEF CreateContainer, Exit, Faulty, Outside
  <2>2. box' = boxes + 1 \/ (ledger' = ledger /\ box' = box /\ phase' = phase)
    BY <1>3 DEF CreateContainer
  <2>3. \A q \in Callers : own[q].mine \in 0..boxes /\ boxes \in Nat  BY InvParts, VariablesFields
  <2> QED  BY <2>1, <2>2, <2>3, AdminQuiet
<1>4. CASE StartContainer(p)
  <2>1. /\ pc[p] = "start" /\ UNCHANGED <<adminVars, stops, ledger, box>>
        /\ faults' = faults \/ faults' = faults + 1
        /\ \E label, o : Becoming(p, label, o)
        /\ phase' = phase \/ box = own[p].mine
    BY <1>4 DEF StartContainer, Exit, Faulty, Outside
  <2>2. phase = "ready" => phase' = "ready"  BY <2>1 DEF SetupInv, ContainersInOrder
  <2> QED  BY <2>1, <2>2, AdminQuiet
<1>5. CASE /\ ~(Find(p) \/ Attach(p) \/ WaitForPort(p) \/ WaitForCantonReady(p))
           /\ ~(Remove(p) \/ RemoveAttached(p) \/ CreateContainer(p) \/ StartContainer(p))
  <2>1. Grows(ledger, ledger') /\ \E to : Asks(p, to)  BY <1>5, PreparingAsks
  <2>2. /\ pc[p] # "ready" /\ UNCHANGED <<adminVars, docker>>
        /\ faults' = faults \/ faults' = faults + 1
        /\ \E label, o : Becoming(p, label, o)
    BY <2>1 DEF Asks, Preparing
  <2>3. UNCHANGED <<stops, box, phase>> /\ ledger.acts[UserID] \subseteq ledger'.acts[UserID]
    BY <2>1, <2>2 DEF docker, Grows
  <2> QED  BY <2>2, <2>3, AdminQuiet
<1> QED  BY <1>1, <1>2, <1>3, <1>4, <1>5

\* A step of a call: the caller's own variables change, and what it can tell follows
\* from them if nothing failed.
LEMMA AdminCalls ==
    ASSUME SetupInv, AdminInv, NEW p \in Callers, pc[p] = "ready",
           UNCHANGED <<docker, pc, own>>, Grows(ledger, ledger'), faults' \in Nat, faults <= faults',
           \A q \in Callers \ {p} :
               /\ call'[q] = call[q] /\ subject'[q] = subject[q]
               /\ todo'[q] = todo[q] /\ accounts'[q] = accounts[q],
           call'[p] \notin {"synchronizers", "listed"} => accounts'[p] = {},
           faults' = 0 /\ stops = 0 /\ box # 0 /\ own[p].mine = box =>
               /\ call'[p] \in HadAnswer => phase = "ready"
               /\ Told(call'[p], subject'[p], todo'[p], accounts'[p], ledger')
    PROVE  AdminInv'
<1>1. UNCHANGED <<box, phase, stops>> /\ pc' = pc /\ own' = own  BY DEF docker
<1>2. faults \in Nat /\ ledger.acts[UserID] \subseteq ledger'.acts[UserID]  BY InvParts DEF Grows
<1>3. (faults' = 0 => faults = 0) /\ (stops' = 0 => stops = 0)  BY <1>1, <1>2
<1> QED  BY <1>1, <1>2, <1>3, AdminMoves

LEMMA AdminTest ==
    ASSUME SetupInv, AdminInv, NEW p \in Callers, Test(p)
    PROVE  AdminInv'
<1> DEFINE Quiet(q) == /\ call'[q] = call[q] /\ subject'[q] = subject[q]
                       /\ todo'[q] = todo[q] /\ accounts'[q] = accounts[q]
           others == \A q \in Callers \ {p} : Quiet(q)
           served == Connected(p)
           found == call'[p] \notin {"synchronizers", "listed"} => accounts'[p] = {}
           tells == faults' = 0 /\ stops = 0 /\ box # 0 /\ own[p].mine = box =>
               /\ call'[p] \in HadAnswer => phase = "ready"
               /\ Told(call'[p], subject'[p], todo'[p], accounts'[p], ledger')
<1>1. /\ pc[p] = "ready" /\ UNCHANGED <<docker, pc, own>>
      /\ AdminStep(p, served) \/ \E operation \in Operations : StartCall(p, operation)
  BY DEF Test
<1>2. /\ LedgerOK /\ AdminTypeOK /\ faults \in Nat /\ served \in BOOLEAN
      /\ own[p].mine = box /\ phase = "ready" => served
      /\ served => phase = "ready"
  BY InvParts, Positions DEF Connected
<1>3. /\ call \in [Callers -> CallStates] /\ subject \in [Callers -> Nat]
      /\ todo \in [Callers -> SUBSET Nat] /\ accounts \in [Callers -> SUBSET Nat]
  BY <1>2 DEF AdminTypeOK
<1>4. Grows(ledger, ledger') /\ faults' \in Nat /\ faults <= faults'
  BY <1>1, <1>2, AdminKeeps
<1>5. /\ call[p] \notin {"synchronizers", "listed"} => accounts[p] = {}
      /\ faults = 0 /\ stops = 0 /\ box # 0 /\ own[p].mine = box =>
            /\ call[p] \in HadAnswer => phase = "ready"
            /\ Told(call[p], subject[p], todo[p], accounts[p], ledger)
  BY DEF AdminInv
<1>6. ASSUME NEW effect
      PROVE  served /\ faults' = 0 /\ (Succeeds(served, effect) \/ Fails(served, effect))
               => faults = 0 /\ ledger' = effect /\ Succeeds(served, effect)
  BY <1>2 DEF Succeeds, Fails
<1>7. SUFFICES others /\ found /\ tells
  BY <1>1, <1>4, AdminCalls
<1> HIDE DEF served
<1>8. CASE AllocateInternalParty(p, served) \/ GrantRights(p, served) \/ GrantMasterUserRights(p, served)
           \/ CreateUser(p, served)
  <2>1. /\ UNCHANGED <<todo, accounts>> /\ \A q \in Callers \ {p} : subject'[q] = subject[q]
        /\ call[p] \notin {"synchronizers", "listed"}
        /\ \E state \in {"done", "failed"} : Becomes(p, state)
    BY <1>3, <1>8 DEF AllocateInternalParty, GrantRights, GrantMasterUserRights, CreateUser
  <2>2. call'[p] \in {"done", "failed"} /\ \A q \in Callers \ {p} : call'[q] = call[q]
    BY <1>3, <2>1 DEF Becomes
  <2> QED  BY <1>5, <2>1, <2>2 DEF Told, HadAnswer
<1>9. CASE AllocateExternalParty(p, served)
  <2>1. /\ UNCHANGED <<todo, accounts>> /\ \A q \in Callers \ {p} : subject'[q] = subject[q]
        /\ call[p] = "external"
        /\ Becomes(p, "failed") \/ (served /\ \E state \in {"grantExternal", "done"} : Becomes(p, state))
    BY <1>3, <1>9 DEF AllocateExternalParty, Succeeds
  <2>2. /\ call'[p] \in {"failed", "done"} \/ (served /\ call'[p] = "grantExternal")
        /\ \A q \in Callers \ {p} : call'[q] = call[q]
    BY <1>3, <2>1 DEF Becomes
  <2> QED  BY <1>2, <1>5, <2>1, <2>2 DEF Told, HadAnswer
<1>10. CASE GrantExternal(p, served)
  <2> DEFINE granted == Granting(UserID, {subject[p]})
  <2>1. /\ UNCHANGED <<subject, todo, accounts>> /\ call[p] = "grantExternal" /\ Becomes(p, "allocated")
        /\ Succeeds(served, granted) \/ Fails(served, granted)
    BY <1>10 DEF GrantExternal
  <2>2. call'[p] = "allocated" /\ \A q \in Callers \ {p} : call'[q] = call[q]
    BY <1>3, <2>1 DEF Becomes
  <2>3. subject[p] \in granted.acts[UserID]
    BY <1>2, UsersAssumption DEF Granting, Ledgers, LedgerOK
  <2> HIDE DEF granted
  <2>4. ASSUME faults' = 0, stops = 0, box # 0, own[p].mine = box
        PROVE  phase = "ready" /\ subject[p] \in ledger'.acts[UserID]
    <3>1. faults = 0  BY <1>2, <1>4, <2>4
    <3>2. phase = "ready" /\ served  BY <1>2, <1>5, <2>1, <2>4, <3>1 DEF HadAnswer
    <3>3. ledger' = granted  BY <1>6, <2>1, <2>4, <3>2
    <3> QED  BY <2>3, <3>2, <3>3
  <2> QED  BY <1>5, <2>1, <2>2, <2>4 DEF Told, HadAnswer
<1>11. CASE ListWallets(p, served)
  <2>1. CASE /\ served /\ Becomes(p, "synchronizers") /\ UNCHANGED accounts /\ call[p] = "wallets"
             /\ \E page \in Pages(ledger.allocated) : todo' = [todo EXCEPT ![p] = page]
             /\ subject' = [subject EXCEPT ![p] = ledger.allocated]
    <3>1. /\ call'[p] = "synchronizers" /\ todo'[p] \in Pages(subject'[p]) /\ accounts'[p] = {}
          /\ others
      BY <1>3, <1>5, <2>1 DEF Becomes
    <3> QED  BY <1>2, <2>1, <3>1 DEF Told, HadAnswer
  <2>2. CASE Becomes(p, "failed") /\ UNCHANGED <<todo, subject, accounts>> /\ call[p] = "wallets"
    <3>1. call'[p] = "failed" /\ accounts'[p] = {} /\ others  BY <1>3, <1>5, <2>2 DEF Becomes
    <3> QED  BY <3>1 DEF Told, HadAnswer
  <2> QED  BY <1>11, <2>1, <2>2 DEF ListWallets, Succeeds
<1>12. CASE ListSynchronizers(p, served)
  <2>1. PICK x \in todo[p] :
          /\ todo' = [todo EXCEPT ![p] = @ \ {x}] /\ UNCHANGED <<call, subject>>
          /\ \/ Succeeds(served, ledger) /\ accounts' = [accounts EXCEPT ![p] = @ \cup {x}]
             \/ Fails(served, ledger) /\ UNCHANGED accounts
    BY <1>12 DEF ListSynchronizers
  <2>2. call[p] = "synchronizers"  BY <1>12 DEF ListSynchronizers
  <2>3. others  BY <1>3, <2>1
  <2>4. todo'[p] = todo[p] \ {x} /\ call'[p] = "synchronizers" /\ subject'[p] = subject[p]
    BY <1>3, <2>1, <2>2
  <2>5. ASSUME faults' = 0, stops = 0, box # 0, own[p].mine = box
        PROVE  phase = "ready" /\ accounts'[p] \cup todo'[p] \in Pages(subject[p])
    <3>1. faults = 0  BY <1>2, <1>4, <2>5
    <3>2. phase = "ready" /\ served /\ accounts[p] \cup todo[p] \in Pages(subject[p])
      BY <1>2, <1>5, <2>2, <2>5, <3>1 DEF Told, HadAnswer
    <3>3. accounts'[p] = accounts[p] \cup {x}
      <4>1. ~Fails(served, ledger)  BY <1>2, <2>5, <3>1, <3>2 DEF Fails
      <4> QED  BY <1>3, <2>1, <4>1
    <3>4. accounts'[p] \cup todo'[p] = accounts[p] \cup todo[p]  BY <2>1, <2>4, <3>3
    <3> QED  BY <3>2, <3>4
  <2> QED  BY <2>3, <2>4, <2>5 DEF Told, HadAnswer
<1>13. CASE ReturnAccounts(p)
  <2>1. /\ call[p] = "synchronizers" /\ todo[p] = {} /\ Becomes(p, "listed")
        /\ UNCHANGED <<ledger, faults, subject, todo, accounts>>
    BY <1>13 DEF ReturnAccounts
  <2>2. call'[p] = "listed" /\ others  BY <1>3, <2>1 DEF Becomes
  <2> QED  BY <1>5, <2>1, <2>2 DEF Told, HadAnswer
<1>14. CASE \E operation \in Operations : StartCall(p, operation)
  <2>1. PICK operation \in Operations : StartCall(p, operation)  BY <1>14
  <2>2. /\ call[p] = "none" /\ Becomes(p, operation)
        /\ UNCHANGED <<ledger, faults, subject, todo, accounts>>
    BY <2>1 DEF StartCall
  <2>3. call'[p] = operation /\ others  BY <1>3, <2>2 DEF Becomes
  <2>4. operation \notin HadAnswer
    BY DEF Operations, HadAnswer
  <2> QED  BY <1>5, <2>2, <2>3, <2>4 DEF Told, HadAnswer
<1> QED  BY <1>1, <1>8, <1>9, <1>10, <1>11, <1>12, <1>13, <1>14 DEF AdminStep

LEMMA AdminOthers ==
    ASSUME SetupInv, AdminInv, NEW p \in Callers, Launch(p) \/ End(p)
    PROVE  AdminInv'
<1>1. pc \in [Callers -> Labels] /\ own \in [Callers -> Variables(boxes)] /\ AdminTypeOK
  BY InvParts
<1>2. CASE Launch(p)
  <2>1. /\ pc[p] = "off" /\ UNCHANGED <<ledger, faults, docker, adminVars, own>> /\ GoTo(p, "find")
    BY <1>2 DEF Launch
  <2>2. Becoming(p, "find", own[p])
    <3>1. own' = [own EXCEPT ![p] = own[p]]  BY <1>1, <2>1
    <3> QED  BY <2>1, <3>1 DEF Becoming
  <2> QED  BY <2>1, <2>2, AdminQuiet DEF docker
<1>3. CASE End(p)
  <2>1. /\ UNCHANGED <<ledger, faults, box, phase, stops>> /\ Becoming(p, "off", Blank) /\ Forget(p)
    BY <1>3 DEF End, Exit, docker
  <2>2. \A q \in Callers : q # p => pc'[q] = pc[q] /\ own'[q] = own[q]
    BY <1>1, <2>1 DEF Becoming, GoTo
  <2>3. /\ call'[p] = "none" /\ accounts'[p] = {}
        /\ \A q \in Callers : q # p => /\ call'[q] = call[q] /\ subject'[q] = subject[q]
                                      /\ todo'[q] = todo[q] /\ accounts'[q] = accounts[q]
    BY <1>1, <2>1 DEF AdminTypeOK, Forget, Becomes
  <2>4. Told(call'[p], subject'[p], todo'[p], accounts'[p], ledger')  BY <2>3 DEF Told, HadAnswer
  <2> QED  BY <2>1, <2>2, <2>3, <2>4, AdminMoves DEF HadAnswer
<1> QED  BY <1>2, <1>3

LEMMA AdminSandbox ==
    ASSUME SetupInv, AdminInv, Boot \/ Stop \/ UNCHANGED vars
    PROVE  AdminInv'
<1>1. UNCHANGED <<ledger, faults, call, subject, todo, accounts, box, pc, own>>
  BY DEF Boot, Stop, vars, docker, adminVars, Outside
<1>2. stops \in Nat  BY InvParts
<1>3. (stops' = 0 => stops = 0) /\ (stops' = 0 /\ phase = "ready" => phase' = "ready")
  BY <1>2 DEF Boot, Stop, vars, docker, Outside
<1> QED  BY <1>1, <1>3, AdminMoves

\* While the sandbox stays up and no request fails, AllocateExternalParty with
\* grantUserRights (ledger.go) reports only parties the user can act as, and
\* RequestAccounts (dapp/client.go) one page of the parties that were known when it asked,
\* all of them if they fit on it, whatever the other test binaries do.
THEOREM AdminAnswersAreTrueHolds == Spec => []AdminAnswersAreTrue
<1>1. Init => AdminInv
  <2> SUFFICES ASSUME Init PROVE AdminInv  OBVIOUS
  <2>1. \A p \in Callers : call[p] = "none" /\ accounts[p] = {}  BY DEF Init, AdminInit
  <2> QED  BY <2>1 DEF AdminInv, Told, HadAnswer
<1>2. SetupInv /\ AdminInv /\ [Next]_vars => AdminInv'
  <2> SUFFICES ASSUME SetupInv, AdminInv, [Next]_vars PROVE AdminInv'  OBVIOUS
  <2>1. ASSUME NEW p \in Callers, Launch(p) \/ Setup(p) \/ Test(p) \/ End(p)
        PROVE  AdminInv'
    BY <2>1, AdminOthers, AdminSetup, AdminTest
  <2>2. CASE Boot \/ Stop \/ UNCHANGED vars  BY <2>2, AdminSandbox
  <2> QED  BY <2>1, <2>2 DEF Next
<1>3. SetupInv /\ AdminInv => AdminAnswersAreTrue
  <2> SUFFICES ASSUME SetupInv, AdminInv, faults = 0, stops = 0, NEW p \in Callers, Connected(p)
               PROVE  /\ call[p] = "allocated" => subject[p] \in ledger.acts[UserID]
                      /\ call[p] = "listed" => accounts[p] \in Pages(subject[p])
    BY DEF AdminAnswersAreTrue
  <2>1. box # 0 /\ own[p].mine = box  BY DEF Connected, SetupInv, ContainersInOrder
  <2> QED  BY <2>1 DEF AdminInv, Told, HadAnswer
<1> QED  BY <1>1, <1>2, <1>3, SetupInvHolds, PTL DEF Spec
=============================================================================
