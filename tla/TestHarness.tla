------------------------------- MODULE TestHarness -------------------------------
(***************************************************************************)
(* pkg/testutil/testutil.go: each test binary's Setup finds or starts one  *)
(* Canton sandbox, which all binaries share by its container name, and     *)
(* prepares it step by step.  A binary can fail, end or be killed between  *)
(* any two of its requests to Docker and to the participant; the sandbox   *)
(* stays.  Between Setup and its end it makes a call of PartyAdmin.        *)
(***************************************************************************)
EXTENDS PartyAdmin

CONSTANTS
    MaxLaunches,    \* bound on the test binaries started
    MaxStops        \* bound on sandboxes that stop

ASSUME BoundsAssumption == MaxLaunches \in Nat /\ MaxStops \in Nat

VARIABLES
    serialized,     \* go test -p 1 (unit.yml) or go test (Makefile)
    box,            \* the container that has the name, 0 if none has
    boxes,          \* the containers created so far
    phase,          \* of the container
    pc,             \* each binary's position in Setup
    own,            \* its package variables
    launches, stops,
    contended       \* a running container was removed

docker == <<box, boxes, phase, stops, contended>>
vars == <<ledger, faults, adminVars, serialized, docker, pc, own, launches>>

Starting == {"find", "remove", "port", "create", "start", "attach", "removeAttached", "wait"}
Preparing == {"client", "await", "allocate", "createUser", "sync", "upload", "vet", "listDso",
              "allocDso", "grant", "rules", "createRules", "readRules", "ext", "boot", "readRound"}
Labels == {"off", "ready"} \cup Starting \cup Preparing

\* resDaml, a container to remove, testPartyID, and whether amuletRulesContractID and
\* openMiningRoundContractID are set.
Blank == [mine |-> 0, doomed |-> 0, party |-> NoParty, rule |-> FALSE, round |-> FALSE]

Init ==
    /\ ledger = NewLedger
    /\ faults = 0
    /\ AdminInit
    /\ serialized \in BOOLEAN
    /\ box = 0 /\ boxes = 0 /\ phase = "none"
    /\ pc = [p \in Callers |-> "off"]
    /\ own = [p \in Callers |-> Blank]
    /\ launches = 0 /\ stops = 0
    /\ contended = FALSE

GoTo(p, label) == pc' = [pc EXCEPT ![p] = label]
Becoming(p, label, variables) == GoTo(p, label) /\ own' = [own EXCEPT ![p] = variables]

\* log.Fatal, or TestMain's os.Exit on setupErr.
Exit(p) == Becoming(p, "off", Blank)

Running == phase \in {"starting", "listening", "ready"}
Serves(p) == box = own[p].mine /\ phase \in {"listening", "ready"}
Connected(p) == box = own[p].mine /\ phase = "ready"

Faulty == faults < MaxFaults /\ faults' = faults + 1

\* A test binary starts and TestMain calls Setup, once per process; go test -p 1 waits
\* for the one before.
Launch(p) ==
    /\ pc[p] = "off"
    /\ launches < MaxLaunches
    /\ serialized => \A q \in Callers : pc[q] = "off"
    /\ launches' = launches + 1
    /\ GoTo(p, "find")
    /\ UNCHANGED <<ledger, faults, adminVars, serialized, docker, own>>

-----------------------------------------------------------------------------
\* initDamlSandbox.  What all of its steps leave alone:
Outside == <<adminVars, serialized, launches, stops>>

\* findExistingContainer: a container that runs, or one to remove.
Taken(p, label) == Running /\ Becoming(p, label, [own[p] EXCEPT !.mine = box])
Doomed(p, label) == box # 0 /\ ~Running /\ Becoming(p, label, [own[p] EXCEPT !.doomed = box])

\* The first search: none, and an error of the listing, lead to a new container.
Find(p) ==
    /\ pc[p] = "find"
    /\ \/ Taken(p, "port") /\ UNCHANGED faults
       \/ Doomed(p, "remove") /\ UNCHANGED faults
       \/ box = 0 /\ Becoming(p, "create", own[p]) /\ UNCHANGED faults
       \/ Faulty /\ Becoming(p, "create", own[p])
    /\ UNCHANGED <<ledger, docker, Outside>>

\* RemoveContainer with Force takes the container it was found as, running by now or
\* not; its error is only logged.
Removes(p) ==
    \/ /\ box = own[p].doomed
       /\ box' = 0 /\ phase' = "none"
       /\ contended' = (contended \/ Running)
       /\ UNCHANGED faults
    \/ box # own[p].doomed /\ UNCHANGED <<box, phase, contended, faults>>
    \/ Faulty /\ UNCHANGED <<box, phase, contended>>

Remove(p) ==
    /\ pc[p] = "remove"
    /\ Removes(p)
    /\ Becoming(p, "create", [own[p] EXCEPT !.doomed = 0])
    /\ UNCHANGED <<ledger, boxes, Outside>>

\* Mutant: the wait has no deadline.
WaitForPortForEver(p) ==
    /\ pc[p] = "port"
    /\ Serves(p) /\ Becoming(p, "client", own[p])
    /\ UNCHANGED <<ledger, faults, docker, Outside>>

\* waitForPort for a found container: a port, or after 30 s a new container.
WaitForPort(p) ==
    /\ pc[p] = "port"
    /\ \/ Serves(p) /\ Becoming(p, "client", own[p])
       \/ ~Serves(p) /\ Becoming(p, "create", Blank)
    /\ UNCHANGED <<ledger, faults, docker, Outside>>

\* RunWithOptions, first request: the name is free, or in use and Setup attaches.
CreateContainer(p) ==
    /\ pc[p] = "create"
    /\ \/ /\ box = 0
          /\ boxes' = boxes + 1 /\ box' = boxes' /\ phase' = "created"
          /\ ledger' = NewLedger
          /\ Becoming(p, "start", [own[p] EXCEPT !.mine = boxes'])
          /\ UNCHANGED faults
       \/ /\ box # 0
          /\ Becoming(p, "attach", own[p])
          /\ UNCHANGED <<ledger, faults, box, boxes, phase>>
       \/ Faulty /\ Exit(p) /\ UNCHANGED <<ledger, box, boxes, phase>>
    /\ UNCHANGED <<contended, Outside>>

\* RunWithOptions, second request: the new container is started, if it is still there.
StartContainer(p) ==
    /\ pc[p] = "start"
    /\ \/ /\ box = own[p].mine
          /\ phase' = "starting"
          /\ Becoming(p, "wait", own[p])
          /\ UNCHANGED faults
       \/ box # own[p].mine /\ Exit(p) /\ UNCHANGED <<phase, faults>>
       \/ Faulty /\ Exit(p) /\ UNCHANGED phase
    /\ UNCHANGED <<ledger, box, boxes, contended, Outside>>

\* The name was in use: a second search.  A running container is used without waiting
\* for it; otherwise log.Fatal, after a removal if there is one.
Attach(p) ==
    /\ pc[p] = "attach"
    /\ \/ Taken(p, "client") /\ UNCHANGED faults
       \/ Doomed(p, "removeAttached") /\ UNCHANGED faults
       \/ box = 0 /\ Exit(p) /\ UNCHANGED faults
       \/ Faulty /\ Exit(p)
    /\ UNCHANGED <<ledger, docker, Outside>>

RemoveAttached(p) ==
    /\ pc[p] = "removeAttached"
    /\ Removes(p)
    /\ Exit(p)
    /\ UNCHANGED <<ledger, boxes, Outside>>

\* The ports and the log line of the new container, or a deadline and log.Fatal.
WaitForCantonReady(p) ==
    /\ pc[p] = "wait"
    /\ \/ Serves(p) /\ Becoming(p, "client", own[p])
       \/ ~Connected(p) /\ Exit(p)
    /\ UNCHANGED <<ledger, faults, docker, Outside>>

-----------------------------------------------------------------------------
\* One request of Setup, and where its answer leads and leaves the variables; an error
\* is setupErr, with which TestMain ends the process.
Request(p, from, to, ok, effect, variables) ==
    /\ pc[p] = from
    /\ \/ Succeeds(ok, effect) /\ Becoming(p, to, variables)
       \/ Fails(ok, effect) /\ Exit(p)
    /\ UNCHANGED <<docker, Outside>>

Submits(p, from, to, ok, effect) == Request(p, from, to, ok, effect, own[p])
Reads(p, from, to, ok) == Submits(p, from, to, ok, ledger)

\* Reads a stream of updates for two seconds; an error is only logged.
ReadsUpdates(p, from, found, missed) ==
    /\ pc[p] = from
    /\ (Serves(p) /\ found) \/ missed
    /\ UNCHANGED <<ledger, faults, docker, Outside>>

\* ListUsers: the test user is there with its primary party, or has to be created.
ListUsers(p) ==
    LET primary == ledger.primary[UserID] IN
    IF primary # NoParty
    THEN Request(p, "client", "sync", Serves(p), ledger, [own[p] EXCEPT !.party = primary])
    ELSE Reads(p, "client", "await", Serves(p))

\* waitForSynchronizerConnection: a synchronizer, or two minutes.
AwaitSynchronizer(p) == Reads(p, "await", "allocate", Connected(p))

AllocateTestParty(p) ==
    Request(p, "allocate", "createUser", Connected(p), Allocating,
            [own[p] EXCEPT !.party = ledger.allocated + 1])

\* Mutant: a user another Setup has created meanwhile is taken for this one's.
CreateOrKeepTestUser(p) ==
    Submits(p, "createUser", "sync", Serves(p),
            IF ledger.primary[UserID] = NoParty THEN Creating(UserID, own[p].party) ELSE ledger)

\* CreateUser refuses a user another Setup has created meanwhile.
CreateTestUser(p) ==
    Submits(p, "createUser", "sync", Serves(p) /\ ledger.primary[UserID] = NoParty,
            Creating(UserID, own[p].party))

\* GetConnectedSynchronizers, then the three controllers are built and given the test
\* party and the synchronizer: fails while there is no synchronizer.
GetSynchronizer(p) == Reads(p, "sync", "upload", Connected(p))

\* uploadDarFiles: nothing to upload without .dar files; otherwise each is uploaded and
\* validated.
UploadDarFiles(p) ==
    \/ Reads(p, "upload", "vet", TRUE)
    \/ Submits(p, "upload", "vet", Connected(p), [ledger EXCEPT !.packages = TRUE])

\* ensurePackagesVetted: splice-amulet has to be known; it is vetted unless it is.
VetPackages(p) ==
    Submits(p, "vet", "listDso", Connected(p) /\ ledger.packages, [ledger EXCEPT !.vetted = TRUE])

\* ListKnownParties, one page: a dso party is on it, or has to be allocated.
ListDso(p) ==
    \E page \in Pages(ledger.allocated) :
        Reads(p, "listDso", IF ledger.dso \in page THEN "grant" ELSE "allocDso", Serves(p))

\* AllocateParty refuses the hint "dso" if it is in use: another Setup used it meanwhile,
\* or the page did not show it.
AllocateDso(p) ==
    Submits(p, "allocDso", "grant", Connected(p) /\ ledger.dso = NoParty,
            [Allocating EXCEPT !.dso = ledger.allocated + 1])

GrantDsoRights(p) ==
    Submits(p, "grant", "rules", Serves(p), Granting(UserID, {ledger.dso}))

\* Mutant: AmuletRules are created without looking.
AlwaysCreateRules(p) == Reads(p, "rules", "createRules", Serves(p) /\ ledger.packages)

\* initializeAmuletRules, its two queries: with AmuletRules there Setup is done and the
\* contract ids stay unset; an error of the second query is taken for none.
CheckRules(p) ==
    \/ Reads(p, "rules", IF ledger.rules > 0 THEN "ready" ELSE "createRules",
             Serves(p) /\ ledger.packages)
    \/ /\ pc[p] = "rules"
       /\ Faulty
       /\ Becoming(p, "createRules", own[p])
       /\ UNCHANGED <<ledger, docker, Outside>>

\* The AmuletRules contract is created as the dso party.
CreateRules(p) ==
    Submits(p, "createRules", "readRules",
            Connected(p) /\ ledger.vetted /\ ledger.dso \in ledger.acts[UserID],
            [ledger EXCEPT !.rules = @ + 1])

\* The new contract's id; without it Setup goes on.
ReadRuleId(p) ==
    ReadsUpdates(p, "readRules", Becoming(p, "ext", [own[p] EXCEPT !.rule = TRUE]),
                 Becoming(p, "ext", own[p]))

\* ExternalPartyAmuletRules, and queries whose results are only logged.
CreateExternalRules(p) == Reads(p, "ext", "boot", Connected(p))

\* AmuletRules_Bootstrap_Rounds on the contract id: refused if the id is not set.
BootstrapRounds(p) ==
    Submits(p, "boot", "readRound", Connected(p) /\ own[p].rule, [ledger EXCEPT !.rounds = TRUE])

\* The OpenMiningRound's id: without it Setup fails.
ReadRoundId(p) ==
    ReadsUpdates(p, "readRound", Becoming(p, "ready", [own[p] EXCEPT !.round = TRUE]), Exit(p))

Setup(p) ==
    \/ Find(p) \/ Remove(p) \/ WaitForPort(p) \/ CreateContainer(p) \/ StartContainer(p)
    \/ Attach(p) \/ RemoveAttached(p) \/ WaitForCantonReady(p)
    \/ ListUsers(p) \/ AwaitSynchronizer(p) \/ AllocateTestParty(p) \/ CreateTestUser(p)
    \/ GetSynchronizer(p) \/ UploadDarFiles(p) \/ VetPackages(p) \/ ListDso(p) \/ AllocateDso(p)
    \/ GrantDsoRights(p) \/ CheckRules(p) \/ CreateRules(p) \/ ReadRuleId(p)
    \/ CreateExternalRules(p) \/ BootstrapRounds(p) \/ ReadRoundId(p)

-----------------------------------------------------------------------------
\* The tests run: calls of the ledger controller Setup has built.
Test(p) ==
    /\ pc[p] = "ready"
    /\ \/ AdminStep(p, Connected(p))
       \/ \E operation \in Operations : StartCall(p, operation)
    /\ UNCHANGED <<serialized, docker, launches, pc, own>>

\* The process ends: Teardown keeps the container, a panic, a signal or the test
\* timeout anywhere.
End(p) ==
    /\ pc[p] # "off"
    /\ Exit(p)
    /\ Forget(p)
    /\ UNCHANGED <<ledger, faults, serialized, docker, launches>>

\* The sandbox opens its port, then starts its nodes and connects.
Boot ==
    /\ \/ phase = "starting" /\ phase' = "listening"
       \/ phase = "listening" /\ phase' = "ready"
    /\ UNCHANGED <<ledger, faults, box, boxes, contended, pc, own, Outside>>

\* The sandbox stops: Expire's 600 s, a failure, docker stop.
Stop ==
    /\ Running
    /\ stops < MaxStops
    /\ stops' = stops + 1
    /\ phase' = "stopped"
    /\ UNCHANGED <<ledger, faults, adminVars, serialized, box, boxes, contended, pc, own, launches>>

Next ==
    \/ \E p \in Callers : Launch(p) \/ Setup(p) \/ Test(p) \/ End(p)
    \/ Boot \/ Stop

Spec == Init /\ [][Next]_vars

\* Where Setup waits with a deadline of its own, or makes requests under its ctx of seven
\* minutes.  The requests to Docker ("find" to "removeAttached", the log of "wait") take no
\* ctx, and Build ("client", "sync") gets context.Background(): they may hang for ever.
WaitingForPort == {"port"}
CreatingUser == {"await", "allocate", "createUser"}
Populating == Preparing \ ({"client", "sync"} \cup CreatingUser)

TimedSetup(p) ==
    /\ pc[p] \in WaitingForPort \cup CreatingUser \cup Populating
    /\ Setup(p)

\* A process that is in Setup runs.
FairSpec == Spec /\ \A p \in Callers : WF_vars(TimedSetup(p))
-----------------------------------------------------------------------------
Past(label, labels) == label \in (Preparing \cup {"ready"}) \ labels

BeforeUser == {"client", "await", "allocate", "createUser"}
BeforeVetted == BeforeUser \cup {"sync", "upload", "vet"}
BeforeDso == BeforeVetted \cup {"listDso", "allocDso"}
BeforeRules == BeforeDso \cup {"grant", "rules", "createRules"}

\* What a binary at a position of Setup has prepared in its sandbox, given its variables:
\* the test user owns the test party, the packages are vetted, the user acts as the dso
\* party, and a binary that is ready finds AmuletRules.
Prepared(label, variables, l) ==
    /\ label = "createUser" => variables.party # NoParty
    /\ Past(label, BeforeUser) =>
          variables.party # NoParty /\ variables.party = l.primary[UserID]
    /\ Past(label, BeforeVetted) => l.packages /\ l.vetted
    /\ Past(label, BeforeDso) => l.dso # NoParty
    /\ Past(label, BeforeDso \cup {"grant"}) => l.dso \in l.acts[UserID]
    /\ Past(label, BeforeRules) => l.rules > 0
    /\ label = "readRound" \/ variables.round => variables.rule /\ l.rounds

Variables(n) ==
    [mine : 0..n, doomed : 0..n, party : Nat, rule : BOOLEAN, round : BOOLEAN]

Phases == {"none", "created", "starting", "listening", "ready", "stopped"}

CallStates ==
    {"none", "done", "failed", "grantExternal", "allocated", "synchronizers", "listed"} \cup Operations

AdminTypeOK ==
    /\ call \in [Callers -> CallStates] /\ subject \in [Callers -> Nat]
    /\ todo \in [Callers -> SUBSET Nat] /\ accounts \in [Callers -> SUBSET Nat]

\* Every variable stays in its type, and the dso party is one that was allocated.
SetupTypeOK ==
    /\ ledger \in Ledgers /\ ledger.dso <= ledger.allocated
    /\ faults \in Nat /\ stops \in Nat
    /\ AdminTypeOK
    /\ boxes \in Nat /\ phase \in Phases
    /\ own \in [Callers -> Variables(boxes)] /\ pc \in [Callers -> Labels]

\* Containers are new when they get the name, a binary starts only the one it created,
\* once, and only a binary that is ready has the round's contract id.
ContainersInOrder ==
    /\ box \in {0, boxes}
    /\ box = 0 => phase = "none"
    /\ \A p \in Callers : pc[p] = "start" =>
          /\ own[p].mine # 0
          /\ own[p].mine = box => phase = "created"
          /\ \A q \in Callers : pc[q] = "start" /\ own[q].mine = own[p].mine => q = p
    /\ \A p \in Callers : own[p].round => pc[p] = "ready"

\* What a binary has prepared is still there as long as its container has the name:
\* no binary undoes what another one relies on.
SetupInv ==
    /\ SetupTypeOK /\ ContainersInOrder
    /\ \A p \in Callers : box # 0 /\ own[p].mine = box => Prepared(pc[p], own[p], ledger)

\* unit.yml:50 runs the tests with -p 1 so that "the shared Canton/testutil environment
\* is not contended across packages": then no running sandbox is removed, and unless a
\* request fails no second AmuletRules contract is created.
SerializedSetupsDoNotContend ==
    serialized => ~contended /\ (faults = 0 => ledger.rules <= 1)

\* Setup logs "AmuletRules already initialized, skipping creation" (testutil.go:718) and is
\* done.  Refuted: a Setup that ended between the rules and the bootstrap leaves no round.
ReadyHasRounds == \A p \in Callers : pc[p] = "ready" /\ Connected(p) => ledger.rounds

\* As long as the sandbox stays up and no request fails, an external party that was
\* allocated with grantUserRights can be acted as, and RequestAccounts lists one page of
\* the parties that were known when it asked: all of them if they fit on it.
AdminAnswersAreTrue ==
    faults = 0 /\ stops = 0 =>
        \A p \in Callers : Connected(p) =>
            /\ call[p] = "allocated" => subject[p] \in ledger.acts[UserID]
            /\ call[p] = "listed" => accounts[p] \in Pages(subject[p])

\* README.md:142 has ListWallets "List all parties the user can act as".  Refuted: it lists
\* whatever parties the participant knows, without a look at the user's rights, ...
OnlyOwnWallets ==
    faults = 0 /\ stops = 0 =>
        \A p \in Callers :
            Connected(p) /\ call[p] = "listed" => accounts[p] \subseteq ledger.acts[UserID]

\* ... and of those that do not fit on one page it leaves some out.
EveryWallet ==
    faults = 0 /\ stops = 0 =>
        \A p \in Callers :
            Connected(p) /\ call[p] = "listed" => ledger.acts[UserID] \cap (1..subject[p]) \subseteq accounts[p]

\* Where Setup waits with a deadline or under its ctx it gets on, whatever the sandbox
\* and the other binaries do: from a found container's port to the client or a new
\* container, through the test user to the controllers, from the upload to its end.
SetupEnds ==
    \A p \in Callers :
        /\ pc[p] \in WaitingForPort ~> pc[p] \in {"client", "create", "off"}
        /\ pc[p] \in CreatingUser ~> pc[p] \in {"sync", "off"}
        /\ pc[p] \in Populating ~> pc[p] \in {"ready", "off"}
=============================================================================
