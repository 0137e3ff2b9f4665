# A verification model of go-wallet-daml

TLA+ modules of the Go wallet SDK in this repository, the TLC configurations that
check them on small instances, and theorems about their components that TLAPS proves for
every instance. Paths below are relative to the repository's root; the
file `PROJECT.json` maps every definition to the lines it models.

## 1. The system and its parts

An application holds one `WalletSDK`. It authenticates through an auth controller,
builds controllers over the client library of a Canton participant, and works for one
party at a time. All of it may be called from several goroutines at once; the SDK
persists nothing, but requests fail, time out and are repeated, and the ledger moves on
while the wallet reads it. The test harness is the one part with something to recover:
the sandbox it starts outlives the test binary that started it, at whatever step that
binary stopped.

| part | state it keeps | operations | what is hard | what makes it correct |
|---|---|---|---|---|
| OAuth token controller (`pkg/auth/oauth.go`) | one-shot discovery, its error, the endpoint; two `sync.Map`s: tokens per kind, one-place channels of pending requests | `GetUserToken`, `GetAdminToken` | goroutines that join a request another one started; failed owners; contexts that end; one token in a channel with several waiters | one request per kind, the owner never blocks, kinds never mix, a registration is always taken back |
| Wallet session (`pkg/sdk/wallet.go`, builder in `pkg/controller/ledger.go`) | pointers to four controllers; party and synchronizer in each as `atomic.Value` | `Connect`, `ConnectAdmin`, `SetPartyID`, accessors | half-failed `Connect`, six separate stores, readers in between, tokens that expire | a transaction is drafted, prepared and routed as one party; no nil dereference |
| Event emitter (`pkg/dapp/events.go`) | two listener lists under an `RWMutex`, the channels' buffers | emit, add, remove, close | sending while another goroutine closes; subscribers that do not read | never a send on or close of a closed channel; every operation returns |
| Dapp client (`pkg/dapp/client.go`) | the emitter, the SDK | `PrepareExecute`, `PrepareExecuteAndWait`, `Subscribe...`, `Disconnect` | order and loss of events of concurrent calls | pending first, one outcome, outcome delivered, subscriptions end |
| Ledger controller, submission (`pkg/controller/ledger.go`) | party and synchronizer; the participant's ledger is outside | prepare, sign, execute, submit, wait for completion | completion before the stream is opened, retries with one command id, timeouts, party switched in the middle | a completion is not missed, not that of an earlier call, a timeout is true |
| Token standard controller, holdings (`pkg/controller/tokenstandard.go`) | none; folds the update stream | `ListHoldingUtxos`, `CreateTransfer`, `MergeHoldingUtxos` | a ledger that moves, a 2 s timer, limits of 100, piecewise merges | a listing is one snapshot, selection and merge cover what they must, a refusal says that the amount is not there or the limit was hit |
| Contract queries (`tokenstandard.go`, `ledger.go`, `validator.go`) | two ids of the AmuletRules contract, set one by one or left to the environment | `GetActiveContracts`, `GetBalance`, `findAmuletRulesContract`, `UseMergeDelegations`, ... | `select` over a response and an error channel, closed channels, a search over three template ids | a list is whole unless its stream failed, a contract fits its template id, a query ends |
| Polling (`tokenstandard.go`) | party; the rest is on the ledger | `LookupFeaturedApps`, grants, `WaitForPreapprovalFromScanProxy` | retries, swallowed errors, deadlines, the party read several times | grants once, finds what is there, ends |
| Scan proxy client, validator (`pkg/client/scanproxy.go`, `pkg/controller/validator.go`) | none | HTTP requests, mapping, round windows | time passes between a check and its use, both for tokens and for rounds; times that cannot be read, a clock set back; a scan that stays silent | no old or foreign token is sent, judgements of rounds agree, a request ends |
| Unsafe and mock auth, token provider (`pkg/auth`) | a `sync.Map` of tokens per kind, without a lock | as OAuth | goroutines that sign and store at once | as above |
| Party and rights administration (`ledger.go`, `RequestAccounts` in `client.go`) | on the participant | allocate, grant, create user, list | a grant that fails after an allocation, a listing that skips | what is reported is so |
| Test harness (`pkg/testutil/testutil.go`) | `sync.Once`, package variables; a Docker container and a participant that all test binaries share | `Setup`, accessors | binaries that run at once, die anywhere, find a half prepared sandbox; a sandbox that stops | what was prepared is there, serialised binaries do not contend, no wait of `Setup` lasts for ever |
| Command builders, crypto, model types | none | pure functions, data | none a model checker reaches | not modelled |

Interactions: the dapp client calls the ledger controller and announces its outcome
through the emitter; a session's ledger controller takes its bearer token from the
OAuth controller when it is built; a transfer or merge command is drafted by the token
standard controller (Holdings, ContractQueries) and submitted through the ledger
controller (Submission) under the party the session set (WalletSession). The scan proxy
client and the dapp client's `LedgerApi` take their tokens from a token provider
(UnsafeAuth). The test harness builds a ledger, a token standard and a validator
controller over the sandbox it prepared, and the tests administer parties with them
(PartyAdmin).

## 2. The modules

Each module is one component; `MC<module>` gives TLC its instances. Goroutines are
interleaved at every access to shared state (an atomic value, a `sync.Map`, a channel,
a lock, a request to the participant), so everything between two accesses is one step.
Operators marked *Mutant* are bugs a programmer could plausibly have made in the
definition that follows them: every property of a passing run is refuted by one.

**OAuthController.** A caller's `pc` is its position in `GetUserToken` or
`GetAdminToken`, which are one piece of code over two keys, so the key is a parameter
(`kind`). `accessTokens` and `pendingReqs` are the maps, `buffer` the content of each
one-place channel. `LoadOrStore` is `BecomeOwner` or `JoinPending`; the owner fetches,
stores, reloads the channel and sends (`Publish`), deletes. A channel identity is
reused once nobody and no map entry refers to it, which is what garbage collection
does. `valid` is what `isJWTValid` accepts now: tokens expire, opaque ones never are
accepted. *TokenRequests* is the abstract specification: per kind a cache entry and at
most one request, which changes the entry at most once; OAuthController implements it
(`ImplementsTokenRequests`) with a registered channel as the open request.

**WalletSession.** `factories` are those `Configure` was given so far, in any order and
at any time. `ctl` holds the four controllers; `Connect` replaces those it has a factory
for one at a time and may stop anywhere, leaving nil behind where the code does; a nil
controller is skipped or panics as in the code. `Stores` lists the six stores of
`SetPartyID` in order. Preparing a transaction reads the drafting party, the preparing
party and the synchronizer in three steps. `solo`, `inForce` and `users` only record
what happened: whether a call was overlapped, which party the last undisturbed
`SetPartyID` set, and who has used the session.

**EventEmitter** and **DappClient**. The `RWMutex` has Go's writer preference: a
waiting writer (`Announce`) keeps new readers out. Sending is the code's
`select`/`default`. DappClient extends the emitter with the calls that emit; one
goroutine per call, one fresh channel per subscription. A caller may choose its command
id, so calls may share one (`id`), as a retry does; an event therefore carries its call
beside its id, and `after` records which calls had returned when one began. `missed`
records channels that were full when an event was emitted.

**Submission.** `ledger` is the participant's completions in order, `inflight` what it
has accepted; it deduplicates committed command ids per party and rejects a signature
of another party than the one prepared for. `begin`, `watch` and `cursor` are the
offset, party and position of the completion stream; `Awaited` is the id the code
compares with, which is the caller's, not the generated one. `alone` only records that
no other submission of a call's id has been under way since it read the ledger end.

**Holdings.** `updates` is the ledger: transactions of created and archived events.
`ReadUpdate` folds one transaction; `StopListing` is the timer or the stream's end, and
the timer may come at any time, with updates pending. `from` only records how many
updates there were when the call began.
`Listings` is the result slice in the map's random order, cut at the limit; `Taken` and
`Pieces` are the selection and grouping loops.

**ContractQueries.** `flow` says which loop runs: collecting ones, `GetBalance`, the
first match, approvals, `UseMergeDelegations`, the AmuletRules search. A response may be
no contract (`Nil`) or a contract without the field `GetBalance` or `GetValidatorUser`
reads (`Readable` has it): it is passed over, or its payload is no record and the type
assertion panics. The ids of the AmuletRules contract are stored by two setters that
overwrite whatever was there, and each falls back on its own environment variable
(`env`); `inForce` only records which ids were in force during a search. The client
library's side (`sending`, `stream`, `ended`, `errs`) is external and may close the
channels in either order, also with its error still to be taken. One template stands for
the package id that `GetBalance` has fixed (tokenstandard.go:241), `Call` of
`UseMergeDelegations` is one with holdings enough; `GetTransactionTrees` is not modelled.

**ScanProxy** over **UnsafeAuth**. `now` is the clock, read at each check; a token is
its kind and its expiry, and its request to an OAuth provider, which comes before the
HTTP client's timeout begins, is OAuthController's. Round `r` opens at
`Opens(r)`, a tick after the one before, and closes `RoundDuration` later, as the
automation of the ledger sets `opensAt` and `targetClosesAt`; `payload` says which of
the two a round has in a form that can be parsed, and a round without is skipped as in
the code. A caller's `answer` is the list as the scan sent it, any interval of rounds,
judged at a later `now`. `StepBack` sets the clock back, once, and `stepped` records it.
`LedgerApi` is the same request without a timeout and without a look at the status.

**TestHarness** over **PartyAdmin** over **Participant**. A caller is a test binary:
`pc` is its step in `Setup`, `own` its package variables. `box` is the container that
has the name, `phase` how far it has come; `ledger` is the participant in it, empty in
a new container. Each request is a step, which `Succeeds`, is refused, or is lost
before or after it took effect (`Fails`); a binary ends at any step (`End`), the
sandbox stops (`Stop`). A search that finds a stopped container and the removal that
follows are two steps, as they are two requests. A binary that is ready makes one call
of the party administration. `Pages(n)` is what one page of `ListKnownParties` may show
of n parties: all if they fit into `PageSize`, 1000 in the code, which never asks for
the next page.

**Polling.** `want`, `provider` and `partyID` are the three reads of the party in one
grant. `faults` counts what the participant did wrong: a listing that failed, an answer
that was lost, a grant not committed when the last lookup gave up.

## 3. The runs

| run | question | bounds and why they are enough |
|---|---|---|
| OAuth | do concurrent requests keep to one request per kind, unblocked and unmixed, implement TokenRequests, is a registration taken back, do deadlined callers return | two callers, one of them with a deadline, who call again and again for either kind, both configured; one token per kind, which expires and is fetched again; discovery may fail, so that the error path of `init` is taken; a channel per caller, as a caller refers to one. The proofs cover any number of callers and kinds, configured or not |
| OAuthFailedOwner (violation) | are waiters answered | two callers, one kind |
| WalletSession | party consistency for shared and single use | two goroutines and two parties: a mixture needs two of each; factories configured in any order, also during a `Connect`; one synchronizer is enough as stores of party and synchronizer are alike and the nil case is separate |
| DappClient | panics and blocking of the emitter, order, outcome, end of subscriptions | two calls that may share an id or have one each, one subscriber of either kind, one Disconnect goroutine: an emitting reader, a waiting writer and a late reader; one place per channel, so that events are missed |
| Submission | missed completions and those of other calls, true timeouts, end of calls | two clients with one id between them are a call and its retry, one after the other or overlapping; two parties for a switch; one patient client |
| SubmissionEmptyId (violation) | is a timeout true with an empty id | one client, one call |
| Holdings | snapshot, selection, merge, refusal, end | four holdings and four updates of amounts 1 and 2: two pieces of two, a partly filled one, exact and inexact sums. `ListLimit` 2 is reached and cuts the listing, and the timer fires with updates pending. Other goroutines of the party act on the ledger only, which `Receive` and `SpendElsewhere` do |
| ContractQueries | completeness, fit, end | two template ids, one with two contracts, of which one has the field that is read; room for one response, one change meanwhile, two pairs of ids to set the halves from, and an environment that is empty or holds the template id only: every mixture of old, new, set and environment's halves |
| QueriesNoDelegation (violation) | is a missing delegation reported | one template id |
| Polling | one grant, truth, end | one worker (two of them grant twice, without any fault or switch), two parties, three lookups, three faults, two switches; that a right is found is proved for any number of workers |
| TestHarness | what is prepared stays, serialised binaries do not contend, answers of the administration are true, no wait of `Setup` lasts for ever | two binaries, one fault, one stop of the sandbox, two launches: a binary and one beside or after it. `PageSize` 2 is less than the parties there can be, so that the page cuts |
| ScanProxy | tokens, round windows, end | two goroutines, a token that lives two ticks, two rounds of two ticks: one expires, opens and closes at each distance from a check; all times readable, or one of each round missing; the clock is set back once |

Runs with `CHECK_DEADLOCK FALSE` are those where the system may stop: a waiter without a
deadline waits for ever (OAuth), a panic ends the program (WalletSession,
ContractQueries), calls per client are bounded (Submission), launches or time are bounded
(TestHarness, ScanProxy).

**Fairness.** Goroutines in a call are scheduled. OAuth: a context with a deadline ends
and the token request has a 30 s client timeout, so each step of a caller is weakly
fair, except discovery, which uses `http.Get` without a timeout: liveness begins after
it. Emitter: lock requests are strongly fair, as `sync.RWMutex` starves nobody; readers
of channels are fair only in DappClient, where the README's example loops over them.
Submission: requests are answered or fail, the deadline passes, the participant
completes what it took; the stream need never end. Holdings: the timer, and nothing
else: updates need not be read or come. TestHarness: only the steps in which a `Setup`
waits with a deadline of its own or for a request under its ctx of seven minutes, which
are the wait for the port and the requests to the participant (`TimedSetup`). Requests
to Docker (testutil.go:264, 293, 395, 497) carry no context and building a client waits
with `context.Background()` (testutil.go:80, ledger.go:165), so they may hang and hold
`Setup` for ever: `SetupEnds` begins after each and says that the stretch up to the next
ends. ScanProxy: a goroutine runs and its 30 s client timeout fires; the scan need never
answer. ContractQueries: the library ends streams it
can end; `ctx` need not be cancelled. Polling: `Deadline` is strongly fair since it is
enabled only while a worker sleeps, and time passes.

## 4. What the code does otherwise

Three disagreements have a run of their own and an entry under `findings`:

- *OAuthFailedOwner*: the owner of a failed request deletes the registration and sends
  nothing, so a waiter with `context.Background()` waits for ever. The same property
  fails if the request succeeds and two callers wait: one token is sent, one caller
  takes it (`AnsweredWaitersReturn`, three callers of one kind under `FairSpec`).
- *SubmissionEmptyId*: with an empty command id `PrepareSubmission` generates one, but
  `WaitForCompletion` compares with the empty string: it times out although the
  transaction completed.
- *QueriesNoDelegation*: `UseMergeDelegations` does not test `ok`; a stream without a
  delegation panics or returns nil without an error.

These are stated in the modules and refuted by TLC when the definition is added to the
configuration named (as INVARIANT, or as PROPERTY if it is temporal; `NoExpiredBearer`
without the SYMMETRY of its configuration):

| definition | configuration | quoted promise and what happens |
|---|---|---|
| `SetPartyIDReachesAll` | WalletSession | README.md:84 "Sets party and synchronizer for all controllers": never the admin ledger's |
| `AdminLedgerUsesAdminToken` | WalletSession | README.md:83 "Connects with admin token": `Build` asks for the user token (ledger.go:124) |
| `NoExpiredBearer` | WalletSession | README.md:23 "OAuth2 authentication with token refresh": the bearer is fixed when the controller is built |
| `NotFoundIsTrue` | QueriesNoDelegation | tokenstandard.go:1769 "AmuletRules contract not found": also after a stream error while it is active |
| `NoRightIsTrue` | Polling | README.md:122 "Find active featured app rights": nil, nil after a failed listing |
| `GoneIsTrue` | Polling | tokenstandard.go:1323 "Preapproval is no longer visible": the lookup is a stub whose error counts as gone |
| `PendingIsSettled` | DappClient | README.md:171 "Prepare and trigger execution flow": nothing is executed after pending |
| `ListedRoundsAreActive` | ScanProxy | README.md:158 "List currently active mining rounds": all that the scan lists, active or not |
| `LedgerApiEnds` | ScanProxy | README.md:169 "Execute raw Ledger API requests": its HTTP client has no timeout (client.go:32), nor does it look at the status |
| `~contended` | TestHarness | without `-p 1` (Makefile:65): a `Setup` that finds a container another has created but not started takes it for stopped and removes it when it runs |
| `ledger.rules <= 1` | TestHarness | without `-p 1`, or after a query that failed: AmuletRules are created twice |
| `\A p \in Callers : pc[p] = "ready" => own[p].round` | TestHarness | testutil.go:886 "for later use": a `Setup` that finds AmuletRules leaves both contract ids and the environment variables unset |
| `ReadyHasRounds` | TestHarness | testutil.go:718 "AmuletRules already initialized, skipping creation": a `Setup` killed between creating the rules and the bootstrap leaves the next one ready with no round open |
| `OnlyOwnWallets` | TestHarness | README.md:142 "List all parties the user can act as": the parties the participant knows, whatever the user's rights |
| `EveryWallet` | TestHarness | README.md:142 again: the first page of 1000 (ledger.go:813), never the next |
| `ReportsOnlyOwnCompletion` | Submission | what a caller of `...AndWaitFor` may expect: the ledger end is read before executing (ledger.go:420), so a submission with the same id that completes in between is reported (ledger.go:457) |
| `CompleteOrError` | ContractQueries | a list without an error is whole: `select` may see the closed stream before the error of a stream that failed (ledger.go:645-670) and return what had come |
| `BalanceIsWhole` | ContractQueries | tokenstandard.go:230 `GetBalance`: amounts that are no string or no number are skipped; README.md:394 sends the user to `ListHoldingUtxos` |
| `ConfiguredPairFits` | ContractQueries | tokenstandard.go:1662 "Using AmuletRules contract from configured values": the two values may be halves of different pairs |
| `NilMeansNotShown` | ScanProxy | nil without an error although the scan shows the current round: its times are missing or cannot be parsed (scanproxy.go:290-306) |
| `ClosedStaysClosed` | ScanProxy | a round reported closed is active again once the clock has been set back |

Some deviations are part of the model and break no property of it:

- *Administration.* `AllocateExternalParty` reports success although granting failed
  (ledger.go:551), `RequestAccounts` skips parties whose request fails, `ListWallets`
  lists one page of the parties the participant knows where README.md:142 speaks of
  parties the user can act as, `GrantMasterUserRights` grants ParticipantAdmin for reading.
- *Test harness.* After `waitForPort` on a found container fails, "creating new one"
  (testutil.go:345) runs into the name conflict and attaches to the same container
  without waiting for it. `dockerPool, err :=` in the `Once` shadows the global
  `dockerPool` (testutil.go:61), so that `Teardown` and `CleanupContainer` do nothing.
  Uploaded DARs are looked up by the file name up to its first hyphen
  (testutil.go:659), which no package of that name has, so none is ever skipped. The
  harness gives rounds the length of a tick, against README.md:396's
  "Ensure round0Duration > tickDuration": at the tick none is active.
- *Events.* Nothing calls `EmitAccountsChanged`, so `SubscribeAccountsChanged` receives
  nothing.

## 5. The proofs

Eight modules hold theorems, for any values of the constants that satisfy the
components' assumptions: each is about one component, or about two that belong together
(the dapp client and its emitter, the token standard controller's queries and its
polling, the test harness and the party administration of a sandbox it prepared). What
they state, the runs check on the instances of section 3, and every invariant of a
passing run is stated by a theorem, under the conditions the table names. The proofs
have one shape: the property is not inductive by itself, so layers of invariants lead up
to it, each proved initially and then stepwise with one step per action and the layers
below as hypotheses.

| module | theorem | states |
|---|---|---|
| `OAuthControllerProofs` | `Typing` | `Spec => []TypeOK` |
| | `SingleFlightHolds` | `Spec => []SingleFlight` |
| | `SendNeverBlocksHolds` | `Spec => []SendNeverBlocks` |
| | `TokensStayInTheirKindHolds` | `Spec => []TokensStayInTheirKind` |
| | `Refinement` | `Spec => ImplementsTokenRequests` |
| `DappClientProofs` | `EmitterInvHolds` | `EmitterSpec => []EmitterInv` |
| | `NeverPanicsHolds` | `EmitterSpec => []NeverPanics` |
| | `ClientInvHolds` | `Spec => []ClientInv` |
| | `EventsInOrderHolds` | `Spec => []EventsInOrder` |
| | `ClientUsesEmitter` | `Spec => EmitterSpec` |
| | `ClientNeverPanics` | `Spec => []NeverPanics` |
| `WalletSessionProofs` | `SetPartyIDReachesHoldersHolds` | `Spec => []SetPartyIDReachesHolders` |
| | `PreparedAsOnePartyHolds` | `Spec => []PreparedAsOneParty` |
| | `SessionInvHolds` | `Spec => []SessionInv` |
| | `NeverPanicsHolds` | `Spec => []NeverPanics` |
| `SubmissionProofs` | `SubmissionInvHolds` | `Spec => []SubmissionInv` |
| | `ReportsOwnCompletionHolds` | `Spec => []ReportsOwnCompletion` |
| | `TimeoutMeansNotCompletedHolds` | `Empty \notin Given` implies `Spec => []TimeoutMeansNotCompleted` |
| `HoldingsProofs` | `HoldingsInvHolds` | `Spec => []HoldingsInv` |
| | `InputsCoverHolds` | `Spec => []InputsCover` |
| | `InsufficientIsTrueHolds` | `Spec => InsufficientIsTrue` |
| `TokenStandardProofs` | `Typing` | `Spec => []TypeOK` |
| | `CompleteUnlessFailedHolds` | `Spec => []CompleteUnlessFailed` |
| | `PickedContractFitsHolds` | `Spec => []PickedContractFits` |
| | `PollingTyping` | `PollingSpec => []PollingTypeOK` |
| | `RightIsFoundHolds` | `PollingSpec => []RightIsFound` |
| | `GrantedOnceHolds` | one worker implies `PollingSpec => []GrantedOnce` |
| `ScanProxyProofs` | `ScanProxyInvHolds` | `Spec => []ScanProxyInv` |
| | `RoundWindowsHolds` | `Spec => RoundWindows` |
| `TestHarnessProofs` | `SetupInvHolds` | `Spec => []SetupInv` |
| | `SerializedSetupsDoNotContendHolds` | `Spec => []SerializedSetupsDoNotContend` |
| | `AdminAnswersAreTrueHolds` | `Spec => []AdminAnswersAreTrue` |

**OAuthController**, from the module's assumptions: deadlined callers are callers,
configured kinds are kinds, `NoChan` is no channel and `NoToken` no token. `TypeInv`
adds to `TypeOK` that owners and waiters hold a channel, or a receive could leave the
type. `FlightInv` adds what makes the second `Load` and the two `Delete`s safe: an
owner's registration is its own (`SingleFlight`), two kinds never share a channel
(`KindsApart`), an owner's channel is empty until it publishes (`EmptyUntilPublished`;
this is why the send does not block) and it then holds a token (`HoldsToken`).
`KindInv` adds that a waiter's channel, registered or already abandoned, serves the
kind it asked for. For the refinement a lemma says what each step does to
`RequestPhase`: it is open from `BecomeOwner`, stored from `Store`, gone with either
`Delete`; everything else stutters.

**EventEmitter** and **DappClient**. The emitter's invariant is its lock's: readers and
a writer exclude each other, a writer is one, whoever has targets to send to holds the
lock, and the listed channels are open and listed once. A panic would need a target
that is closed, so it needs a reader beside a writer. The lists are sequences, and what
removing an element leaves of them is a lemma. The theorems are about `EmitterSpec`, in
which any goroutines emit, add, remove and close; `ClientUsesEmitter` shows that every
step of the dapp client is one of these or leaves the emitter alone, so it inherits the
discipline. `EventsInOrder` needs more than the emitter: `ClientInv` adds that a channel
is known before it is listed and is served once per emit (`ChannelsKnown`,
`ServedOnce`), that a call emits only events of its own (`AnnouncesItself`), that
nobody was told what is still to come, with an emit in progress having told exactly the
channels it has served (`AnnouncedInTurn`), and that a call that has returned emits
nothing more (`ReturnedForGood`). All of it is by call: ids may repeat.

**WalletSession.** `TypedInv` types the state and says where a call has its arguments.
For any number of goroutines `OverlapInv` adds that nobody changes the session beside a
`solo` call (`SoloInv`), that the stores before the index of a solo `SetPartyID` are in
place (`StoredInv`), that with a party in force nobody is changing anything and every
controller holds it (`ForceInv`), and that what a solo preparation read is that party
(`ReadInv`). For one goroutine `AloneInv` adds that between calls the controllers agree
on a party (`OneParty`) and that what a call is about to dereference is there
(`Equipped`), the fact a failed `Connect` endangers. `NilIsNoController` is assumed: a
nil pointer is no controller. Which factories there are does not matter to any of it,
as a controller `Connect` skips is one it leaves as it was.

**Submission.** `CallInv` types the state and says which flow brings a call where.
`OrderInv` numbers submissions and completions by call (`Numbered`), so that a call
that has not executed has neither (`NotYet`); the ledger only grows, so its completion
comes after the offset it read before executing (`OwnAfterBegin`), and what it reports
lies after that (`Reported`). That is not yet its own: `AloneInv` adds that while a call
is alone with its id, whatever is in flight or on the ledger after that offset under the
id is its own submission (`Undisturbed`). `TimeoutInv` adds that the submission and the completion
carry the call's id and party (`Tagged`), that a client whose party stays reads that
party's stream (`SameParty`), that its own completion is never behind the cursor
(`Unpassed`), and so that it is silent only about what is not there (`Silent`). The
assumption that no caller gives an empty id is needed: without it the theorem is false,
as run SubmissionEmptyId shows.

**Holdings.** `HoldingsInv` is inductive with `LedgerInOrder`, by which a holding is
archived only after it is created, earlier in its transaction or before it: then the
code's fold, which applies a transaction's events one by one, leaves what the ledger
defines as active (`ActiveAtNext`), and what was active after some updates stays so
however the ledger grows (`LedgerGrows`). For `InputsCover` lemmas say what the
selection loop returns (`TakenProperties`), that the pieces of a merge hold every listed
holding once (`PiecesProperties`), and that their totals add up to the total listed
(`SumOfSums`). Sums and folds come from the community modules, which compute them by a
function on the subsets of a finite set; two such functions that differed would differ
on a smallest subset (`SmallestSet`), which is how the lemmas about them go without
an induction rule. For `InsufficientIsTrue` a listing below the limit has every holding
of its offset (`ListingProperties`), the selection loop then takes all there is, and if
the offset is not before the one the call began with, it is a moment of the call. The
conditions are part of the property: no holding matches another admin, and a
timer that comes too early shows a past balance.

**ContractQueries.** `QueryInv` says that during a call what was active throughout is
active (`Calling`), and that what of the snapshot a stream began with is to be kept is
at every moment what was received, what the channel holds and what is still to be sent,
a stream that ended having nothing left to send unless it failed (`Streaming`). So a
closed and drained channel means a whole list, and without the condition it does not
(`CompleteOrError`). `Configured` says that between the two loads of a search the
template id loaded, and the contract id to be loaded, are among those in force.

**Polling.** `FindInv` says that a lookup is for the current party as long as nobody
set another (`Looking`), that a grant taken is on its way or on the ledger (`Granted`),
and that a call that found nothing had nothing to find (`NilIsTrue`). `Single` is about
one worker: a grant is under way only while that worker looks for it, and it submits
only what is not there. Two workers grant twice, so `GrantedOnce` has the assumption.

**ScanProxy.** `Inv` says that a cached token is of the kind it is cached under
(`CacheSorted`) and, until the clock is set back, that a token about to be sent had not
expired when its call began (`Sendable`) and that a round reported closed is closed
(`ReportedClosed`). `RoundWindows` compares two steps and follows from it and from the
fact that a round with readable times is active when it is the current one
(`CurrentIsActive`).

**TestHarness** with **PartyAdmin**. For any number of binaries, launches, faults and
stops. `SetupInv` is inductive with its part `ContainersInOrder`: containers are
numbered as they get the name, so a new one is nobody else's, and a binary starts only
the container it created. What a prepared binary relies on stays because no request
takes it back: `Grows` orders ledgers by what a `Setup` builds on, a lemma per request
says that its effect is a growth, and `PreparedGrows` that what is prepared on a ledger
is prepared on a grown one. `SerialInv` adds, while the binaries are serialised, that
one runs at a time, that the container it is about to remove is not running, and that
as long as no request fails a search that found no AmuletRules stays true until they
are created. `AdminInv` adds that only a binary that is ready is in a call, that a call
that has had an answer has it from a sandbox that is still up, and that the accounts
collected and the parties still to ask about are one page of the parties known when
they were listed.

Only model-checked is liveness (with `OutcomeFollows` of the dapp client), which is out
of the prover's reach, and the three violations of section 4.

## 6. What is not modelled, and what is left

Left out for good: cryptography and encodings, logging, the fields of contracts that no
property tells apart, stubs that always fail, functions that only assemble a command
or send one request (package administration, the registry). Of the test harness only
the clean-up is left out, which nothing calls.

Left for later: a composition of WalletSession with Submission, in which a party is
switched between drafting, signing and waiting, end to end. Each module has the switch
in it, at its own reads.
