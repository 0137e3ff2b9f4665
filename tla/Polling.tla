-------------------------------- MODULE Polling --------------------------------
(***************************************************************************)
(* pkg/controller/tokenstandard.go: the calls that poll.  LookupFeaturedApps *)
(* looks for the party's featured app right a number of times,             *)
(* GrantFeatureAppRightsForInternalParty looks, submits a grant and looks  *)
(* again, WaitForPreapprovalFromScanProxy polls for a preapproval.  The    *)
(* party may be set meanwhile, and several goroutines may grant.           *)
(***************************************************************************)
EXTENDS Integers

CONSTANTS
    Workers,
    Parties,
    Lookups,        \* attempts of the lookup that follows a grant: 5 in the code
    MaxFaults,      \* bound: listings that fail, answers that are lost or late
    MaxSets, MaxGrants  \* bounds: calls of SetPartyID, grants per party

ASSUME BoundsAssumption ==
    Lookups \in Nat \ {0} /\ MaxFaults \in Nat /\ MaxSets \in Nat /\ MaxGrants \in Nat

VARIABLES
    partyID, sets,  \* the controller's party and how often it was set
    inflight, rights,   \* per party: grants submitted, featured app rights active
    faults,         \* faults of the participant so far
    preapproved,    \* whether the receiver has a transfer preapproval
    at, method,     \* position and method of each worker
    want,           \* the party its lookup is for
    attempt, limit, \* the lookup's counter and maxRetries
    provider,       \* the party in its grant command
    granting,       \* whether it has submitted a grant
    outcome,        \* how its call ended
    held            \* whether what it looks for was there during the whole call

ledger == <<inflight, rights, preapproved, faults>>
locals == <<want, attempt, limit, provider, granting>>
pollingVars == <<partyID, sets, inflight, rights, preapproved, faults, at, method, want, attempt,
                 limit, provider, granting, outcome, held>>

Methods == {"lookup", "grant", "awaitGone", "awaitSeen"}

PollingInit ==
    /\ partyID \in Parties /\ sets = 0
    /\ inflight = [p \in Parties |-> 0]
    /\ rights \in [Parties -> 0..1]
    /\ preapproved \in BOOLEAN
    /\ faults = 0
    /\ at = [w \in Workers |-> "idle"]
    /\ method = [w \in Workers |-> "lookup"]
    /\ want = [w \in Workers |-> partyID]
    /\ attempt = [w \in Workers |-> 1]
    /\ limit = [w \in Workers |-> 1]
    /\ provider = [w \in Workers |-> partyID]
    /\ granting = [w \in Workers |-> FALSE]
    /\ outcome = [w \in Workers |-> "none"]
    /\ held = [w \in Workers |-> FALSE]

GoTo(w, label) == at' = [at EXCEPT ![w] = label]

Ends(w, how) ==
    /\ GoTo(w, "idle")
    /\ outcome' = [outcome EXCEPT ![w] = how]

\* One of the polling methods is called.
CallPolling(w, f) ==
    /\ at[w] = "idle"
    /\ GoTo(w, IF f \in {"lookup", "grant"} THEN "start" ELSE "poll")
    /\ method' = [method EXCEPT ![w] = f]
    /\ limit' = [limit EXCEPT ![w] = IF f = "lookup" THEN Lookups ELSE 1]
    /\ granting' = [granting EXCEPT ![w] = FALSE]
    /\ outcome' = [outcome EXCEPT ![w] = "none"]
    /\ held' = [held EXCEPT ![w] = IF f \in {"lookup", "grant"}
                                   THEN rights[partyID] > 0 ELSE preapproved]
    /\ UNCHANGED <<partyID, sets, ledger, want, attempt, provider>>

\* Mutant: the party of the first lookup is kept.
StartLookupCached(w) ==
    /\ at[w] = "start"
    /\ attempt' = [attempt EXCEPT ![w] = 1]
    /\ GoTo(w, "list")
    /\ UNCHANGED <<partyID, sets, ledger, method, want, limit, provider, granting, outcome, held>>

\* LookupFeaturedApps begins: the party to look for is read.
StartLookup(w) ==
    /\ at[w] = "start"
    /\ want' = [want EXCEPT ![w] = partyID]
    /\ attempt' = [attempt EXCEPT ![w] = 1]
    /\ GoTo(w, "list")
    /\ UNCHANGED <<partyID, sets, ledger, method, limit, provider, granting, outcome, held>>

\* Mutant: the lookup before a grant is ignored.
VisibleAfterGrant(w) ==
    /\ method[w] = "grant" => granting[w]
    /\ partyID = want[w] /\ rights[want[w]] > 0

\* ListContractsByInterface reads the party again: the party of this moment sees
\* its own rights only.
Visible(w) == partyID = want[w] /\ rights[want[w]] > 0

\* Mutant: the loop runs once too often.
LastAttemptLate(w) == attempt[w] > limit[w]

LastAttempt(w) == attempt[w] >= limit[w]

\* One fault more.
Fault == faults < MaxFaults /\ faults' = faults + 1

\* The lookup comes back without a right: with nil and a nil error, which lets a
\* grant go ahead or ends the call.
ComesBackNil(w) ==
    IF method[w] = "grant" /\ ~granting[w]
    THEN GoTo(w, "command") /\ UNCHANGED outcome
    ELSE Ends(w, "nil")

\* One attempt.  A failed listing counts as one without the right, and a grant still
\* not committed at the last attempt is late.
Attempt(w) ==
    /\ at[w] = "list"
    /\ \/ Visible(w) /\ Ends(w, "right") /\ UNCHANGED <<attempt, faults>>
       \/ /\ ~LastAttempt(w)
          /\ IF Visible(w) THEN Fault ELSE UNCHANGED faults
          /\ attempt' = [attempt EXCEPT ![w] = @ + 1]
          /\ UNCHANGED <<at, outcome>>
       \/ /\ LastAttempt(w)
          /\ IF Visible(w) \/ (granting[w] /\ inflight[want[w]] > 0)
             THEN Fault ELSE UNCHANGED faults
          /\ ComesBackNil(w)
          /\ UNCHANGED attempt
    /\ UNCHANGED <<partyID, sets, inflight, rights, preapproved, method, want, limit, provider,
                   granting, held>>

\* SelfGrantFeatureAppRights: the command names the party of this moment.
SelfGrant(w) ==
    /\ at[w] = "command"
    /\ provider' = [provider EXCEPT ![w] = partyID]
    /\ GoTo(w, "submit")
    /\ UNCHANGED <<partyID, sets, ledger, method, want, attempt, limit, granting, outcome, held>>

\* The party is read once more to act as; the participant takes the grant if it is
\* the command's party, and its answer arrives or not.
Submit(w) ==
    /\ at[w] = "submit"
    /\ \/ /\ provider[w] = partyID
          /\ rights[partyID] + inflight[partyID] < MaxGrants
          /\ inflight' = [inflight EXCEPT ![partyID] = @ + 1]
          /\ \/ /\ GoTo(w, "start")
                /\ granting' = [granting EXCEPT ![w] = TRUE]
                /\ limit' = [limit EXCEPT ![w] = Lookups]
                /\ UNCHANGED <<outcome, faults>>
             \/ Fault /\ Ends(w, "error") /\ UNCHANGED <<granting, limit>>
       \/ Ends(w, "error") /\ UNCHANGED <<inflight, granting, limit, faults>>
    /\ UNCHANGED <<partyID, sets, rights, preapproved, method, want, attempt, provider, held>>

\* WaitForPreapprovalFromScanProxy, one round: GetTransferPreApprovalByParty is a
\* stub that always fails, which counts as gone and otherwise as not visible yet.
Poll(w) ==
    /\ at[w] = "poll"
    /\ IF method[w] = "awaitGone"
       THEN Ends(w, "gone")
       ELSE GoTo(w, "sleep") /\ UNCHANGED outcome
    /\ UNCHANGED <<partyID, sets, ledger, method, locals, held>>

\* After the interval another round begins, until the deadline has passed or ctx is
\* done.
Wake(w) ==
    /\ at[w] = "sleep"
    /\ GoTo(w, "poll") /\ UNCHANGED outcome
    /\ UNCHANGED <<partyID, sets, ledger, method, locals, held>>

\* Mutant: only the wait for a preapproval to disappear has a deadline.
DeadlineIfGone(w) ==
    /\ at[w] = "sleep"
    /\ method[w] = "awaitGone"
    /\ Ends(w, "error")
    /\ UNCHANGED <<partyID, sets, ledger, method, locals, held>>

Deadline(w) ==
    /\ at[w] = "sleep"
    /\ Ends(w, "error")
    /\ UNCHANGED <<partyID, sets, ledger, method, locals, held>>

\* The participant (external) commits a grant.
Commit(p) ==
    /\ inflight[p] > 0
    /\ inflight' = [inflight EXCEPT ![p] = @ - 1]
    /\ rights' = [rights EXCEPT ![p] = @ + 1]
    /\ UNCHANGED <<partyID, sets, preapproved, faults, at, method, locals, outcome, held>>

\* A preapproval is created, cancelled or expires (external).
ChangePreapproval ==
    /\ preapproved' = ~preapproved
    /\ held' = [w \in Workers |-> held[w] /\ method[w] \notin {"awaitGone", "awaitSeen"}]
    /\ UNCHANGED <<partyID, sets, inflight, rights, faults, at, method, locals, outcome>>

\* TokenStandardController.SetPartyID: what held for the old party is not what is
\* looked for any more.
SetPartyID(p) ==
    /\ sets < MaxSets /\ p # partyID
    /\ sets' = sets + 1
    /\ partyID' = p
    /\ held' = [w \in Workers |-> held[w] /\ method[w] \in {"awaitGone", "awaitSeen"}]
    /\ UNCHANGED <<ledger, at, method, locals, outcome>>

Step(w) == StartLookup(w) \/ Attempt(w) \/ SelfGrant(w) \/ Submit(w) \/ Poll(w)

PollingNext ==
    \/ \E w \in Workers : Step(w) \/ Wake(w) \/ Deadline(w) \/ \E f \in Methods : CallPolling(w, f)
    \/ \E p \in Parties : Commit(p) \/ SetPartyID(p)
    \/ ChangePreapproval

PollingSpec == PollingInit /\ [][PollingNext]_pollingVars

\* Workers run, the participant commits what it took, and the deadline passes while
\* a worker sleeps or polls.
PollingFairSpec ==
    /\ PollingSpec
    /\ \A w \in Workers : WF_pollingVars(Step(w)) /\ SF_pollingVars(Deadline(w))
    /\ \A p \in Parties : WF_pollingVars(Commit(p))
-----------------------------------------------------------------------------
\* Every variable stays in its type.
PollingTypeOK ==
    /\ partyID \in Parties /\ sets \in 0..MaxSets
    /\ inflight \in [Parties -> Nat] /\ rights \in [Parties -> Nat]
    /\ preapproved \in BOOLEAN /\ faults \in 0..MaxFaults
    /\ at \in [Workers -> {"idle", "start", "list", "command", "submit", "poll", "sleep"}]
    /\ method \in [Workers -> Methods]
    /\ want \in [Workers -> Parties] /\ provider \in [Workers -> Parties]
    /\ attempt \in [Workers -> 1..Lookups] /\ limit \in [Workers -> {1, Lookups}]
    /\ granting \in [Workers -> BOOLEAN] /\ held \in [Workers -> BOOLEAN]
    /\ outcome \in [Workers -> {"none", "right", "nil", "error", "gone"}]

\* One goroutine that looks up and grants again and again never has two rights of a
\* party granted, as long as the party is not switched under it and the participant
\* answers everything in time.
GrantedOnce == sets + faults = 0 => \A p \in Parties : rights[p] + inflight[p] <= 1

\* Without a fault a call that looks for a right held all along finds it, and one
\* that granted it does not come back without it unless the party was switched.
RightIsFound ==
    \A w \in Workers : faults = 0 /\ outcome[w] = "nil" =>
        ~held[w] /\ (granting[w] /\ sets = 0 => rights[want[w]] = 0)

\* Every polling call ends.
PollingEnds == \A w \in Workers : at[w] # "idle" ~> at[w] = "idle"

\* README: `LookupFeaturedApps(ctx, maxRetries, delayMs)` finds active featured app
\* rights: none is reported only if there was none.
NoRightIsTrue ==
    \A w \in Workers : method[w] = "lookup" /\ outcome[w] = "nil" => ~held[w]

\* tokenstandard.go:1323, "Preapproval is no longer visible": it was not there all
\* the time.
GoneIsTrue == \A w \in Workers : outcome[w] = "gone" => ~held[w]
=============================================================================
