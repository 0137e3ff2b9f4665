-------------------------------- MODULE ScanProxy --------------------------------
(***************************************************************************)
(* pkg/client/scanproxy.go: requests to the scan proxy with a bearer       *)
(* token, and the mining rounds picked from its answers by the client's    *)
(* wall clock, which may be set back.  LedgerApi of pkg/dapp/client.go     *)
(* sends with the same tokens.  Rounds open a tick apart, round 0 one tick *)
(* before time 0, and the scan opens and archives them in its own time.    *)
(***************************************************************************)
EXTENDS UnsafeAuth, FiniteSets

CONSTANTS
    TickDuration, RoundDuration,
    MaxRound,   \* bound on the rounds modelled
    Payloads    \* which fields of the rounds' payloads there are and can be parsed

Rounds == 0..MaxRound
Fields == {"opensAt", "targetClosesAt"}

ASSUME DurationAssumption ==
    TickDuration \in Nat \ {0} /\ RoundDuration \in Nat /\ MaxRound \in Nat
ASSUME PayloadAssumption == Payloads \subseteq [Rounds -> SUBSET Fields]

VARIABLES
    payload,    \* the readable fields of each round
    stepped,    \* the clock has been set back (history)
    request,    \* what each caller asks for
    began,      \* when its call began
    answer,     \* the rounds in the scan's answer to it
    result,     \* what the step that led here returned
    reported    \* rounds some call has reported as closed

outside == <<payload, stepped>>
vars == <<now, secret, accessTokens, at, kind, token, outside, request, began, answer, result,
          reported>>

Requests == {"scanProxy", "ledgerApi"}
NoResult == [kind |-> "none", rounds |-> {}]

Opens(r) == (r - 1) * TickDuration
Closes(r) == Opens(r) + RoundDuration

Init ==
    /\ AuthInit
    /\ at = [c \in Callers |-> "idle"]
    /\ payload \in Payloads
    /\ stepped = FALSE
    /\ request = [c \in Callers |-> "scanProxy"]
    /\ began = [c \in Callers |-> 0]
    /\ answer = [c \in Callers |-> {}]
    /\ result = NoResult
    /\ reported = {}

NothingReturned == result' = NoResult

\* The client's isAdmin says which token is asked for first; LedgerApi asks for the
\* user's.
Call(c, r) ==
    /\ at[c] = "idle"
    /\ r = "ledgerApi" => kind[c] = "user"
    /\ request' = [request EXCEPT ![c] = r]
    /\ began' = [began EXCEPT ![c] = now]
    /\ GoTo(c, "load")
    /\ NothingReturned
    /\ UNCHANGED <<now, authVars, outside, answer, reported>>

\* A method returns; its variables go.
Return(c, k, rounds) ==
    /\ result' = [kind |-> k, rounds |-> rounds]
    /\ answer' = [answer EXCEPT ![c] = {}]
    /\ request' = [request EXCEPT ![c] = "scanProxy"]
    /\ token' = [token EXCEPT ![c] = NoToken]
    /\ began' = [began EXCEPT ![c] = 0]
    /\ GoTo(c, "idle")
    /\ UNCHANGED <<now, secret, accessTokens, kind, outside>>

GetToken(c) ==
    /\ LoadToken(c) \/ SignToken(c) \/ StoreToken(c)
    /\ NothingReturned
    /\ UNCHANGED <<outside, request, began, answer, reported>>

\* GetUserToken's or GetAdminToken's error.
GetTokenFails(c) ==
    /\ at[c] = "load" /\ ~secret
    /\ Return(c, "error", {})
    /\ UNCHANGED reported

\* The scan serves the request if the token is good: with the rounds from the oldest it
\* has not archived to the newest it has opened.
Serve(c) ==
    /\ at[c] = "wait"
    /\ now < token[c].exp
    /\ \/ request[c] = "ledgerApi" /\ UNCHANGED answer
       \/ /\ request[c] = "scanProxy"
          /\ \E newest \in Rounds : \E oldest \in 0..newest :
               answer' = [answer EXCEPT ![c] = oldest..newest]
    /\ token' = [token EXCEPT ![c] = NoToken]
    /\ began' = [began EXCEPT ![c] = 0]
    /\ GoTo(c, "pick")
    /\ NothingReturned
    /\ UNCHANGED <<now, secret, accessTokens, kind, outside, request, reported>>

\* No connection, or a status of 400 or more, for an expired token or another reason,
\* is an error; LedgerApi does not look at the status and returns the body.
Refuse(c) ==
    /\ at[c] = "wait"
    /\ \/ Return(c, "error", {})
       \/ request[c] = "ledgerApi" /\ Return(c, "body", {})
    /\ UNCHANGED reported

\* Mutant: the timeout covers the body only.
GiveUpOnBody(c) ==
    /\ at[c] = "pick"
    /\ Return(c, "error", {})
    /\ UNCHANGED reported

\* The scan proxy client's 30 s; LedgerApi's client has no timeout.
GiveUp(c) ==
    /\ at[c] = "wait"
    /\ request[c] # "ledgerApi"
    /\ Return(c, "error", {})
    /\ UNCHANGED reported

\* Mutant: only the oldest round is looked at.
ActiveIfOldest(rounds) ==
    {r \in rounds : /\ payload[r] = Fields /\ Opens(r) < now /\ now < Closes(r)
                    /\ \A x \in rounds : r <= x}

\* GetActiveOpenMiningRound and GetClosedMiningRounds skip, without a word, rounds with a
\* time they need missing or malformed, and compare strictly; the first active round the
\* scan lists is returned, or nil.
Active(rounds) == {r \in rounds : payload[r] = Fields /\ Opens(r) < now /\ now < Closes(r)}
Closed(rounds) == {r \in rounds : "targetClosesAt" \in payload[r] /\ Closes(r) < now}

\* GetOpenMiningRounds, with the validator's mapping: all of them, active or not.  One
\* entry without contract, contract id or template id spoils the list.
PickRounds(c) ==
    LET rounds == answer[c] IN
       \/ Return(c, "error", {}) /\ UNCHANGED reported
       \/ Return(c, "rounds", rounds) /\ UNCHANGED reported
       \/ Return(c, "closed", Closed(rounds)) /\ reported' = reported \cup Closed(rounds)
       \/ \E r \in Active(rounds) : Return(c, "active", {r}) /\ UNCHANGED reported
       \/ Active(rounds) = {} /\ Return(c, "nil", {}) /\ UNCHANGED reported

\* A contract without an id is an error, none at all only for GetAmuletRules, GetDSO and
\* GetANSRules; the lookups by party and by name return nil.
PickContract(c) ==
    /\ \E outcome \in {"contract", "absent", "error"} : Return(c, outcome, {})
    /\ UNCHANGED reported

Pick(c) ==
    /\ at[c] = "pick"
    /\ \/ request[c] = "scanProxy" /\ (PickRounds(c) \/ PickContract(c))
       \/ request[c] = "ledgerApi" /\ Return(c, "body", {}) /\ UNCHANGED reported

Step(c) == GetToken(c) \/ GetTokenFails(c) \/ GiveUp(c) \/ Pick(c)

Elsewhere == <<authVars, at, request, began, answer, reported>>

Tick ==
    /\ now < MaxTime
    /\ now' = now + 1
    /\ NothingReturned
    /\ UNCHANGED <<outside, Elsewhere>>

\* The host's clock is set back, once.
StepBack ==
    /\ ~stepped /\ stepped' = TRUE
    /\ now' \in 0..(now - 1)
    /\ NothingReturned
    /\ UNCHANGED <<payload, Elsewhere>>

Next ==
    \/ \E c \in Callers :
         \/ \E r \in Requests : Call(c, r)
         \/ Step(c) \/ Serve(c) \/ Refuse(c)
    \/ Tick \/ StepBack

Spec == Init /\ [][Next]_vars

\* Goroutines run and the HTTP client's timeout fires; the scan may stay silent.
FairSpec == Spec /\ \A c \in Callers : WF_vars(Step(c))
-----------------------------------------------------------------------------
\* Typing.  Goroutines that share the cache without a lock never send the other kind's
\* token, and as long as the clock is not set back no call sends a token that had expired
\* before the call began.
ScanProxyInv ==
    /\ now \in 0..MaxTime
    /\ accessTokens \in [Kinds -> Tokens] /\ token \in [Callers -> Tokens]
    /\ reported \in SUBSET Rounds
    /\ \A c \in Callers :
         at[c] \in {"store", "wait"} =>
             token[c].kind = kind[c] /\ (~stepped => token[c].exp > began[c])

\* The round that is open at time t: the last one to open before it.
Current(t) == (t + TickDuration - 1) \div TickDuration

\* Rounds judged by different calls at different times agree: what one reported as
\* closed no later one returns as active unless the clock was set back, and with rounds
\* that overlap (README.md:396, "Ensure round0Duration > tickDuration") none is found
\* active only if the scan did not show the current round, or not with times that can be
\* read.
RoundWindows ==
    [][\A c \in Callers : Pick(c) =>
          /\ result'.kind = "active" /\ ~stepped => result'.rounds \cap reported = {}
          /\ RoundDuration > TickDuration /\ result'.kind = "nil" =>
                Current(now) \notin answer[c] \/ payload[Current(now)] # Fields]_vars

\* Refuted: nil, without an error, although the scan showed the current round ...
NilMeansNotShown ==
    [][\A c \in Callers : Pick(c) /\ RoundDuration > TickDuration /\ result'.kind = "nil" =>
          Current(now) \notin answer[c]]_vars

\* ... and a closed round that is active again when the clock has been set back.
ClosedStaysClosed ==
    [][\A c \in Callers : Pick(c) /\ result'.kind = "active" => result'.rounds \cap reported = {}]_vars

\* A request to the scan proxy ends, also if the scan never answers.  With the tokens of
\* unsafe.go: the requests of an OAuth provider come before Do and its timeout.
RequestsEnd ==
    \A c \in Callers : at[c] # "idle" /\ request[c] # "ledgerApi" ~> at[c] = "idle"

\* README: `GetOpenMiningRounds(ctx)` lists currently active mining rounds.
ListedRoundsAreActive ==
    [][result'.kind = "rounds" => result'.rounds \subseteq Active(Rounds)]_vars

\* LedgerApi ends if the server never answers.
LedgerApiEnds == \A c \in Callers : at[c] # "idle" ~> at[c] = "idle"
=============================================================================
