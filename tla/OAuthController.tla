---------------------------- MODULE OAuthController ----------------------------
(***************************************************************************)
(* pkg/auth/oauth.go: ClientCredentialOAuthController.  Goroutines call    *)
(* GetUserToken / GetAdminToken concurrently; the first one to miss the    *)
(* cache registers a channel under the kind and fetches the token, later   *)
(* ones wait on the registered channel.  The two methods are the same code *)
(* over the keys "user" and "admin", so one set of actions serves a kind.  *)
(***************************************************************************)
EXTENDS Integers, FiniteSets, TLC

CONSTANTS
    Callers,        \* goroutines; each makes one call at a time, any number in turn
    Deadlined,      \* the callers whose ctx ends; the others pass context.Background()
    Kinds,          \* keys of accessTokens and pendingReqs: "user", "admin"
    Configured,     \* the kinds whose id and secret are set
    Serials,        \* distinguishes tokens of one kind
    Chans,          \* identities of the Go channels in use at one time
    NoToken, NoChan \* a missing map entry, an empty channel, a nil local

ASSUME CallersAssumption == Deadlined \subseteq Callers
ASSUME KindsAssumption == Configured \subseteq Kinds

Tokens == Kinds \X Serials

ASSUME ChansAssumption == NoChan \notin Chans /\ NoToken \notin Tokens

VARIABLES
    once,           \* initOnce: "fresh", "running" or "done"
    initErr,        \* whether initErr is set
    tokenEndpoint,  \* whether tokenEndpoint is non-empty
    accessTokens,   \* the sync.Map of cached tokens
    pendingReqs,    \* the sync.Map of registered channels
    buffer,         \* content of each one-place channel
    valid,          \* the tokens isJWTValid accepts now; opaque tokens never are
    pc, kind, chan, token   \* each caller's position and locals

shared == <<once, initErr, tokenEndpoint, accessTokens, pendingReqs, buffer, valid>>
vars == <<once, initErr, tokenEndpoint, accessTokens, pendingReqs, buffer, valid,
          pc, kind, chan, token>>

Labels == {"idle", "init", "discover", "cache", "join", "wait",
           "fetch", "unregister", "store", "publish", "delete"}

Init ==
    /\ once = "fresh"
    /\ initErr = FALSE
    /\ tokenEndpoint = FALSE
    /\ accessTokens = [k \in Kinds |-> NoToken]
    /\ pendingReqs = [k \in Kinds |-> NoChan]
    /\ buffer = [ch \in Chans |-> NoToken]
    /\ valid = {}
    /\ pc = [c \in Callers |-> "idle"]
    /\ kind \in [Callers -> Kinds]
    /\ chan = [c \in Callers |-> NoChan]
    /\ token = [c \in Callers |-> NoToken]

GoTo(c, label) == pc' = [pc EXCEPT ![c] = label]

\* The call ends: with token t, or with an error when t is NoToken.
Return(c, t) ==
    /\ GoTo(c, "idle")
    /\ token' = [token EXCEPT ![c] = t]
    /\ chan' = [chan EXCEPT ![c] = NoChan]

\* GetUserToken (k = "user") or GetAdminToken (k = "admin") is called.
Call(c, k) ==
    /\ pc[c] = "idle"
    /\ GoTo(c, "init")
    /\ kind' = [kind EXCEPT ![c] = k]
    /\ token' = [token EXCEPT ![c] = NoToken]
    /\ UNCHANGED <<shared, chan>>

\* initOnce.Do: one caller runs the function, the others block until it ends.
StartDiscovery(c) ==
    /\ pc[c] = "init"
    /\ once = "fresh"
    /\ once' = "running"
    /\ GoTo(c, "discover")
    /\ UNCHANGED <<initErr, tokenEndpoint, accessTokens, pendingReqs, buffer, valid,
                   kind, chan, token>>

\* http.Get, the read and the parse: an error is kept for ever, and a document
\* without token_endpoint (an error page in JSON, say) leaves the endpoint empty.
\* The request has neither a timeout nor the caller's ctx: it may never end.
EndDiscovery(c) ==
    /\ pc[c] = "discover"
    /\ once' = "done"
    /\ \E err, found \in BOOLEAN :
          /\ err => ~found
          /\ initErr' = err
          /\ tokenEndpoint' = found
    /\ GoTo(c, "init")
    /\ UNCHANGED <<accessTokens, pendingReqs, buffer, valid, kind, chan, token>>

\* init returns; an error or unset credentials end the call.
LeaveInit(c) ==
    /\ pc[c] = "init"
    /\ once = "done"
    /\ IF initErr \/ kind[c] \notin Configured
       THEN Return(c, NoToken)
       ELSE GoTo(c, "cache") /\ UNCHANGED <<token, chan>>
    /\ UNCHANGED <<shared, kind>>

\* accessTokens.Load and isJWTValid.
LookInCache(c) ==
    /\ pc[c] = "cache"
    /\ IF accessTokens[kind[c]] \in valid
       THEN Return(c, accessTokens[kind[c]])
       ELSE GoTo(c, "join") /\ UNCHANGED <<token, chan>>
    /\ UNCHANGED <<shared, kind>>

\* A channel no goroutine and no map entry refers to: make(chan string, 1).
Unused(ch) ==
    /\ \A c \in Callers : chan[c] # ch
    /\ \A k \in Kinds : pendingReqs[k] # ch

\* Mutant: Load and then Store in place of LoadOrStore.
LoadThenStore(c, ch) ==
    /\ pc[c] = "join"
    /\ Unused(ch)
    /\ pendingReqs' = [pendingReqs EXCEPT ![kind[c]] = ch]
    /\ buffer' = [buffer EXCEPT ![ch] = NoToken]
    /\ chan' = [chan EXCEPT ![c] = ch]
    /\ GoTo(c, "fetch")
    /\ UNCHANGED <<once, initErr, tokenEndpoint, accessTokens, valid, kind, token>>

\* pendingReqs.LoadOrStore stores: the caller owns the request.
BecomeOwner(c, ch) ==
    /\ pc[c] = "join"
    /\ pendingReqs[kind[c]] = NoChan
    /\ Unused(ch)
    /\ pendingReqs' = [pendingReqs EXCEPT ![kind[c]] = ch]
    /\ buffer' = [buffer EXCEPT ![ch] = NoToken]
    /\ chan' = [chan EXCEPT ![c] = ch]
    /\ GoTo(c, "fetch")
    /\ UNCHANGED <<once, initErr, tokenEndpoint, accessTokens, valid, kind, token>>

\* pendingReqs.LoadOrStore loads: the caller waits on the registered channel.
JoinPending(c) ==
    /\ pc[c] = "join"
    /\ pendingReqs[kind[c]] # NoChan
    /\ chan' = [chan EXCEPT ![c] = pendingReqs[kind[c]]]
    /\ GoTo(c, "wait")
    /\ UNCHANGED <<shared, kind, token>>

\* case token := <-pendingPromise: one receive empties the channel.
Receive(c) ==
    /\ pc[c] = "wait"
    /\ buffer[chan[c]] # NoToken
    /\ buffer' = [buffer EXCEPT ![chan[c]] = NoToken]
    /\ Return(c, buffer[chan[c]])
    /\ UNCHANGED <<once, initErr, tokenEndpoint, accessTokens, pendingReqs, valid, kind>>

\* Mutant: ctx is looked at only once a token has arrived.
GiveUpAfterToken(c) ==
    /\ pc[c] = "wait"
    /\ c \in Deadlined
    /\ buffer[chan[c]] # NoToken
    /\ Return(c, NoToken)
    /\ UNCHANGED <<shared, kind>>

\* case <-ctx.Done().
GiveUp(c) ==
    /\ pc[c] = "wait"
    /\ c \in Deadlined
    /\ Return(c, NoToken)
    /\ UNCHANGED <<shared, kind>>

\* fetchToken returns a token: a JWT in date or an opaque one.
FetchSucceeds(c) ==
    /\ pc[c] = "fetch"
    /\ tokenEndpoint
    /\ \E n \in Serials, jwt \in BOOLEAN :
          LET t == <<kind[c], n>> IN
          /\ token' = [token EXCEPT ![c] = t]
          /\ valid' = IF jwt THEN valid \cup {t} ELSE valid
    /\ GoTo(c, "store")
    /\ UNCHANGED <<once, initErr, tokenEndpoint, accessTokens, pendingReqs, buffer,
                   kind, chan>>

\* fetchToken returns an error: an empty endpoint, a refusal, the client's 30 s
\* timeout or the caller's ctx.
FetchFails(c) ==
    /\ pc[c] = "fetch"
    /\ GoTo(c, "unregister")
    /\ UNCHANGED <<shared, kind, chan, token>>

\* Mutants: the failed request is overwritten with an empty value, not deleted; the
\* cached token is dropped with it; it stays registered.
OverwritePending(c) ==
    /\ pc[c] = "unregister"
    /\ pendingReqs' = [pendingReqs EXCEPT ![kind[c]] = NoToken]
    /\ Return(c, NoToken)
    /\ UNCHANGED <<once, initErr, tokenEndpoint, accessTokens, buffer, valid, kind>>

UnregisterAndForget(c) ==
    /\ pc[c] = "unregister"
    /\ pendingReqs' = [pendingReqs EXCEPT ![kind[c]] = NoChan]
    /\ accessTokens' = [accessTokens EXCEPT ![kind[c]] = NoToken]
    /\ Return(c, NoToken)
    /\ UNCHANGED <<once, initErr, tokenEndpoint, buffer, valid, kind>>

LeaveRegistered(c) ==
    /\ pc[c] = "unregister"
    /\ Return(c, NoToken)
    /\ UNCHANGED <<shared, kind>>

\* pendingReqs.Delete on the error path; nothing is sent on the channel.
Unregister(c) ==
    /\ pc[c] = "unregister"
    /\ pendingReqs' = [pendingReqs EXCEPT ![kind[c]] = NoChan]
    /\ Return(c, NoToken)
    /\ UNCHANGED <<once, initErr, tokenEndpoint, accessTokens, buffer, valid, kind>>

\* Mutant: the admin method stores under "user".
StoreUnderUser(c) ==
    /\ pc[c] = "store"
    /\ accessTokens' = [accessTokens EXCEPT !["user"] = token[c]]
    /\ GoTo(c, "publish")
    /\ UNCHANGED <<once, initErr, tokenEndpoint, pendingReqs, buffer, valid,
                   kind, chan, token>>

\* accessTokens.Store.
Store(c) ==
    /\ pc[c] = "store"
    /\ accessTokens' = [accessTokens EXCEPT ![kind[c]] = token[c]]
    /\ GoTo(c, "publish")
    /\ UNCHANGED <<once, initErr, tokenEndpoint, pendingReqs, buffer, valid,
                   kind, chan, token>>

\* Mutant: the token is sent again for a second waiter before the entry is deleted.
PublishToEach(c) ==
    LET ch == pendingReqs[kind[c]] IN
    /\ pc[c] = "publish"
    /\ ch # NoChan
    /\ buffer[ch] = NoToken
    /\ buffer' = [buffer EXCEPT ![ch] = token[c]]
    /\ GoTo(c, IF \E d \in Callers : pc[d] = "wait" THEN "publish" ELSE "delete")
    /\ UNCHANGED <<once, initErr, tokenEndpoint, accessTokens, pendingReqs, valid, kind,
                   chan, token>>

\* pendingReqs.Load, then a send that blocks while the channel is full.
Publish(c) ==
    LET ch == pendingReqs[kind[c]] IN
    /\ pc[c] = "publish"
    /\ IF ch = NoChan
       THEN Return(c, token[c]) /\ UNCHANGED buffer
       ELSE /\ buffer[ch] = NoToken
            /\ buffer' = [buffer EXCEPT ![ch] = token[c]]
            /\ GoTo(c, "delete")
            /\ UNCHANGED <<chan, token>>
    /\ UNCHANGED <<once, initErr, tokenEndpoint, accessTokens, pendingReqs, valid, kind>>

\* pendingReqs.Delete on the success path.
DeletePending(c) ==
    /\ pc[c] = "delete"
    /\ pendingReqs' = [pendingReqs EXCEPT ![kind[c]] = NoChan]
    /\ Return(c, token[c])
    /\ UNCHANGED <<once, initErr, tokenEndpoint, accessTokens, buffer, valid, kind>>

\* Time passes the exp claim of a token.
Expire(t) ==
    /\ t \in valid
    /\ valid' = valid \ {t}
    /\ UNCHANGED <<once, initErr, tokenEndpoint, accessTokens, pendingReqs, buffer,
                   pc, kind, chan, token>>

\* The steps a caller takes by itself once its requests are answered.
Step(c) ==
    \/ StartDiscovery(c) \/ LeaveInit(c) \/ LookInCache(c)
    \/ \E ch \in Chans : BecomeOwner(c, ch)
    \/ JoinPending(c) \/ Receive(c) \/ GiveUp(c)
    \/ FetchSucceeds(c) \/ FetchFails(c) \/ Unregister(c)
    \/ Store(c) \/ Publish(c) \/ DeletePending(c)

Next ==
    \/ \E c \in Callers : Step(c) \/ EndDiscovery(c) \/ \E k \in Kinds : Call(c, k)
    \/ \E t \in Tokens : Expire(t)

Spec == Init /\ [][Next]_vars

\* Goroutines are scheduled, a ctx with a deadline ends and the token request has
\* a 30 s timeout; nothing bounds the discovery request (EndDiscovery) and nobody
\* is obliged to call.
FairSpec == Spec /\ \A c \in Callers : WF_vars(Step(c))
-----------------------------------------------------------------------------
\* Every variable and local stays in its type.
TypeOK ==
    /\ once \in {"fresh", "running", "done"}
    /\ initErr \in BOOLEAN
    /\ tokenEndpoint \in BOOLEAN
    /\ accessTokens \in [Kinds -> Tokens \cup {NoToken}]
    /\ pendingReqs \in [Kinds -> Chans \cup {NoChan}]
    /\ buffer \in [Chans -> Tokens \cup {NoToken}]
    /\ valid \in SUBSET Tokens
    /\ pc \in [Callers -> Labels]
    /\ kind \in [Callers -> Kinds]
    /\ chan \in [Callers -> Chans \cup {NoChan}]
    /\ token \in [Callers -> Tokens \cup {NoToken}]

Owning == {"fetch", "unregister", "store", "publish", "delete"}
Owner(c) == pc[c] \in Owning

\* Among all interleavings of LoadOrStore, the two Deletes and the second Load
\* (lines 152, 169, 175, 177), a kind never has two requests under way, and the
\* entry an owner reloads or deletes is the one it registered itself.
SingleFlight ==
    /\ \A c, d \in Callers :
          Owner(c) /\ Owner(d) /\ kind[c] = kind[d] => c = d
    /\ \A c \in Callers : Owner(c) => pendingReqs[kind[c]] = chan[c]

\* The send at line 176 / 232 finds its one-place channel empty, so the owner is
\* never stuck in it while the registration blocks everyone else.
SendNeverBlocks ==
    \A c \in Callers :
        pc[c] = "publish" => pendingReqs[kind[c]] # NoChan
                             /\ buffer[pendingReqs[kind[c]]] = NoToken

\* A user token never reaches a caller that asked for an admin token or the
\* other way round, through the cache, a local or a shared channel.
TokensStayInTheirKind ==
    /\ \A c \in Callers : token[c] # NoToken => token[c][1] = kind[c]
    /\ \A k \in Kinds : accessTokens[k] # NoToken => accessTokens[k][1] = k
    /\ \A k \in Kinds : pendingReqs[k] # NoChan /\ buffer[pendingReqs[k]] # NoToken
                        => buffer[pendingReqs[k]][1] = k

\* A registration is always taken back, whatever the endpoint answers: a kind is
\* not blocked for ever.
RegistrationIsCleared ==
    \A k \in Kinds : pendingReqs[k] # NoChan ~> pendingReqs[k] = NoChan

\* A caller with a deadline that got past discovery always returns, whatever
\* happens to the owner it waits for.
DeadlinedCallsReturn ==
    \A c \in Deadlined : pc[c] = "cache" ~> pc[c] = "idle"

\* README: `GetUserAccessToken(ctx)` gets the current user JWT.  A caller that
\* waits for a pending request gets an answer, with or without a deadline.
WaitersAreAnswered ==
    \A c \in Callers : pc[c] = "wait" ~> pc[c] = "idle"

\* The same for a caller whose request has been answered: its owner fetched the
\* token and the token is in the channel the caller receives from.
AnsweredWaitersReturn ==
    \A c \in Callers :
        pc[c] = "wait" /\ buffer[chan[c]] # NoToken ~> pc[c] = "idle"

\* Goroutines, maps and channels seen as TokenRequests: a registered kind has a
\* request, and it is stored once its owner has passed accessTokens.Store.
PhaseOf(k) ==
    IF pendingReqs[k] = NoChan THEN "none"
    ELSE IF \E c \in Callers : kind[c] = k /\ pc[c] \in {"publish", "delete"}
         THEN "stored" ELSE "open"

RequestPhase == [k \in Kinds |-> PhaseOf(k)]

Requests == INSTANCE TokenRequests WITH cached <- accessTokens, phase <- RequestPhase

\* Each kind's cache entry changes at most once per request, only while that
\* request is registered, and requests of a kind do not overlap.
ImplementsTokenRequests == Requests!Spec
=============================================================================
