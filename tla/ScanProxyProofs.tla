---------------------------- MODULE ScanProxyProofs ----------------------------
(***************************************************************************)
(* Proofs about ScanProxy for any callers, token life and round durations: *)
(* no expired token and no token of the other kind is sent, and the        *)
(* judgements of the round windows agree.                                  *)
(***************************************************************************)
EXTENDS ScanProxy, TLAPS

Labels == {"idle", "load", "sign", "store", "wait", "pick"}

\* Typing of the callers' variables and of what they share.
Typed ==
    /\ now \in 0..MaxTime
    /\ accessTokens \in [Kinds -> Tokens]
    /\ at \in [Callers -> Labels]
    /\ kind \in [Callers -> Kinds]
    /\ token \in [Callers -> Tokens]
    /\ began \in [Callers -> 0..MaxTime]
    /\ reported \in SUBSET Rounds
    /\ answer \in [Callers -> SUBSET Rounds]

\* What the cache and the callers hold, and, until the clock is set back, since when.
CacheSorted == \A k \in Kinds : accessTokens[k].exp > 0 => accessTokens[k].kind = k
BegunBefore == ~stepped => \A c \in Callers : began[c] <= now
Sendable ==
    \A c \in Callers :
        at[c] \in {"store", "wait"} => token[c].kind = kind[c] /\ (~stepped => token[c].exp > began[c])
ReportedClosed == ~stepped => \A r \in reported : Closes(r) < now

Inv == Typed /\ CacheSorted /\ BegunBefore /\ Sendable /\ ReportedClosed

-----------------------------------------------------------------------------
\* A round's window has integer ends: (r - 1) * TickDuration and the closing time.
LEMMA Windows == \A r \in Rounds : Opens(r) \in Int /\ Closes(r) \in Int
<1>1. ASSUME NEW r \in Rounds PROVE Opens(r) \in Int
  <2>1. r \in Int /\ TickDuration \in Int
    BY <1>1, DurationAssumption DEF Rounds
  <2>2. QED BY <2>1 DEF Opens
<1>2. QED BY <1>1, DurationAssumption DEF Closes

\* The tokens UnsafeAuth signs are typed, and no token is the empty one.
LEMMA TokenTypes ==
    /\ NoToken \in Tokens
    /\ \A k \in Kinds, t \in 0..MaxTime :
         [kind |-> k, exp |-> t + Life] \in Tokens /\ t + Life > t
BY LifeAssumption DEF NoToken, Tokens, Kinds

\* A method that returns clears its caller's variables and may report closed rounds.
LEMMA ReturnKeeps ==
    ASSUME Inv, NEW c \in Callers, NEW k, NEW rounds, Return(c, k, rounds),
           reported' \in SUBSET Rounds, ~stepped => \A r \in reported' : Closes(r) < now
    PROVE  Inv'
<1>1. /\ now' = now /\ accessTokens' = accessTokens /\ kind' = kind /\ stepped' = stepped
      /\ at' = [at EXCEPT ![c] = "idle"]
      /\ token' = [token EXCEPT ![c] = NoToken]
      /\ began' = [began EXCEPT ![c] = 0]
      /\ answer' = [answer EXCEPT ![c] = {}]
  BY DEF Return, GoTo, outside
<1>2. Typed'
  BY <1>1, TokenTypes, LifeAssumption DEF Inv, Typed, Labels
<1>3. CacheSorted' /\ ReportedClosed'
  BY <1>1 DEF Inv, CacheSorted, ReportedClosed, Closes, Opens
<1>4. BegunBefore'
  BY <1>1 DEF Inv, Typed, BegunBefore
<1>5. Sendable'
  BY <1>1 DEF Inv, Typed, Sendable
<1>6. QED BY <1>2, <1>3, <1>4, <1>5 DEF Inv

\* A caller that gets a token: it takes one of its kind that is still good, or signs one.
LEMMA TokensKeep ==
    ASSUME Inv, NEW c \in Callers, LoadToken(c) \/ SignToken(c) \/ StoreToken(c),
           UNCHANGED <<stepped, began, answer, reported>>
    PROVE  Inv'
<1> USE DEF Inv
<1>a. now \in Nat /\ kind[c] \in Kinds /\ accessTokens[kind[c]] \in Tokens
  BY LifeAssumption DEF Typed
<1>1. CASE LoadToken(c)
  <2> DEFINE cached == accessTokens[kind[c]]
  <2>1. CASE IsValid(cached) /\ GoTo(c, "wait") /\ token' = [token EXCEPT ![c] = cached]
    <3>1. cached.kind = kind[c] /\ (~stepped => cached.exp > began[c])
      BY <1>a, <2>1 DEF IsValid, CacheSorted, BegunBefore, Typed, Tokens
    <3>2. Typed'
      BY <1>1, <1>a, <2>1 DEF LoadToken, GoTo, Typed, Labels
    <3>3. Sendable'
      BY <1>1, <2>1, <3>1 DEF LoadToken, GoTo, Typed, Sendable
    <3>4. QED BY <1>1, <3>2, <3>3 DEF LoadToken, CacheSorted, BegunBefore, ReportedClosed,
                                      Closes, Opens
  <2>2. CASE GoTo(c, "sign") /\ UNCHANGED token
    <3>1. Typed'
      BY <1>1, <2>2 DEF LoadToken, GoTo, Typed, Labels
    <3>2. Sendable'
      BY <1>1, <2>2 DEF LoadToken, GoTo, Typed, Sendable
    <3>3. QED BY <1>1, <3>1, <3>2 DEF LoadToken, CacheSorted, BegunBefore, ReportedClosed,
                                      Closes, Opens
  <2>3. QED BY <1>1, <2>1, <2>2 DEF LoadToken
<1>2. CASE SignToken(c)
  <2>1. [kind |-> kind[c], exp |-> now + Life] \in Tokens /\ now + Life > now
    BY <1>a, TokenTypes DEF Typed
  <2>2. Typed'
    BY <1>2, <2>1 DEF SignToken, GoTo, Typed, Labels
  <2>3. Sendable'
    <3>1. ~stepped => now + Life > began[c]
      BY <1>a, <2>1, LifeAssumption DEF BegunBefore, Typed
    <3>2. QED BY <1>2, <3>1 DEF SignToken, GoTo, Typed, Sendable
  <2>4. QED BY <1>2, <2>2, <2>3 DEF SignToken, CacheSorted, BegunBefore, ReportedClosed,
                                    Closes, Opens
<1>3. CASE StoreToken(c)
  <2>1. token[c].kind = kind[c]
    BY <1>3 DEF StoreToken, Sendable
  <2>2. Typed'
    BY <1>3, <1>a DEF StoreToken, GoTo, Typed, Labels
  <2>3. CacheSorted'
    BY <1>3, <1>a, <2>1 DEF StoreToken, CacheSorted, Typed
  <2>4. Sendable'
    BY <1>3 DEF StoreToken, GoTo, Typed, Sendable
  <2>5. QED BY <1>3, <2>2, <2>3, <2>4 DEF StoreToken, BegunBefore, ReportedClosed, Closes, Opens
<1>4. QED BY <1>1, <1>2, <1>3

\* The rounds a method reports as closed have closed.
LEMMA PicksKeep == ASSUME Inv, NEW c \in Callers, Pick(c) PROVE Inv'
<1>1. answer[c] \in SUBSET Rounds /\ reported \in SUBSET Rounds
      /\ (~stepped => \A r \in reported : Closes(r) < now)
  BY DEF Inv, Typed, ReportedClosed
<1>2. Closed(answer[c]) \in SUBSET Rounds /\ \A r \in Closed(answer[c]) : Closes(r) < now
  BY <1>1 DEF Closed
<1>3. /\ \E k, rounds : Return(c, k, rounds)
      /\ reported' = reported \/ reported' = reported \cup Closed(answer[c])
  BY DEF Pick, PickRounds, PickContract
<1>4. PICK k, rounds : Return(c, k, rounds)
  BY <1>3
<1>5. reported' \in SUBSET Rounds /\ (~stepped => \A r \in reported' : Closes(r) < now)
  BY <1>1, <1>2, <1>3
<1>6. QED BY <1>4, <1>5, ReturnKeeps

\* Every step preserves the invariant.
LEMMA Inductive == Inv /\ [Next]_vars => Inv'
<1> SUFFICES ASSUME Inv, [Next]_vars PROVE Inv'
  OBVIOUS
<1>0. reported \in SUBSET Rounds /\ (~stepped => \A r \in reported : Closes(r) < now)
  BY DEF Inv, Typed, ReportedClosed
<1>1. ASSUME NEW c \in Callers, NEW r \in Requests, Call(c, r) PROVE Inv'
  <2>1. /\ at' = [at EXCEPT ![c] = "load"] /\ began' = [began EXCEPT ![c] = now]
        /\ UNCHANGED <<now, secret, accessTokens, kind, token, stepped, answer, reported>>
    BY <1>1 DEF Call, GoTo, authVars, outside
  <2>2. Typed'
    BY <2>1 DEF Inv, Typed, Labels
  <2>3. BegunBefore'
    BY <2>1, LifeAssumption DEF Inv, Typed, BegunBefore
  <2>4. Sendable'
    BY <2>1 DEF Inv, Typed, Sendable
  <2>5. QED BY <2>1, <2>2, <2>3, <2>4 DEF Inv, CacheSorted, ReportedClosed, Closes, Opens
<1>2. ASSUME NEW c \in Callers, GetToken(c) PROVE Inv'
  BY <1>2, TokensKeep DEF GetToken, outside
<1>3. ASSUME NEW c \in Callers, GetTokenFails(c) \/ GiveUp(c) \/ Refuse(c) PROVE Inv'
  <2>1. reported' = reported /\ \E k : Return(c, k, {})
    BY <1>3 DEF GetTokenFails, GiveUp, Refuse
  <2>2. PICK k : Return(c, k, {})
    BY <2>1
  <2>3. QED BY <1>0, <2>1, <2>2, ReturnKeeps
<1>4. ASSUME NEW c \in Callers, Pick(c) PROVE Inv'
  BY <1>4, PicksKeep
<1>5. ASSUME NEW c \in Callers, Serve(c) PROVE Inv'
  <2>1. /\ \E rounds \in SUBSET Rounds : answer' = [answer EXCEPT ![c] = rounds]
        /\ token' = [token EXCEPT ![c] = NoToken]
        /\ began' = [began EXCEPT ![c] = 0] /\ at' = [at EXCEPT ![c] = "pick"]
        /\ UNCHANGED <<now, secret, accessTokens, kind, stepped, reported>>
    <3>1. /\ token' = [token EXCEPT ![c] = NoToken]
          /\ began' = [began EXCEPT ![c] = 0] /\ at' = [at EXCEPT ![c] = "pick"]
          /\ UNCHANGED <<now, secret, accessTokens, kind, stepped, reported>>
      BY <1>5 DEF Serve, GoTo, outside
    <3>2. CASE UNCHANGED answer
      <4>1. answer' = [answer EXCEPT ![c] = answer[c]] /\ answer[c] \in SUBSET Rounds
        BY <3>2 DEF Inv, Typed
      <4> QED BY <3>1, <4>1
    <3>3. CASE \E newest \in Rounds : \E oldest \in 0..newest :
                 answer' = [answer EXCEPT ![c] = oldest..newest]
      <4>1. PICK newest \in Rounds :
               \E oldest \in 0..newest : answer' = [answer EXCEPT ![c] = oldest..newest]
        BY <3>3
      <4>2. PICK oldest \in 0..newest : answer' = [answer EXCEPT ![c] = oldest..newest]
        BY <4>1
      <4>3. oldest..newest \in SUBSET Rounds
        BY DurationAssumption DEF Rounds
      <4> QED BY <3>1, <4>2, <4>3
    <3> QED BY <1>5, <3>1, <3>2, <3>3 DEF Serve
  <2>2. Typed'
    BY <2>1, TokenTypes, LifeAssumption DEF Inv, Typed, Labels
  <2>3. BegunBefore'
    BY <2>1 DEF Inv, Typed, BegunBefore
  <2>4. Sendable'
    BY <2>1 DEF Inv, Typed, Sendable
  <2>5. QED BY <2>1, <2>2, <2>3, <2>4 DEF Inv, CacheSorted, ReportedClosed, Closes, Opens
<1>6. CASE Tick
  <2>1. now < MaxTime /\ now' = now + 1
        /\ UNCHANGED <<secret, accessTokens, kind, token, at, began, answer, reported, stepped>>
    BY <1>6 DEF Tick, Elsewhere, authVars, outside
  <2>2. Typed'
    BY <2>1, LifeAssumption DEF Inv, Typed
  <2>3. BegunBefore'
    BY <2>1, LifeAssumption DEF Inv, Typed, BegunBefore
  <2>4. ReportedClosed'
    <3>1. ASSUME NEW r \in reported, ~stepped PROVE Closes(r) < now + 1
      <4>1. r \in Rounds /\ Closes(r) \in Int /\ now \in Int
        BY <1>0, Windows DEF Inv, Typed
      <4>2. QED BY <1>0, <3>1, <4>1
    <3>2. QED BY <2>1, <3>1 DEF ReportedClosed, Closes, Opens
  <2>5. QED BY <2>1, <2>2, <2>3, <2>4 DEF Inv, CacheSorted, Sendable
<1>7. CASE StepBack
  <2>1. now' \in 0..(now - 1) /\ stepped' = TRUE
        /\ UNCHANGED <<secret, accessTokens, kind, token, at, began, answer, reported>>
    BY <1>7 DEF StepBack, Elsewhere, authVars
  <2>2. Typed'
    BY <2>1, LifeAssumption DEF Inv, Typed
  <2>3. QED BY <2>1, <2>2 DEF Inv, CacheSorted, BegunBefore, Sendable, ReportedClosed
<1>8. CASE UNCHANGED vars
  BY <1>8 DEF vars, outside, Inv, Typed, CacheSorted, BegunBefore, Sendable, ReportedClosed, Closes, Opens
<1>9. QED BY <1>1, <1>2, <1>3, <1>4, <1>5, <1>6, <1>7, <1>8 DEF Next, Step

LEMMA Initially == Init => Inv
<1> SUFFICES ASSUME Init PROVE Inv
  OBVIOUS
<1>1. Typed
  BY TokenTypes, LifeAssumption, DurationAssumption
  DEF Init, AuthInit, Typed, Labels, Rounds
<1>2. QED BY <1>1, LifeAssumption DEF Init, AuthInit, Inv, CacheSorted, BegunBefore, Sendable,
                                      ReportedClosed, NoToken

LEMMA InvHolds == Spec => []Inv
BY Initially, Inductive, PTL DEF Spec

\* Whatever the callers, the life of a token and the time modelled: no call sends the
\* other kind's token or, until the clock is set back, one that had expired before the
\* call began.
THEOREM ScanProxyInvHolds == Spec => []ScanProxyInv
<1>1. Inv => ScanProxyInv
  BY DEF Inv, Typed, Sendable, ScanProxyInv
<1>2. QED BY InvHolds, <1>1, PTL

-----------------------------------------------------------------------------
\* The round that is open at time t opens before t and closes after it, when rounds
\* overlap.
LEMMA CurrentIsActive ==
    ASSUME NEW t \in Nat, RoundDuration > TickDuration
    PROVE  Opens(Current(t)) < t /\ t < Closes(Current(t))
<1> DEFINE D == TickDuration
           q == Current(t)
<1>1. D \in Nat /\ D > 0 /\ RoundDuration \in Nat
  BY DurationAssumption
<1>2. q \in Int /\ q * D \in Int /\ q * D <= t + D - 1 /\ t + D - 1 < q * D + D
  BY <1>1 DEF Current
<1>3. Opens(q) = q * D - D
  BY <1>1, <1>2 DEF Opens
<1> HIDE DEF D, q
<1>4. Opens(q) < t /\ t < Opens(q) + RoundDuration
  BY <1>1, <1>2, <1>3 DEF D
<1>5. QED BY <1>4 DEF Closes, q

\* For all durations of ticks and rounds and whatever times the rounds' payloads lack: what
\* one call reported as closed no later one returns as active until the clock is set back,
\* and none is found active only if the current round was not shown with both its times.
THEOREM RoundWindowsHolds == Spec => RoundWindows
<1> DEFINE Agrees(c) ==
      Pick(c) =>
          /\ result'.kind = "active" /\ ~stepped => result'.rounds \cap reported = {}
          /\ RoundDuration > TickDuration /\ result'.kind = "nil" =>
                Current(now) \notin answer[c] \/ payload[Current(now)] # Fields
<1>1. ASSUME Inv, NEW c \in Callers, Pick(c), result'.kind = "active", ~stepped
      PROVE  result'.rounds \cap reported = {}
  <2>1. PICK r \in Active(answer[c]) : result'.rounds = {r}
    BY <1>1 DEF Pick, PickRounds, PickContract, Return
  <2>2. r \in Rounds /\ now < Closes(r) /\ Closes(r) \in Int /\ now \in Int
    BY <1>1, <2>1, Windows DEF Inv, Typed, Active
  <2>3. r \notin reported
    BY <1>1, <2>2 DEF Inv, ReportedClosed
  <2>4. QED BY <2>1, <2>3
<1>2. ASSUME Inv, NEW c \in Callers, Pick(c), RoundDuration > TickDuration, result'.kind = "nil"
      PROVE  Current(now) \notin answer[c] \/ payload[Current(now)] # Fields
  <2>1. Active(answer[c]) = {}
    BY <1>2 DEF Pick, PickRounds, PickContract, Return
  <2>2. now \in Nat
    BY <1>2, LifeAssumption DEF Inv, Typed
  <2>3. Opens(Current(now)) < now /\ now < Closes(Current(now))
    BY <1>2, <2>2, CurrentIsActive
  <2>4. QED BY <2>1, <2>3 DEF Active
<1>3. Inv /\ [Next]_vars => [\A c \in Callers : Agrees(c)]_vars
  BY <1>1, <1>2
<1>4. QED BY InvHolds, <1>3, PTL DEF Spec, RoundWindows
=============================================================================
