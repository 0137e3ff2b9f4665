------------------------- MODULE OAuthControllerProofs -------------------------
(***************************************************************************)
(* Theorems about OAuthController for any sets of callers, kinds, tokens   *)
(* and channels.                                                           *)
(***************************************************************************)
EXTENDS OAuthController, TLAPS

\* A waiter and an owner hold a channel; TypeOK alone is not inductive, as a
\* receive from no channel would leave it.
HoldsChannel ==
    \A c \in Callers : Owner(c) \/ pc[c] = "wait" => chan[c] \in Chans

\* Two kinds never register the same channel.
KindsApart ==
    \A j, k \in Kinds : j # k /\ pendingReqs[j] # NoChan
                         => pendingReqs[j] # pendingReqs[k]

\* Until the owner publishes, its channel is empty.
EmptyUntilPublished ==
    \A c \in Callers :
        pc[c] \in {"fetch", "unregister", "store", "publish"}
        => buffer[chan[c]] = NoToken

\* An owner past the fetch holds the token it fetched.
HoldsToken ==
    \A c \in Callers : pc[c] \in {"store", "publish", "delete"} => token[c] \in Tokens

\* A waiter's channel, registered or abandoned, serves the kind it asked for.
WaitersStayInTheirKind ==
    \A c \in Callers : pc[c] = "wait" =>
        /\ buffer[chan[c]] # NoToken => buffer[chan[c]][1] = kind[c]
        /\ \A k \in Kinds : pendingReqs[k] = chan[c] => kind[c] = k

\* The inductive invariants, each over the one before.
TypeInv == TypeOK /\ HoldsChannel
FlightInv == TypeInv /\ SingleFlight /\ KindsApart /\ EmptyUntilPublished /\ HoldsToken
KindInv == FlightInv /\ WaitersStayInTheirKind /\ TokensStayInTheirKind

\* Initially and after every step the variables are typed and channels are held.
LEMMA TypeInvInit == Init => TypeInv
BY DEF Init, TypeInv, TypeOK, Labels, HoldsChannel, Owner, Owning

LEMMA TypeInvStep == TypeInv /\ [Next]_vars => TypeInv'
<1> SUFFICES ASSUME TypeInv, [Next]_vars PROVE TypeInv'
  OBVIOUS
<1> USE DEF TypeInv, TypeOK, HoldsChannel, Labels, GoTo, Return, shared, Owner, Owning
<1>1. TypeInv'
  <2>1. ASSUME NEW c \in Callers, StartDiscovery(c) PROVE TypeInv'
    BY <2>1 DEF StartDiscovery
  <2>2. ASSUME NEW c \in Callers, EndDiscovery(c) PROVE TypeInv'
    BY <2>2 DEF EndDiscovery
  <2>3. ASSUME NEW c \in Callers, LeaveInit(c) PROVE TypeInv'
    BY <2>3 DEF LeaveInit
  <2>4. ASSUME NEW c \in Callers, LookInCache(c) PROVE TypeInv'
    BY <2>4 DEF LookInCache
  <2>5. ASSUME NEW c \in Callers, NEW ch \in Chans, BecomeOwner(c, ch) PROVE TypeInv'
    BY <2>5 DEF BecomeOwner
  <2>6. ASSUME NEW c \in Callers, JoinPending(c) PROVE TypeInv'
    BY <2>6 DEF JoinPending
  <2>7. ASSUME NEW c \in Callers, Receive(c) PROVE TypeInv'
    BY <2>7 DEF Receive
  <2>8. ASSUME NEW c \in Callers, GiveUp(c) PROVE TypeInv'
    BY <2>8 DEF GiveUp
  <2>9. ASSUME NEW c \in Callers, FetchSucceeds(c) PROVE TypeInv'
    BY <2>9 DEF FetchSucceeds, Tokens
  <2>10. ASSUME NEW c \in Callers, FetchFails(c) PROVE TypeInv'
    BY <2>10 DEF FetchFails
  <2>11. ASSUME NEW c \in Callers, Unregister(c) PROVE TypeInv'
    BY <2>11 DEF Unregister
  <2>12. ASSUME NEW c \in Callers, Store(c) PROVE TypeInv'
    BY <2>12 DEF Store
  <2>13. ASSUME NEW c \in Callers, Publish(c) PROVE TypeInv'
    BY <2>13 DEF Publish
  <2>14. ASSUME NEW c \in Callers, DeletePending(c) PROVE TypeInv'
    BY <2>14 DEF DeletePending
  <2>15. ASSUME NEW c \in Callers, NEW k \in Kinds, Call(c, k) PROVE TypeInv'
    BY <2>15 DEF Call
  <2>16. ASSUME NEW t \in Tokens, Expire(t) PROVE TypeInv'
    BY <2>16 DEF Expire
  <2>17. CASE UNCHANGED vars
    BY <2>17 DEF vars
  <2> QED
    BY <2>1, <2>2, <2>3, <2>4, <2>5, <2>6, <2>7, <2>8, <2>9, <2>10, <2>11, <2>12, <2>13, <2>14, <2>15, <2>16, <2>17 DEF Next, Step
<1> QED BY <1>1

\* The variables of the OAuth controller keep their types in every behaviour.
THEOREM Typing == Spec => []TypeOK
<1>1. TypeInv => TypeOK
  BY DEF TypeInv
<1> QED BY TypeInvInit, TypeInvStep, <1>1, PTL DEF Spec

\* The registration discipline holds initially and every step preserves it.
LEMMA FlightInvInit == Init => FlightInv
BY TypeInvInit DEF FlightInv, SingleFlight, KindsApart, EmptyUntilPublished, HoldsToken, Init, Owner, Owning

LEMMA FlightInvStep == FlightInv /\ [Next]_vars => FlightInv'
<1> SUFFICES ASSUME FlightInv, [Next]_vars PROVE FlightInv'
  OBVIOUS
<1>0. TypeInv /\ TypeInv'
  BY TypeInvStep DEF FlightInv
<1>1. SingleFlight /\ KindsApart /\ EmptyUntilPublished /\ HoldsToken
  BY DEF FlightInv
<1> DEFINE Goal == SingleFlight /\ KindsApart /\ EmptyUntilPublished /\ HoldsToken
<1>2. Goal'
  <2> USE <1>0, <1>1, ChansAssumption DEF TypeInv, TypeOK, HoldsChannel, GoTo, Return,
          shared, Owner, Owning, SingleFlight, KindsApart, EmptyUntilPublished, HoldsToken
  <2>1. ASSUME NEW c \in Callers, StartDiscovery(c) PROVE Goal'
    BY <2>1 DEF StartDiscovery
  <2>2. ASSUME NEW c \in Callers, EndDiscovery(c) PROVE Goal'
    BY <2>2 DEF EndDiscovery
  <2>3. ASSUME NEW c \in Callers, LeaveInit(c) PROVE Goal'
    BY <2>3 DEF LeaveInit
  <2>4. ASSUME NEW c \in Callers, LookInCache(c) PROVE Goal'
    BY <2>4 DEF LookInCache
  <2>5. ASSUME NEW c \in Callers, NEW ch \in Chans, BecomeOwner(c, ch) PROVE Goal'
    BY <2>5 DEF BecomeOwner, Unused
  <2>6. ASSUME NEW c \in Callers, JoinPending(c) PROVE Goal'
    BY <2>6 DEF JoinPending
  <2>7. ASSUME NEW c \in Callers, Receive(c) PROVE Goal'
    BY <2>7 DEF Receive
  <2>8. ASSUME NEW c \in Callers, GiveUp(c) PROVE Goal'
    BY <2>8 DEF GiveUp
  <2>9. ASSUME NEW c \in Callers, FetchSucceeds(c) PROVE Goal'
    BY <2>9 DEF FetchSucceeds, Tokens
  <2>10. ASSUME NEW c \in Callers, FetchFails(c) PROVE Goal'
    BY <2>10 DEF FetchFails
  <2>11. ASSUME NEW c \in Callers, Unregister(c) PROVE Goal'
    BY <2>11 DEF Unregister
  <2>12. ASSUME NEW c \in Callers, Store(c) PROVE Goal'
    BY <2>12 DEF Store
  <2>13. ASSUME NEW c \in Callers, Publish(c) PROVE Goal'
    BY <2>13 DEF Publish
  <2>14. ASSUME NEW c \in Callers, DeletePending(c) PROVE Goal'
    BY <2>14 DEF DeletePending
  <2>15. ASSUME NEW c \in Callers, NEW k \in Kinds, Call(c, k) PROVE Goal'
    BY <2>15 DEF Call
  <2>16. ASSUME NEW t \in Tokens, Expire(t) PROVE Goal'
    BY <2>16 DEF Expire
  <2>17. CASE UNCHANGED vars
    BY <2>17 DEF vars
  <2> QED
    BY <2>1, <2>2, <2>3, <2>4, <2>5, <2>6, <2>7, <2>8, <2>9, <2>10, <2>11, <2>12, <2>13, <2>14, <2>15, <2>16, <2>17 DEF Next, Step
<1> QED BY <1>0, <1>2 DEF FlightInv

\* In no interleaving do two requests of a kind overlap or does an owner touch
\* the registration of another.
THEOREM SingleFlightHolds == Spec => []SingleFlight
<1>1. FlightInv => SingleFlight
  BY DEF FlightInv
<1> QED BY FlightInvInit, FlightInvStep, <1>1, PTL DEF Spec

\* The send on the registered channel never blocks its owner.
THEOREM SendNeverBlocksHolds == Spec => []SendNeverBlocks
<1>1. FlightInv => SendNeverBlocks
  BY ChansAssumption DEF FlightInv, TypeInv, TypeOK, HoldsChannel, SingleFlight, EmptyUntilPublished,
         SendNeverBlocks, Owner, Owning
<1> QED BY FlightInvInit, FlightInvStep, <1>1, PTL DEF Spec

\* Tokens and waiters keep to their kind initially and after every step.
LEMMA KindInvInit == Init => KindInv
BY FlightInvInit DEF KindInv, WaitersStayInTheirKind, TokensStayInTheirKind, Init

LEMMA KindInvStep == KindInv /\ [Next]_vars => KindInv'
<1> SUFFICES ASSUME KindInv, [Next]_vars PROVE KindInv'
  OBVIOUS
<1>0. FlightInv /\ FlightInv'
  BY FlightInvStep DEF KindInv
<1>1. WaitersStayInTheirKind /\ TokensStayInTheirKind
  BY DEF KindInv
<1> DEFINE Goal == WaitersStayInTheirKind /\ TokensStayInTheirKind
<1>2. Goal'
  <2> USE <1>0, <1>1, ChansAssumption DEF FlightInv, TypeInv, TypeOK, HoldsChannel, GoTo,
          Return, shared, Owner, Owning, SingleFlight, KindsApart,
          WaitersStayInTheirKind, TokensStayInTheirKind
  <2>1. ASSUME NEW c \in Callers, StartDiscovery(c) PROVE Goal'
    BY <2>1 DEF StartDiscovery
  <2>2. ASSUME NEW c \in Callers, EndDiscovery(c) PROVE Goal'
    BY <2>2 DEF EndDiscovery
  <2>3. ASSUME NEW c \in Callers, LeaveInit(c) PROVE Goal'
    BY <2>3 DEF LeaveInit
  <2>4. ASSUME NEW c \in Callers, LookInCache(c) PROVE Goal'
    BY <2>4 DEF LookInCache
  <2>5. ASSUME NEW c \in Callers, NEW ch \in Chans, BecomeOwner(c, ch) PROVE Goal'
    BY <2>5 DEF BecomeOwner, Unused
  <2>6. ASSUME NEW c \in Callers, JoinPending(c) PROVE Goal'
    BY <2>6 DEF JoinPending
  <2>7. ASSUME NEW c \in Callers, Receive(c) PROVE Goal'
    BY <2>7 DEF Receive
  <2>8. ASSUME NEW c \in Callers, GiveUp(c) PROVE Goal'
    BY <2>8 DEF GiveUp
  <2>9. ASSUME NEW c \in Callers, FetchSucceeds(c) PROVE Goal'
    BY <2>9 DEF FetchSucceeds, Tokens
  <2>10. ASSUME NEW c \in Callers, FetchFails(c) PROVE Goal'
    BY <2>10 DEF FetchFails
  <2>11. ASSUME NEW c \in Callers, Unregister(c) PROVE Goal'
    BY <2>11 DEF Unregister
  <2>12. ASSUME NEW c \in Callers, Store(c) PROVE Goal'
    BY <2>12 DEF Store
  <2>13. ASSUME NEW c \in Callers, Publish(c) PROVE Goal'
    BY <2>13 DEF Publish
  <2>14. ASSUME NEW c \in Callers, DeletePending(c) PROVE Goal'
    BY <2>14 DEF DeletePending
  <2>15. ASSUME NEW c \in Callers, NEW k \in Kinds, Call(c, k) PROVE Goal'
    BY <2>15 DEF Call
  <2>16. ASSUME NEW t \in Tokens, Expire(t) PROVE Goal'
    BY <2>16 DEF Expire
  <2>17. CASE UNCHANGED vars
    BY <2>17 DEF vars
  <2> QED
    BY <2>1, <2>2, <2>3, <2>4, <2>5, <2>6, <2>7, <2>8, <2>9, <2>10, <2>11, <2>12, <2>13, <2>14, <2>15, <2>16, <2>17 DEF Next, Step
<1> QED BY <1>0, <1>2 DEF KindInv

\* No token crosses from one kind to the other.
THEOREM TokensStayInTheirKindHolds == Spec => []TokensStayInTheirKind
<1>1. KindInv => TokensStayInTheirKind
  BY DEF KindInv
<1> QED BY KindInvInit, KindInvStep, <1>1, PTL DEF Spec

\* The phase of a kind an owner serves is told by that owner's position.
LEMMA OwnersPhase ==
    ASSUME FlightInv, NEW c \in Callers, Owner(c)
    PROVE  PhaseOf(kind[c]) = IF pc[c] \in {"publish", "delete"} THEN "stored" ELSE "open"
BY ChansAssumption DEF FlightInv, TypeInv, TypeOK, HoldsChannel, SingleFlight, Owner, Owning, PhaseOf

\* A step that registers nothing and moves nobody into or out of the positions
\* after a store leaves the abstract request as it is.
LEMMA QuietStep ==
    ASSUME pendingReqs' = pendingReqs, accessTokens' = accessTokens,
           \A d \in Callers : /\ pc'[d] \in {"publish", "delete"}
                                   <=> pc[d] \in {"publish", "delete"}
                              /\ pc[d] \in {"publish", "delete"} => kind'[d] = kind[d]
    PROVE  /\ accessTokens' = accessTokens
           /\ \A k \in Kinds : PhaseOf(k)' = PhaseOf(k)
BY DEF PhaseOf

\* The controller implements TokenRequests: at most one request of a kind at a
\* time, at most one change of the cache per request.
THEOREM Refinement == Spec => ImplementsTokenRequests
<1> DEFINE Abstract == \/ \E k \in Kinds : RequestPhase[k] = "none" /\ RequestPhase' = [RequestPhase EXCEPT ![k] = "open"]
                                           /\ accessTokens' = accessTokens
                       \/ \E k \in Kinds : RequestPhase[k] \in {"open", "stored"}
                                           /\ RequestPhase' = [RequestPhase EXCEPT ![k] = "none"]
                                           /\ accessTokens' = accessTokens
                       \/ \E k \in Kinds, t \in Tokens :
                                           /\ RequestPhase[k] = "open" /\ RequestPhase' = [RequestPhase EXCEPT ![k] = "stored"]
                                           /\ accessTokens' = [accessTokens EXCEPT ![k] = t]
                       \/ RequestPhase' = RequestPhase /\ accessTokens' = accessTokens
<1>1. Init => Requests!Init
  BY DEF Init, Requests!Init, RequestPhase, PhaseOf
<1>2. FlightInv /\ FlightInv' /\ [Next]_vars => Abstract
  <2> SUFFICES ASSUME FlightInv, FlightInv', [Next]_vars PROVE Abstract
    OBVIOUS
  <2>0. TypeOK /\ TypeOK' /\ SingleFlight /\ HoldsChannel /\ HoldsToken
    BY DEF FlightInv, TypeInv
  <2>1. ASSUME NEW c \in Callers, StartDiscovery(c) PROVE Abstract
    BY <2>0, <2>1, QuietStep DEF RequestPhase, StartDiscovery, shared, GoTo, Return, TypeOK
  <2>2. ASSUME NEW c \in Callers, EndDiscovery(c) PROVE Abstract
    BY <2>0, <2>2, QuietStep DEF RequestPhase, EndDiscovery, shared, GoTo, Return, TypeOK
  <2>3. ASSUME NEW c \in Callers, LeaveInit(c) PROVE Abstract
    BY <2>0, <2>3, QuietStep DEF RequestPhase, LeaveInit, shared, GoTo, Return, TypeOK
  <2>4. ASSUME NEW c \in Callers, LookInCache(c) PROVE Abstract
    BY <2>0, <2>4, QuietStep DEF RequestPhase, LookInCache, shared, GoTo, Return, TypeOK
  <2>5. ASSUME NEW c \in Callers, NEW ch \in Chans, BecomeOwner(c, ch) PROVE Abstract
    <3>0. PICK k \in Kinds : k = kind[c]
      BY <2>0 DEF TypeOK
    <3>1. RequestPhase[k] = "none"
      BY <2>0, <2>5, <3>0, OwnersPhase DEF BecomeOwner, Owner, Owning, PhaseOf, RequestPhase, TypeOK
    <3>2. \A j \in Kinds \ {k} : PhaseOf(j)' = PhaseOf(j)
      BY <2>0, <2>5, <3>0 DEF BecomeOwner, PhaseOf, GoTo, Return, TypeOK
    <3>3. PhaseOf(k)' = "open"
      BY <2>0, <2>5, <3>0, ChansAssumption
         DEF BecomeOwner, PhaseOf, GoTo, Return, TypeOK, SingleFlight, HoldsChannel, Owner, Owning
    <3>4. RequestPhase' = [RequestPhase EXCEPT ![k] = "open"]
      BY <3>2, <3>3 DEF RequestPhase
    <3> QED BY <2>0, <2>5, <3>0, <3>1, <3>4 DEF BecomeOwner, TypeOK, HoldsToken
  <2>6. ASSUME NEW c \in Callers, JoinPending(c) PROVE Abstract
    BY <2>0, <2>6, QuietStep DEF RequestPhase, JoinPending, shared, GoTo, Return, TypeOK
  <2>7. ASSUME NEW c \in Callers, Receive(c) PROVE Abstract
    BY <2>0, <2>7, QuietStep DEF RequestPhase, Receive, shared, GoTo, Return, TypeOK
  <2>8. ASSUME NEW c \in Callers, GiveUp(c) PROVE Abstract
    BY <2>0, <2>8, QuietStep DEF RequestPhase, GiveUp, shared, GoTo, Return, TypeOK
  <2>9. ASSUME NEW c \in Callers, FetchSucceeds(c) PROVE Abstract
    BY <2>0, <2>9, QuietStep DEF RequestPhase, FetchSucceeds, shared, GoTo, Return, TypeOK
  <2>10. ASSUME NEW c \in Callers, FetchFails(c) PROVE Abstract
    BY <2>0, <2>10, QuietStep DEF RequestPhase, FetchFails, shared, GoTo, Return, TypeOK
  <2>11. ASSUME NEW c \in Callers, Unregister(c) PROVE Abstract
    <3>0. PICK k \in Kinds : k = kind[c]
      BY <2>0 DEF TypeOK
    <3>1. RequestPhase[k] = "open"
      BY <2>0, <2>11, <3>0, OwnersPhase DEF Unregister, Owner, Owning, PhaseOf, RequestPhase, TypeOK
    <3>2. \A j \in Kinds \ {k} : PhaseOf(j)' = PhaseOf(j)
      BY <2>0, <2>11, <3>0 DEF Unregister, PhaseOf, GoTo, Return, TypeOK
    <3>3. PhaseOf(k)' = "none"
      BY <2>0, <2>11, <3>0, ChansAssumption
         DEF Unregister, PhaseOf, GoTo, Return, TypeOK, SingleFlight, HoldsChannel, Owner, Owning
    <3>4. RequestPhase' = [RequestPhase EXCEPT ![k] = "none"]
      BY <3>2, <3>3 DEF RequestPhase
    <3> QED BY <2>0, <2>11, <3>0, <3>1, <3>4 DEF Unregister, TypeOK, HoldsToken
  <2>12. ASSUME NEW c \in Callers, Store(c) PROVE Abstract
    <3>0. PICK k \in Kinds : k = kind[c]
      BY <2>0 DEF TypeOK
    <3>1. RequestPhase[k] = "open"
      BY <2>0, <2>12, <3>0, OwnersPhase DEF Store, Owner, Owning, PhaseOf, RequestPhase, TypeOK
    <3>2. \A j \in Kinds \ {k} : PhaseOf(j)' = PhaseOf(j)
      BY <2>0, <2>12, <3>0 DEF Store, PhaseOf, GoTo, Return, TypeOK
    <3>3. PhaseOf(k)' = "stored"
      BY <2>0, <2>12, <3>0, ChansAssumption
         DEF Store, PhaseOf, GoTo, Return, TypeOK, SingleFlight, HoldsChannel, Owner, Owning
    <3>4. RequestPhase' = [RequestPhase EXCEPT ![k] = "stored"]
      BY <3>2, <3>3 DEF RequestPhase
    <3> QED BY <2>0, <2>12, <3>0, <3>1, <3>4 DEF Store, TypeOK, HoldsToken
  <2>13. ASSUME NEW c \in Callers, Publish(c) PROVE Abstract
    <3>1. pendingReqs[kind[c]] # NoChan
      BY <2>0, <2>13, ChansAssumption DEF Publish, SingleFlight, HoldsChannel, Owner, Owning
    <3> QED BY <2>0, <2>13, <3>1, QuietStep DEF RequestPhase, Publish, GoTo, TypeOK
  <2>14. ASSUME NEW c \in Callers, DeletePending(c) PROVE Abstract
    <3>0. PICK k \in Kinds : k = kind[c]
      BY <2>0 DEF TypeOK
    <3>1. RequestPhase[k] = "stored"
      BY <2>0, <2>14, <3>0, OwnersPhase DEF DeletePending, Owner, Owning, PhaseOf, RequestPhase, TypeOK
    <3>2. \A j \in Kinds \ {k} : PhaseOf(j)' = PhaseOf(j)
      BY <2>0, <2>14, <3>0 DEF DeletePending, PhaseOf, GoTo, Return, TypeOK
    <3>3. PhaseOf(k)' = "none"
      BY <2>0, <2>14, <3>0, ChansAssumption
         DEF DeletePending, PhaseOf, GoTo, Return, TypeOK, SingleFlight, HoldsChannel, Owner, Owning
    <3>4. RequestPhase' = [RequestPhase EXCEPT ![k] = "none"]
      BY <3>2, <3>3 DEF RequestPhase
    <3> QED BY <2>0, <2>14, <3>0, <3>1, <3>4 DEF DeletePending, TypeOK, HoldsToken
  <2>15. ASSUME NEW c \in Callers, NEW k \in Kinds, Call(c, k) PROVE Abstract
    BY <2>0, <2>15, QuietStep DEF RequestPhase, Call, shared, GoTo, TypeOK
  <2>16. ASSUME NEW t \in Tokens, Expire(t) PROVE Abstract
    BY <2>0, <2>16, QuietStep DEF RequestPhase, Expire
  <2>17. CASE UNCHANGED vars
    BY <2>17, QuietStep DEF RequestPhase, vars
  <2> QED
    BY <2>1, <2>2, <2>3, <2>4, <2>5, <2>6, <2>7, <2>8, <2>9, <2>10, <2>11, <2>12, <2>13, <2>14, <2>15, <2>16, <2>17 DEF Next, Step
<1>3. Abstract => [Requests!Next]_<<accessTokens, RequestPhase>>
  BY DEF Requests!Next, Requests!Open, Requests!Close, Requests!StoreToken
<1> QED
  BY FlightInvInit, FlightInvStep, <1>1, <1>2, <1>3, PTL DEF Spec, ImplementsTokenRequests, Requests!Spec
=============================================================================
