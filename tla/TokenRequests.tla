----------------------------- MODULE TokenRequests -----------------------------
(***************************************************************************)
(* What the token cache of pkg/auth promises, without goroutines or        *)
(* channels: for each kind requests are opened one at a time, an open      *)
(* request stores at most one token, and nothing else changes the cache.   *)
(***************************************************************************)
CONSTANTS Kinds, Tokens, NoToken

VARIABLES
    cached,     \* the token kept for each kind
    phase       \* of each kind's request: "none", "open" or "stored"

Init ==
    /\ cached = [k \in Kinds |-> NoToken]
    /\ phase = [k \in Kinds |-> "none"]

\* A caller finds no request of the kind under way and opens one.
Open(k) ==
    /\ phase[k] = "none"
    /\ phase' = [phase EXCEPT ![k] = "open"]
    /\ UNCHANGED cached

\* The request is answered: the token of its kind replaces the cached one.
StoreToken(k, t) ==
    /\ phase[k] = "open"
    /\ phase' = [phase EXCEPT ![k] = "stored"]
    /\ cached' = [cached EXCEPT ![k] = t]

\* The request ends, answered or failed.
Close(k) ==
    /\ phase[k] \in {"open", "stored"}
    /\ phase' = [phase EXCEPT ![k] = "none"]
    /\ UNCHANGED cached

Next == \E k \in Kinds : Open(k) \/ Close(k) \/ \E t \in Tokens : StoreToken(k, t)

Spec == Init /\ [][Next]_<<cached, phase>>
=============================================================================
