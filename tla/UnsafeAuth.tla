------------------------------- MODULE UnsafeAuth -------------------------------
(***************************************************************************)
(* pkg/auth/unsafe.go behind the AuthTokenProvider of                      *)
(* pkg/auth/provider.go: self-signed tokens, cached for each kind in a     *)
(* sync.Map that callers read and write without taking turns.  Time passes *)
(* between any two steps.                                                  *)
(***************************************************************************)
EXTENDS Integers

CONSTANTS
    Callers,
    Life,       \* one hour
    MaxTime     \* bound on the time modelled

ASSUME LifeAssumption == Life \in Nat \ {0} /\ MaxTime \in Nat

VARIABLES
    now,
    secret,         \* whether unsafeSecret is set
    accessTokens,   \* of each kind
    at,             \* each caller's position
    kind,           \* "admin" or "user": what each caller asks for
    token           \* the token it has

Kinds == {"user", "admin"}
NoToken == [kind |-> "user", exp |-> 0]
Tokens == [kind : Kinds, exp : 0..(MaxTime + Life)]

authVars == <<secret, accessTokens, kind, token>>

AuthInit ==
    /\ now = 0
    /\ secret \in BOOLEAN
    /\ accessTokens = [k \in Kinds |-> NoToken]
    /\ kind \in [Callers -> Kinds]
    /\ token = [c \in Callers |-> NoToken]

GoTo(c, label) == at' = [at EXCEPT ![c] = label]

\* Mutant: a token counts as valid until after its expiry.
IsValidInclusive(t) == now <= t.exp

\* isJWTValid.
IsValid(t) == now < t.exp

\* getOrCreateJWTToken: without a secret an error; a cached token is used while it is
\* valid.
LoadToken(c) ==
    /\ at[c] = "load" /\ secret
    /\ LET cached == accessTokens[kind[c]] IN
       \/ IsValid(cached) /\ GoTo(c, "wait") /\ token' = [token EXCEPT ![c] = cached]
       \/ ~IsValid(cached) /\ GoTo(c, "sign") /\ UNCHANGED token
    /\ UNCHANGED <<now, secret, accessTokens, kind>>

\* A new token, good for an hour.
SignToken(c) ==
    /\ at[c] = "sign"
    /\ token' = [token EXCEPT ![c] = [kind |-> kind[c], exp |-> now + Life]]
    /\ GoTo(c, "store")
    /\ UNCHANGED <<now, secret, accessTokens, kind>>

\* It replaces what is cached, whoever stored that.
StoreToken(c) ==
    /\ at[c] = "store"
    /\ accessTokens' = [accessTokens EXCEPT ![kind[c]] = token[c]]
    /\ GoTo(c, "wait")
    /\ UNCHANGED <<now, secret, kind, token>>
=============================================================================
