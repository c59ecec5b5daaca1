------------------------------ MODULE KeyCache ------------------------------
(***************************************************************************)
(* Verification of provider ID tokens (internal/auth/apple.go and its twin *)
(* google.go): the signing key a token names is taken from a cache of the  *)
(* provider's key set, which is fetched again when the key is missing or   *)
(* the set is an hour old.  The mutex is held for the two looks at the     *)
(* cache and for its replacement, not during the fetch, so that fetches of *)
(* several sign-ins overlap.                                               *)
(*                                                                         *)
(* The provider's clock and the gateway's advance in ticks.  Ages are      *)
(* counted up to the point where nothing depends on them any more.         *)
(***************************************************************************)
EXTENDS Requests

CONSTANTS
    Kids,           \* key ids of the provider, past and future
    FirstKids,      \* those it publishes at first
    IdTokens,       \* what apps send: records of kid and claims, see below
    Provider,       \* "apple" or "google"
    AppleIssuer, GoogleIssuers,
    Audiences,      \* the gateway's client ids
    TTL,            \* appleCacheTTL, googleCacheTTL, in ticks
    Fetch,          \* the timeout of the HTTP client, in ticks
    MaxRotations    \* bound: changes of the published set

ASSUME KeyCacheAssumption ==
    /\ FirstKids \subseteq Kids
    /\ \A t \in IdTokens : t.kid \in Kids
    /\ Provider \in {"apple", "google"}
    /\ TTL \in Nat \ {0} /\ Fetch \in Nat
    /\ MaxRotations \in Nat
    /\ None \notin IdTokens

VARIABLES
    published,  \* the keys the provider publishes
    withdrawn,  \* ticks since it withdrew a key (0 for a key it publishes)
    rotations,  \* changes of the published set so far
    keys,       \* the cached set
    age,        \* ticks since keysFetch
    pc,         \* where a verification is
    token,      \* the token it verifies
    wait,       \* ticks since it sent its fetch
    answer,     \* the key set the provider answered
    \* History variables, which no guard reads:
    steady,     \* verifications whose key has been published since they began
    overrun     \* those whose fetched set another replaced before they looked

provider == <<published, withdrawn, rotations>>
cache == <<keys, age>>
verifying == <<pc, token, wait, answer>>
cacheVars == <<provider, cache, verifying, steady, overrun>>

Steps == {"idle", "fetch", "store", "lookup", "verified"}
Horizon == TTL + Fetch

CacheTypeOK ==
    /\ published \subseteq Kids
    /\ withdrawn \in [Kids -> 0 .. Horizon]
    /\ rotations \in 0 .. MaxRotations
    /\ keys \subseteq Kids
    /\ age \in 0 .. TTL
    /\ pc \in [Reqs -> Steps]
    /\ token \in [Reqs -> IdTokens \cup {None}]
    /\ \A r \in Reqs : pc[r] # "idle" => token[r] \in IdTokens
    /\ wait \in [Reqs -> 0 .. Fetch]
    /\ answer \in [Reqs -> SUBSET Kids]
    /\ steady \subseteq Reqs
    /\ overrun \subseteq Reqs

CacheInit ==
    /\ published = FirstKids
    /\ withdrawn = [k \in Kids |-> 0]
    /\ rotations = 0
    /\ keys = {}
    /\ age = TTL
    /\ pc = [r \in Reqs |-> "idle"]
    /\ token = [r \in Reqs |-> None]
    /\ wait = [r \in Reqs |-> 0]
    /\ answer = [r \in Reqs |-> {}]
    /\ steady = {}
    /\ overrun = {}

-----------------------------------------------------------------------------
(* The claims of a token whose signature is good.                          *)

audienceAllowed(t) == t.aud \cap Audiences # {}

\* Issuer, expiry, audience and subject.
AppleClaims(t) ==
    t.iss = AppleIssuer /\ t.fresh /\ audienceAllowed(t) /\ t.sub # None

\* Google sign-in is off without client ids.
GoogleClaims(t) ==
    /\ Audiences # {}
    /\ t.iss \in GoogleIssuers /\ t.fresh /\ audienceAllowed(t) /\ t.sub # None

Claims(t) == IF Provider = "apple" THEN AppleClaims(t) ELSE GoogleClaims(t)

-----------------------------------------------------------------------------
(* A verification.                                                         *)

Settle(r, step, t) ==
    /\ pc' = [pc EXCEPT ![r] = step]
    /\ token' = [token EXCEPT ![r] = t]
    /\ wait' = [wait EXCEPT ![r] = 0]
    /\ answer' = [answer EXCEPT ![r] = {}]
    /\ steady' = steady \ {r}
    /\ overrun' = overrun \ {r}

\* It is over and its request is answered.
Leave(r) == Settle(r, "idle", None)

\* The key is known: the claims decide.
Judge(r, t) == IF Claims(t) THEN Settle(r, "verified", t) ELSE Leave(r)

\* Mutant: the set never ages.
M_Fresh == TRUE

Fresh == age < TTL

\* The key is looked up or fetched before it is looked at again.
Await(r, t, step) ==
    /\ pc' = [pc EXCEPT ![r] = step]
    /\ token' = [token EXCEPT ![r] = t]
    /\ steady' = IF t.kid \in published THEN steady \cup {r} ELSE steady
    /\ UNCHANGED <<wait, answer, overrun>>

\* Mutant: a fresh set is taken at its word.
M_KeyFor(r, t) ==
    /\ pc[r] = "idle"
    /\ \/ t.kid \in keys /\ Fresh /\ Judge(r, t)
       \/ ~ Fresh /\ Await(r, t, "fetch")
       \/ t.kid \notin keys /\ Fresh /\ Await(r, t, "lookup")
    /\ UNCHANGED <<provider, cache>>

\* keyFor, the first look: a token arrives and its key is in a fresh set, or
\* the set is fetched.
KeyFor(r, t) ==
    /\ pc[r] = "idle"
    /\ \/ t.kid \in keys /\ Fresh /\ Judge(r, t)
       \/ ~ (t.kid \in keys /\ Fresh) /\ Await(r, t, "fetch")
    /\ UNCHANGED <<provider, cache>>

\* The provider answers with what it publishes at this moment.
ProviderAnswers(r) ==
    /\ pc[r] = "fetch"
    /\ answer' = [answer EXCEPT ![r] = published]
    /\ pc' = [pc EXCEPT ![r] = "store"]
    /\ UNCHANGED <<provider, cache, token, wait, steady, overrun>>

\* No answer within the timeout, another status, a torn or senseless body.
FetchFails(r) ==
    /\ pc[r] \in {"fetch", "store"}
    /\ Leave(r)
    /\ UNCHANGED <<provider, cache>>

\* refreshKeys: the set is replaced, whatever came in meanwhile.
Store(r) ==
    /\ pc[r] = "store"
    /\ keys' = answer[r]
    /\ age' = 0
    /\ pc' = [pc EXCEPT ![r] = "lookup"]
    /\ wait' = [wait EXCEPT ![r] = 0]
    /\ answer' = [answer EXCEPT ![r] = {}]
    /\ overrun' = overrun \cup {q \in Reqs \ {r} : pc[q] = "lookup"}
    /\ UNCHANGED <<provider, token, steady>>

\* keyFor, the second look, which does not ask for the age.
Lookup(r) ==
    /\ pc[r] = "lookup"
    /\ IF token[r].kid \in keys THEN Judge(r, token[r]) ELSE Leave(r)
    /\ UNCHANGED <<provider, cache>>

Verifying(r) ==
    \/ \E t \in IdTokens : KeyFor(r, t)
    \/ ProviderAnswers(r) \/ FetchFails(r) \/ Store(r) \/ Lookup(r)

-----------------------------------------------------------------------------
(* The provider and the clock.                                             *)

Publish(k) ==
    /\ k \notin published
    /\ published' = published \cup {k}
    /\ withdrawn' = [withdrawn EXCEPT ![k] = 0]
    /\ UNCHANGED <<cache, verifying, steady, overrun>>

Withdraw(k) ==
    /\ k \in published
    /\ published' = published \ {k}
    /\ steady' = {r \in steady : token[r].kid # k}
    /\ UNCHANGED <<withdrawn, cache, verifying, overrun>>

Rotate ==
    /\ rotations < MaxRotations
    /\ rotations' = rotations + 1
    /\ \E k \in Kids : Publish(k) \/ Withdraw(k)

\* A tick longer, up to a limit.
Older(n, limit) == IF n < limit THEN n + 1 ELSE n

Fetching(r) == pc[r] \in {"fetch", "store"}

\* The HTTP client gives up after its timeout, so no tick passes a fetch that
\* has waited that long; the steps without I/O take no time.
Tick ==
    /\ \A r \in Reqs : pc[r] = "idle" \/ (Fetching(r) /\ wait[r] < Fetch)
    /\ age' = Older(age, TTL)
    /\ withdrawn' = [k \in Kids |-> IF k \in published THEN 0
                                    ELSE Older(withdrawn[k], Horizon)]
    /\ wait' = [r \in Reqs |-> IF Fetching(r) THEN wait[r] + 1 ELSE 0]
    /\ UNCHANGED <<published, rotations, keys, pc, token, answer, steady, overrun>>

\* A restart forgets verifications and keys.
CacheRestart ==
    /\ keys' = {}
    /\ age' = TTL
    /\ pc' = [r \in Reqs |-> "idle"]
    /\ token' = [r \in Reqs |-> None]
    /\ wait' = [r \in Reqs |-> 0]
    /\ answer' = [r \in Reqs |-> {}]
    /\ steady' = {}
    /\ overrun' = {}
    /\ UNCHANGED provider

-----------------------------------------------------------------------------
(* Properties.                                                             *)

\* keyFor: a token is accepted on a withdrawn key for no longer than the
\* cache's TTL and one fetch, though a slow answer from before the withdrawal
\* may replace a newer one, and though the second look asks for no age.
WithdrawnKeyDiesOut ==
    [][\A r \in Reqs : pc[r] # "verified" /\ pc'[r] = "verified" =>
         withdrawn[token'[r].kid] < TTL + Fetch]_cacheVars

\* keyFor: a token whose key is published all the while is turned away for an
\* unknown key only if another sign-in's answer replaced the set that this one
\* fetched: the cache alone never keeps a new key out.
PublishedKeyIsKnown ==
    [][\A r \in Reqs : Lookup(r) /\ r \in steady \ overrun =>
         token[r].kid \in keys]_cacheVars
=============================================================================
