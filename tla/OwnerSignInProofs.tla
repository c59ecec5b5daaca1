------------------------- MODULE OwnerSignInProofs -------------------------
(***************************************************************************)
(* What the key cache and the registration keep for any keys, tokens, TTL, *)
(* timeout, number of requests and relay.                                  *)
(*                                                                         *)
(* A withdrawn key dies out because every set bears an age: a fetched set  *)
(* is as old as its fetch, which the timeout bounds, and a cached set is   *)
(* no older than its age and one fetch.  A household that paid is served   *)
(* because, undisturbed, nothing registers once a token is stored, so that *)
(* the stored token is the one that was bought for.                        *)
(***************************************************************************)
EXTENDS OwnerSignIn, TLAPS

\* What is published was not withdrawn.
Unwithdrawn == \A k \in published : withdrawn[k] = 0

\* A fetched set is no older than its fetch ...
AnswersYoung ==
    \A r \in Reqs : pc[r] = "store" =>
        \A k \in answer[r] \ published : withdrawn[k] <= wait[r]

\* ... and a cached one no older than its age and a fetch.
CacheYoung ==
    age < TTL => \A k \in keys \ published : withdrawn[k] <= age + Fetch

\* The second look comes at once.
LooksAtOnce == \A r \in Reqs : pc[r] = "lookup" => age = 0

\* A key that is published throughout is in the set its verification fetched.
SteadyFound ==
    \A r \in steady :
        /\ pc[r] \in {"fetch", "store", "lookup"} /\ token[r].kid \in published
        /\ pc[r] = "store" => token[r].kid \in answer[r]
        /\ pc[r] = "lookup" /\ r \notin overrun => token[r].kid \in keys

CacheInv ==
    /\ CacheTypeOK
    /\ Unwithdrawn /\ AnswersYoung /\ CacheYoung /\ LooksAtOnce /\ SteadyFound

\* Without a relay there is no token and no registration.
NoRelay == ~ RelayURL => stored = None /\ \A r \in Reqs : job[r] = "none"

\* Undisturbed, one registration runs at a time and none beside a token, and
\* what is bought and paid for is the stored instance.
OneInstance ==
    ~ disturbed =>
        /\ stored # None => \A r \in Reqs : job[r] = "none"
        /\ \A q, r \in Reqs : job[q] # "none" /\ job[r] # "none" => q = r
        /\ buying \in {None, stored}
        /\ \A i \in Instances : status[i] = "paid" => i = stored

RelayInv == RelayTypeOK /\ NoRelay /\ OneInstance

-----------------------------------------------------------------------------
(* The key cache.                                                          *)

LEMMA InitCacheInv == CacheInit => CacheInv
BY KeyCacheAssumption
DEF CacheInit, CacheInv, CacheTypeOK, Steps, Horizon, Unwithdrawn, AnswersYoung,
    CacheYoung, LooksAtOnce, SteadyFound

\* A verification that is over leaves the cache and the others alone.
LEMMA SettleCacheInv ==
    ASSUME CacheInv, NEW r \in Reqs, NEW step, NEW t,
           \/ step = "idle" /\ t = None
           \/ step = "verified" /\ t \in IdTokens,
           Settle(r, step, t), UNCHANGED <<provider, cache>>
    PROVE  CacheInv'
<1> USE KeyCacheAssumption DEF CacheInv, Settle, provider, cache
<1>1. CacheTypeOK'
    BY DEF CacheTypeOK, Steps
<1>2. Unwithdrawn' /\ CacheYoung'
    BY DEF Unwithdrawn, CacheYoung
<1>3. AnswersYoung' /\ LooksAtOnce'
    BY DEF CacheTypeOK, AnswersYoung, LooksAtOnce
<1>4. SteadyFound'
    BY DEF CacheTypeOK, SteadyFound
<1> QED BY <1>1, <1>2, <1>3, <1>4

LEMMA LeaveCacheInv ==
    ASSUME CacheInv, NEW r \in Reqs, Leave(r), UNCHANGED <<provider, cache>>
    PROVE  CacheInv'
BY SettleCacheInv DEF Leave

LEMMA JudgeCacheInv ==
    ASSUME CacheInv, NEW r \in Reqs, NEW t \in IdTokens, Judge(r, t),
           UNCHANGED <<provider, cache>>
    PROVE  CacheInv'
BY SettleCacheInv, LeaveCacheInv DEF Judge

LEMMA KeyForCacheInv ==
    ASSUME CacheInv, NEW r \in Reqs, NEW t \in IdTokens, KeyFor(r, t)
    PROVE  CacheInv'
<1>1. CASE Judge(r, t)
    BY <1>1, JudgeCacheInv DEF KeyFor
<1>2. CASE Await(r, t, "fetch")
    <2> USE <1>2 DEF CacheInv, KeyFor, Await, provider, cache
    <2>1. CacheTypeOK'
        BY DEF CacheTypeOK, Steps
    <2>2. Unwithdrawn' /\ CacheYoung' /\ AnswersYoung' /\ LooksAtOnce'
        BY DEF CacheTypeOK, Unwithdrawn, CacheYoung, AnswersYoung, LooksAtOnce
    <2>3. SteadyFound'
        BY DEF CacheTypeOK, SteadyFound
    <2> QED BY <2>1, <2>2, <2>3
<1> QED BY <1>1, <1>2 DEF KeyFor

LEMMA ProviderAnswersCacheInv ==
    ASSUME CacheInv, NEW r \in Reqs, ProviderAnswers(r)
    PROVE  CacheInv'
<1> USE DEF CacheInv, ProviderAnswers, provider, cache
<1>1. CacheTypeOK'
    BY DEF CacheTypeOK, Steps
<1>2. Unwithdrawn' /\ CacheYoung' /\ AnswersYoung' /\ LooksAtOnce'
    BY DEF CacheTypeOK, Unwithdrawn, CacheYoung, AnswersYoung, LooksAtOnce
<1>3. SteadyFound'
    BY DEF CacheTypeOK, SteadyFound
<1> QED BY <1>1, <1>2, <1>3

\* The new set's age is reset, and its fetch took no longer than the timeout.
LEMMA StoreCacheInv ==
    ASSUME CacheInv, NEW r \in Reqs, Store(r)
    PROVE  CacheInv'
<1> USE KeyCacheAssumption DEF CacheInv, Store, provider
<1>1. CacheTypeOK'
    BY DEF CacheTypeOK, Steps
<1>2. Unwithdrawn' /\ AnswersYoung' /\ LooksAtOnce'
    BY DEF CacheTypeOK, Unwithdrawn, AnswersYoung, LooksAtOnce
<1>3. CacheYoung'
    BY DEF CacheTypeOK, AnswersYoung, CacheYoung
<1>4. SteadyFound'
    BY DEF CacheTypeOK, SteadyFound
<1> QED BY <1>1, <1>2, <1>3, <1>4

LEMMA VerifyingCacheInv ==
    ASSUME CacheInv, NEW r \in Reqs, Verifying(r)
    PROVE  CacheInv'
<1>1. CASE \E t \in IdTokens : KeyFor(r, t)
    BY <1>1, KeyForCacheInv
<1>2. CASE ProviderAnswers(r)
    BY <1>2, ProviderAnswersCacheInv
<1>3. CASE FetchFails(r)
    BY <1>3, LeaveCacheInv DEF FetchFails
<1>4. CASE Store(r)
    BY <1>4, StoreCacheInv
<1>5. CASE Lookup(r)
    <2>1. token[r] \in IdTokens
        BY <1>5 DEF Lookup, CacheInv, CacheTypeOK
    <2> QED BY <1>5, <2>1, JudgeCacheInv, LeaveCacheInv DEF Lookup
<1> QED BY <1>1, <1>2, <1>3, <1>4, <1>5 DEF Verifying

LEMMA RotateCacheInv ==
    ASSUME CacheInv, Rotate
    PROVE  CacheInv'
<1> PICK k \in Kids : Publish(k) \/ Withdraw(k)
    BY DEF Rotate
<1> USE KeyCacheAssumption DEF CacheInv, Rotate, cache, verifying
<1>1. CASE Publish(k)
    <2> USE <1>1 DEF Publish
    <2>1. CacheTypeOK'
        BY DEF CacheTypeOK, Horizon
    <2>2. Unwithdrawn' /\ LooksAtOnce' /\ SteadyFound'
        BY DEF CacheTypeOK, Unwithdrawn, LooksAtOnce, SteadyFound
    <2>3. AnswersYoung' /\ CacheYoung'
        BY DEF CacheTypeOK, AnswersYoung, CacheYoung
    <2> QED BY <2>1, <2>2, <2>3
<1>2. CASE Withdraw(k)
    <2> USE <1>2 DEF Withdraw
    <2>1. CacheTypeOK'
        BY DEF CacheTypeOK
    <2>2. Unwithdrawn' /\ LooksAtOnce' /\ SteadyFound'
        BY DEF CacheTypeOK, Unwithdrawn, LooksAtOnce, SteadyFound
    <2>3. AnswersYoung' /\ CacheYoung'
        BY DEF CacheTypeOK, Unwithdrawn, AnswersYoung, CacheYoung
    <2> QED BY <2>1, <2>2, <2>3
<1> QED BY <1>1, <1>2

\* What is counted grows by a tick, up to its limit.
LEMMA OlderBounds ==
    ASSUME NEW limit \in Nat, NEW n \in 0 .. limit
    PROVE  /\ Older(n, limit) \in 0 .. limit
           /\ Older(n, limit) <= n + 1
           /\ Older(n, limit) < limit => Older(n, limit) = n + 1
BY DEF Older

LEMMA TickCacheInv ==
    ASSUME CacheInv, Tick
    PROVE  CacheInv'
<1> USE KeyCacheAssumption DEF CacheInv, Tick
<1> Horizon \in Nat /\ TTL \in Nat
    BY DEF Horizon
<1>1. CacheTypeOK'
    <2>1. age' \in 0 .. TTL
        BY OlderBounds DEF CacheTypeOK
    <2>2. withdrawn' \in [Kids -> 0 .. Horizon]
        <3> SUFFICES ASSUME NEW k \in Kids PROVE Older(withdrawn[k], Horizon) \in 0 .. Horizon
            BY DEF CacheTypeOK
        <3> QED BY OlderBounds DEF CacheTypeOK
    <2>3. wait' \in [Reqs -> 0 .. Fetch]
        BY DEF CacheTypeOK, Fetching, Steps
    <2> QED BY <2>1, <2>2, <2>3 DEF CacheTypeOK
<1>2. ASSUME NEW k \in Kids PROVE withdrawn'[k] <= withdrawn[k] + 1
    <2>1. withdrawn[k] \in 0 .. Horizon
        BY DEF CacheTypeOK
    <2>2. Older(withdrawn[k], Horizon) <= withdrawn[k] + 1
        BY <2>1, OlderBounds
    <2> QED BY <2>1, <2>2
<1>3. Unwithdrawn' /\ LooksAtOnce' /\ SteadyFound'
    BY DEF CacheTypeOK, Unwithdrawn, LooksAtOnce, SteadyFound, Fetching
<1>4. AnswersYoung'
    <2> SUFFICES ASSUME NEW r \in Reqs, pc[r] = "store", NEW k \in answer[r] \ published
                 PROVE  withdrawn'[k] <= wait'[r]
        BY DEF AnswersYoung
    <2>1. k \in Kids /\ withdrawn[k] \in Nat /\ wait[r] \in Nat /\ withdrawn'[k] \in Nat
        BY <1>1 DEF CacheTypeOK
    <2>2. withdrawn[k] <= wait[r] /\ wait'[r] = wait[r] + 1
        BY DEF AnswersYoung, Fetching
    <2> QED BY <1>2, <2>1, <2>2
<1>5. CacheYoung'
    <2> SUFFICES ASSUME age' < TTL, NEW k \in keys \ published
                 PROVE  withdrawn'[k] <= age' + Fetch
        BY DEF CacheYoung
    <2>1. k \in Kids /\ withdrawn[k] \in Nat /\ age \in Nat /\ withdrawn'[k] \in Nat
        BY <1>1 DEF CacheTypeOK
    <2>2. age' = age + 1 /\ age < TTL
        BY OlderBounds DEF CacheTypeOK
    <2>3. withdrawn[k] <= age + Fetch
        BY <2>2 DEF CacheYoung
    <2> QED BY <1>2, <2>1, <2>2, <2>3
<1> QED BY <1>1, <1>3, <1>4, <1>5

LEMMA RestartCacheInv ==
    ASSUME CacheInv, CacheRestart
    PROVE  CacheInv'
BY KeyCacheAssumption
DEF CacheInv, CacheRestart, provider, CacheTypeOK, Steps, Unwithdrawn, AnswersYoung,
    CacheYoung, LooksAtOnce, SteadyFound

LEMMA StutterCacheInv ==
    ASSUME CacheInv, UNCHANGED cacheVars
    PROVE  CacheInv'
BY DEF cacheVars, provider, cache, verifying, CacheInv, CacheTypeOK, Unwithdrawn,
       AnswersYoung, CacheYoung, LooksAtOnce, SteadyFound

-----------------------------------------------------------------------------
(* The registration.                                                       *)

LEMMA InitRelayInv == RelayInit => RelayInv
BY RelayAssumption DEF RelayInit, RelayInv, RelayTypeOK, NoRelay, OneInstance

\* Undisturbed, a registration starts only if there is no token and no other.
LEMMA StartRelayInv ==
    ASSUME RelayInv, NEW r \in Reqs, NEW admin, StartRegistration(r, admin),
           job[r] = "none"
    PROVE  RelayInv'
<1> PICK ok \in BOOLEAN :
        LET wanted == RelayURL /\ admin /\ ~ (ok /\ stored # None) IN
        \/ /\ wanted
           /\ job' = [job EXCEPT ![r] = "asked"]
           /\ disturbed' = \/ disturbed
                           \/ ~ ok /\ stored # None
                           \/ \E q \in Reqs : job[q] # "none"
        \/ ~ wanted /\ UNCHANGED <<job, disturbed>>
    BY DEF StartRegistration
<1>1. CASE UNCHANGED <<job, disturbed>>
    BY <1>1 DEF StartRegistration, RelayInv, RelayTypeOK, NoRelay, OneInstance
<1>2. CASE /\ RelayURL /\ ~ (ok /\ stored # None)
           /\ job' = [job EXCEPT ![r] = "asked"]
           /\ disturbed' = \/ disturbed
                           \/ ~ ok /\ stored # None
                           \/ \E q \in Reqs : job[q] # "none"
    <2> USE <1>2 DEF RelayInv, StartRegistration
    <2>1. RelayTypeOK'
        BY DEF RelayTypeOK
    <2>2. NoRelay'
        BY DEF NoRelay
    <2>3. OneInstance'
        BY DEF OneInstance, RelayTypeOK
    <2> QED BY <2>1, <2>2, <2>3
<1> QED BY <1>1, <1>2

\* Undisturbed, the token is written where there was none, so that nothing had
\* been bought with another.
LEMMA RegisteringRelayInv ==
    ASSUME RelayInv, NEW r \in Reqs, Registering(r)
    PROVE  RelayInv'
<1> USE RelayAssumption DEF RelayInv
<1>1. CASE RelayRegisters(r)
    <2> USE <1>1 DEF RelayRegisters
    <2>1. RelayTypeOK'
        BY DEF RelayTypeOK, Free
    <2>2. NoRelay' /\ OneInstance'
        BY DEF RelayTypeOK, NoRelay, OneInstance
    <2> QED BY <2>1, <2>2
<1>2. CASE RegisterFails(r)
    BY <1>2 DEF RegisterFails, EndJob, RelayTypeOK, NoRelay, OneInstance
<1>3. CASE SetString(r)
    <2> USE <1>3 DEF SetString, EndJob
    <2>1. RelayTypeOK'
        BY DEF RelayTypeOK
    <2>2. NoRelay' /\ OneInstance'
        BY DEF RelayTypeOK, NoRelay, OneInstance
    <2> QED BY <2>1, <2>2
<1>4. CASE SetFails(r)
    BY <1>4 DEF SetFails, EndJob, RelayTypeOK, NoRelay, OneInstance
<1> QED BY <1>1, <1>2, <1>3, <1>4 DEF Registering

LEMMA HouseholdRelayInv ==
    ASSUME RelayInv, Household
    PROVE  RelayInv'
<1> USE DEF RelayInv, jobs
<1>1. CASE CreateCheckout
    BY <1>1 DEF CreateCheckout, CheckoutWithRelay, RelayTypeOK, NoRelay, OneInstance
<1>2. CASE Pay
    BY <1>2 DEF Pay, RelayTypeOK, NoRelay, OneInstance
<1>3. CASE Abandon
    BY <1>3 DEF Abandon, RelayTypeOK, NoRelay, OneInstance
<1>4. CASE \E i \in Instances : TrialEnds(i)
    BY <1>4 DEF TrialEnds, RelayTypeOK, NoRelay, OneInstance
<1> QED BY <1>1, <1>2, <1>3, <1>4 DEF Household

LEMMA RestartRelayInv ==
    ASSUME RelayInv, RelayRestart
    PROVE  RelayInv'
BY DEF RelayInv, RelayRestart, RelayTypeOK, NoRelay, OneInstance

LEMMA StutterRelayInv ==
    ASSUME RelayInv, UNCHANGED relayVars
    PROVE  RelayInv'
BY DEF relayVars, jobs, RelayInv, RelayTypeOK, NoRelay, OneInstance

-----------------------------------------------------------------------------
(* The two together.                                                       *)

\* A request that has been verified has left no registration behind yet.
OneAtATime == \A r \in Reqs : job[r] = "none" \/ pc[r] = "idle"

IInv == CacheInv /\ RelayInv /\ OneAtATime

LEMMA InitIInv == Init => IInv
BY InitCacheInv, InitRelayInv DEF Init, IInv, OneAtATime, CacheInit

LEMMA VerifyIInv ==
    ASSUME IInv, NEW r \in Reqs, Verify(r)
    PROVE  IInv'
<1>1. CacheInv' /\ RelayInv'
    BY VerifyingCacheInv, StutterRelayInv DEF Verify, IInv
<1>2. \A q \in Reqs \ {r} : pc'[q] = pc[q]
    BY DEF Verify, Verifying, KeyFor, Await, Judge, ProviderAnswers, FetchFails, Store,
           Lookup, Leave, Settle, IInv, CacheInv, CacheTypeOK
<1> QED BY <1>1, <1>2 DEF Verify, IInv, OneAtATime, relayVars, jobs

LEMMA FinishSignInIInv ==
    ASSUME IInv, NEW r \in Reqs, FinishSignIn(r)
    PROVE  IInv'
<1>1. job[r] = "none"
    BY DEF IInv, OneAtATime, FinishSignIn
<1>2. CacheInv'
    BY LeaveCacheInv DEF FinishSignIn, IInv
<1>3. RelayInv'
    BY <1>1, StartRelayInv DEF FinishSignIn, IInv
<1>4. OneAtATime'
    BY DEF FinishSignIn, StartRegistration, Leave, Settle, IInv, OneAtATime, CacheInv,
           CacheTypeOK, RelayInv, RelayTypeOK
<1> QED BY <1>2, <1>3, <1>4 DEF IInv

LEMMA RegisteringIInv ==
    ASSUME IInv, NEW r \in Reqs, Registering(r), UNCHANGED cacheVars
    PROVE  IInv'
<1>1. CacheInv' /\ RelayInv'
    BY RegisteringRelayInv, StutterCacheInv DEF IInv
<1>2. OneAtATime'
    BY DEF Registering, RelayRegisters, RegisterFails, SetString, SetFails, EndJob, IInv,
           OneAtATime, RelayInv, RelayTypeOK, cacheVars, verifying
<1> QED BY <1>1, <1>2 DEF IInv

LEMMA NextIInv == IInv /\ [Next]_vars => IInv'
<1> SUFFICES ASSUME IInv, [Next]_vars PROVE IInv'
    OBVIOUS
<1>1. ASSUME NEW r \in Reqs, Verify(r) \/ FinishSignIn(r) PROVE IInv'
    BY <1>1, VerifyIInv, FinishSignInIInv
<1>2. ASSUME NEW r \in Reqs, Registering(r), UNCHANGED cacheVars PROVE IInv'
    BY <1>2, RegisteringIInv
<1>3. CASE Household /\ UNCHANGED cacheVars
    <2>1. CacheInv' /\ RelayInv'
        BY <1>3, HouseholdRelayInv, StutterCacheInv DEF IInv
    <2>2. UNCHANGED <<pc, job>>
        BY <1>3 DEF Household, CreateCheckout, Pay, Abandon, TrialEnds, jobs, cacheVars,
                    verifying
    <2> QED BY <2>1, <2>2 DEF IInv, OneAtATime
<1>4. CASE (Rotate \/ Tick) /\ UNCHANGED relayVars
    <2>1. CacheInv' /\ RelayInv'
        BY <1>4, RotateCacheInv, TickCacheInv, StutterRelayInv DEF IInv
    <2>2. UNCHANGED <<pc, job>>
        BY <1>4 DEF Rotate, Publish, Withdraw, Tick, verifying, relayVars, jobs
    <2> QED BY <2>1, <2>2 DEF IInv, OneAtATime
<1>5. CASE Restart
    BY <1>5, RestartCacheInv, RestartRelayInv
    DEF Restart, IInv, OneAtATime, CacheRestart
<1>6. CASE UNCHANGED vars
    BY <1>6, StutterCacheInv, StutterRelayInv
    DEF vars, IInv, OneAtATime, cacheVars, verifying, relayVars, jobs
<1> QED BY <1>1, <1>2, <1>3, <1>4, <1>5, <1>6 DEF Next

\* A verification leaves the others where they are.
LEMMA OthersStay ==
    ASSUME IInv, NEW q \in Reqs, Verifying(q), NEW r \in Reqs \ {q}
    PROVE  pc'[r] = pc[r]
BY DEF Verifying, KeyFor, Await, Judge, ProviderAnswers, FetchFails, Store, Lookup, Leave,
       Settle, IInv, CacheInv, CacheTypeOK

\* A token is accepted on a key of the cache that is fresh or has just come in.
LEMMA AcceptedOnCachedKey ==
    ASSUME IInv, [Next]_vars, NEW r \in Reqs, pc[r] # "verified", pc'[r] = "verified"
    PROVE  /\ token'[r] \in IdTokens
           /\ token'[r].kid \in keys /\ age < TTL
<1> USE DEF IInv, CacheInv, CacheTypeOK
<1>1. CASE Verifying(r)
    <2>1. CASE \E t \in IdTokens : KeyFor(r, t)
        BY <2>1 DEF KeyFor, Fresh, Judge, Await, Leave, Settle
    <2>2. CASE Lookup(r)
        BY <2>2, KeyCacheAssumption DEF Lookup, Judge, Leave, Settle, LooksAtOnce
    <2>3. CASE ProviderAnswers(r) \/ FetchFails(r) \/ Store(r)
        BY <2>3 DEF ProviderAnswers, FetchFails, Store, Leave, Settle
    <2> QED BY <1>1, <2>1, <2>2, <2>3 DEF Verifying
<1>2. ASSUME NEW q \in Reqs, Verify(q) PROVE Verifying(r)
    BY <1>2, OthersStay DEF Verify
<1>3. ASSUME NEW q \in Reqs, FinishSignIn(q) PROVE FALSE
    BY <1>3 DEF FinishSignIn, Leave, Settle
<1>4. ASSUME UNCHANGED pc PROVE FALSE
    BY <1>4
<1>5. CASE UNCHANGED cacheVars
    BY <1>4, <1>5 DEF cacheVars, verifying
<1>6. CASE Rotate \/ Tick
    BY <1>4, <1>6 DEF Rotate, Publish, Withdraw, Tick, verifying
<1>7. CASE Restart
    BY <1>7 DEF Restart, CacheRestart
<1> QED BY <1>1, <1>2, <1>3, <1>5, <1>6, <1>7 DEF Next, vars

-----------------------------------------------------------------------------
(* Theorems.                                                               *)

\* The invariant of an owner's sign-in: sets of keys are as old as they say, and
\* an undisturbed gateway has one instance.
THEOREM Invariance == Spec => []IInv
BY InitIInv, NextIInv, PTL DEF Spec

\* The variables keep their types.
THEOREM TypeCorrect == Spec => []TypeOK
<1>1. IInv => TypeOK
    BY DEF IInv, CacheInv, RelayInv, TypeOK
<1> QED BY <1>1, Invariance, PTL

\* maybeRegisterRelayAtSignIn and CreateCheckout: a household that has paid is
\* served, whatever registrations fail, as long as none overlapped another or
\* followed a failed read of the token.
THEOREM ThePayingAreServed == Spec => []PaidIsServed
<1>1. IInv => PaidIsServed
    <2> SUFFICES ASSUME IInv, ~ disturbed, NEW i \in Instances, status[i] = "paid"
                 PROVE  PushAnswer = "sent" /\ Subscription = "active"
        BY DEF PaidIsServed
    <2>1. i = stored /\ stored # None
        BY RelayAssumption DEF IInv, RelayInv, OneInstance
    <2>2. RelayURL
        BY <2>1, RelayAssumption DEF IInv, RelayInv, NoRelay
    <2> QED BY <2>1, <2>2
            DEF PushAnswer, PushTransport, Subscription, SubscriptionFromRelay, Active
<1> QED BY <1>1, Invariance, PTL

\* keyFor: no token is accepted on a key that was withdrawn longer ago than the
\* cache's TTL and the timeout of a fetch.
THEOREM WithdrawnKeysDieOut == Spec => WithdrawnKeyDiesOut
<1>1. ASSUME IInv, [Next]_vars, NEW r \in Reqs, pc[r] # "verified", pc'[r] = "verified"
      PROVE  withdrawn[token'[r].kid] < TTL + Fetch
    <2> DEFINE k == token'[r].kid
    <2>1. k \in Kids /\ k \in keys /\ age < TTL
        BY <1>1, AcceptedOnCachedKey, KeyCacheAssumption
    <2>2. withdrawn[k] \in Nat /\ age \in Nat
        BY <1>1, <2>1 DEF IInv, CacheInv, CacheTypeOK
    <2>3. withdrawn[k] = 0 \/ withdrawn[k] <= age + Fetch
        BY <1>1, <2>1 DEF IInv, CacheInv, Unwithdrawn, CacheYoung
    <2> HIDE DEF k
    <2>4. withdrawn[k] < TTL + Fetch
        BY <2>1, <2>2, <2>3, KeyCacheAssumption
    <2> QED BY <2>4 DEF k
<1>2. IInv /\ [Next]_vars =>
        [\A r \in Reqs : pc[r] # "verified" /\ pc'[r] = "verified" =>
           withdrawn[token'[r].kid] < TTL + Fetch]_cacheVars
    BY <1>1
<1> QED BY <1>2, Invariance, PTL DEF Spec, WithdrawnKeyDiesOut

\* keyFor: a key that is published all the while is known at the second look,
\* unless another answer replaced the set.
THEOREM PublishedKeysAreKnown == Spec => PublishedKeyIsKnown
<1>1. IInv => \A r \in Reqs : Lookup(r) /\ r \in steady \ overrun => token[r].kid \in keys
    BY DEF IInv, CacheInv, SteadyFound, Lookup
<1> QED BY <1>1, Invariance, PTL DEF PublishedKeyIsKnown
=============================================================================
