---------------------------- MODULE OwnerSignIn -----------------------------
(***************************************************************************)
(* From a provider's ID token to a registered gateway: requests verify     *)
(* their tokens against the cached keys (KeyCache), sign in, and an        *)
(* admin's sign-in registers the gateway with the relay in the background  *)
(* (Relay).  What lies in between, from the verified token to the account, *)
(* is module SignIn; here an account is its role.                          *)
(***************************************************************************)
EXTENDS KeyCache, Relay

CONSTANTS
    Admins          \* the subjects whose account is an admin's

vars == <<cacheVars, relayVars>>

TypeOK == CacheTypeOK /\ RelayTypeOK

Init == CacheInit /\ RelayInit

\* A request is served, or its registration still runs: not both, which bounds
\* the two together.
Verify(r) == job[r] = "none" /\ Verifying(r) /\ UNCHANGED relayVars

\* finishSignIn: the registration is started and the request answered.
FinishSignIn(r) ==
    /\ pc[r] = "verified"
    /\ StartRegistration(r, token[r].sub \in Admins)
    /\ Leave(r)
    /\ UNCHANGED <<provider, cache>>

Restart ==
    /\ Faults
    /\ CacheRestart /\ RelayRestart

Next ==
    \/ \E r \in Reqs : Verify(r) \/ FinishSignIn(r)
    \/ \E r \in Reqs : Registering(r) /\ UNCHANGED cacheVars
    \/ Household /\ UNCHANGED cacheVars
    \/ (Rotate \/ Tick) /\ UNCHANGED relayVars
    \/ Restart

Spec == Init /\ [][Next]_vars
=============================================================================
