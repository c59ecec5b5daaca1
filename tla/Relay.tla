-------------------------------- MODULE Relay -------------------------------
(***************************************************************************)
(* The gateway's instance at the push relay: its registration in the       *)
(* background of an admin's sign-in (maybeRegisterRelayAtSignIn of         *)
(* internal/api/handlers.go, RegisterWithRelay of internal/apns), the      *)
(* instance token in the settings table, which every push, checkout and    *)
(* subscription request reads anew, and what the relay makes of it.        *)
(*                                                                         *)
(* The relay is not part of the repository: a registration it accepts is a *)
(* new instance on trial, a checkout makes the instance a paying one.      *)
(***************************************************************************)
EXTENDS Requests

CONSTANTS
    Instances,      \* instance tokens
    RelayURL,       \* is RELAY_URL set?
    APNsConfigured  \* is there a key of one's own?

ASSUME RelayAssumption ==
    /\ RelayURL \in BOOLEAN /\ APNsConfigured \in BOOLEAN
    /\ None \notin Instances

VARIABLES
    stored,     \* the setting relay_instance_token
    job,        \* the background registration of a request
    found,      \* the instance token it was answered
    status,     \* what an instance is to the relay
    buying,     \* the instance of the checkout under way
    \* A history variable, which no guard reads:
    disturbed   \* did two registrations overlap, or one run because of a failed read?

jobs == <<job, found>>
relayVars == <<stored, jobs, status, buying, disturbed>>

RelayTypeOK ==
    /\ stored \in Instances \cup {None}
    /\ job \in [Reqs -> {"none", "asked", "answered"}]
    /\ found \in [Reqs -> Instances \cup {None}]
    /\ \A r \in Reqs : job[r] = "answered" <=> found[r] # None
    /\ status \in [Instances -> {"unused", "trial", "lapsed", "paid"}]
    /\ buying \in Instances \cup {None}
    /\ disturbed \in BOOLEAN

RelayInit ==
    /\ stored = None
    /\ job = [r \in Reqs |-> "none"]
    /\ found = [r \in Reqs |-> None]
    /\ status = [i \in Instances |-> "unused"]
    /\ buying = None
    /\ disturbed = FALSE

-----------------------------------------------------------------------------
(* Registration.                                                           *)

\* buildPushTransport.
PushTransport == IF RelayURL THEN "relay" ELSE IF APNsConfigured THEN "direct" ELSE "none"

\* Mutant: the stored token is not looked for.
M_StartRegistration(r, admin) ==
    /\ \/ /\ PushTransport = "relay" /\ admin
          /\ job' = [job EXCEPT ![r] = "asked"]
          /\ disturbed' = (disturbed \/ \E q \in Reqs : job[q] # "none")
       \/ /\ PushTransport # "relay" \/ ~ admin
          /\ UNCHANGED <<job, disturbed>>
    /\ UNCHANGED <<stored, found, status, buying>>

\* A request that signs in reads the token; unless there is one, an admin's
\* sign-in leaves a registration behind.  A read that fails finds none.
StartRegistration(r, admin) ==
    /\ \E ok \in (IF Faults THEN BOOLEAN ELSE {TRUE}) :
        LET wanted == RelayURL /\ admin /\ ~ (ok /\ stored # None) IN
        \/ /\ wanted
           /\ job' = [job EXCEPT ![r] = "asked"]
           /\ disturbed' = \/ disturbed
                           \/ ~ ok /\ stored # None
                           \/ \E q \in Reqs : job[q] # "none"
        \/ ~ wanted /\ UNCHANGED <<job, disturbed>>
    /\ UNCHANGED <<stored, found, status, buying>>

\* A registration is over; what it was answered was a variable of its goroutine.
EndJob(r) ==
    /\ job' = [job EXCEPT ![r] = "none"]
    /\ found' = [found EXCEPT ![r] = None]

\* Tokens nobody holds: no setting, no job, no buyer and no paying customer.
Free == {i \in Instances : /\ i \notin {stored, buying} \cup {found[r] : r \in Reqs}
                           /\ status[i] # "paid"}

\* POST /v1/register is answered 201, with a token that is shown this once.
RelayRegisters(r) ==
    /\ job[r] = "asked"
    /\ \E i \in Free :
        /\ found' = [found EXCEPT ![r] = i]
        /\ status' = [status EXCEPT ![i] = "trial"]
    /\ job' = [job EXCEPT ![r] = "answered"]
    /\ UNCHANGED <<stored, buying, disturbed>>

\* Mutant: the status is not looked at; in the body of a refusal there is no token.
M_RegisterFails(r) ==
    /\ job[r] = "asked"
    /\ job' = [job EXCEPT ![r] = "answered"]
    /\ UNCHANGED <<stored, found, status, buying, disturbed>>

\* The relay cannot be reached, refuses, or its answer is lost with the token.
RegisterFails(r) ==
    /\ job[r] = "asked"
    /\ EndJob(r)
    /\ UNCHANGED <<stored, status, buying, disturbed>>

\* SetString, an upsert.
SetString(r) ==
    /\ job[r] = "answered"
    /\ stored' = found[r]
    /\ EndJob(r)
    /\ UNCHANGED <<status, buying, disturbed>>

\* The token is lost; nobody else has it.
SetFails(r) ==
    /\ job[r] = "answered" /\ Faults
    /\ EndJob(r)
    /\ UNCHANGED <<stored, status, buying, disturbed>>

Registering(r) ==
    RelayRegisters(r) \/ RegisterFails(r) \/ SetString(r) \/ SetFails(r)

\* A restart loses the registrations under way, not a checkout, which is the
\* relay's.
RelayRestart ==
    /\ job' = [r \in Reqs |-> "none"]
    /\ found' = [r \in Reqs |-> None]
    /\ UNCHANGED <<stored, status, buying, disturbed>>

-----------------------------------------------------------------------------
(* Use of the instance.                                                    *)

\* The relay opens a checkout in the name of an instance, one at a time.
CheckoutWithRelay(i) ==
    /\ buying = None
    /\ buying' = i

\* CreateCheckout, an admin's: it asks for one with the token stored then ...
CreateCheckout ==
    /\ RelayURL /\ stored # None
    /\ CheckoutWithRelay(stored)
    /\ UNCHANGED <<stored, jobs, status, disturbed>>

\* ... which is paid or abandoned.
Pay ==
    /\ buying # None
    /\ buying' = None
    /\ status' = [status EXCEPT ![buying] = "paid"]
    /\ UNCHANGED <<stored, jobs, disturbed>>

Abandon ==
    /\ buying # None
    /\ buying' = None
    /\ UNCHANGED <<stored, jobs, status, disturbed>>

\* The trial is over.
TrialEnds(i) ==
    /\ status[i] = "trial"
    /\ status' = [status EXCEPT ![i] = "lapsed"]
    /\ UNCHANGED <<stored, jobs, buying, disturbed>>

Household == CreateCheckout \/ Pay \/ Abandon \/ \E i \in Instances : TrialEnds(i)

Active(i) == status[i] \in {"trial", "paid"}

SubscriptionFromRelay(i) == IF Active(i) THEN "active" ELSE "inactive"

\* What a push comes to, by RelayTransport.Deliver with the token stored then.
PushAnswer ==
    CASE PushTransport # "relay" -> PushTransport
      [] PushTransport = "relay" /\ stored = None -> "not registered"
      [] PushTransport = "relay" /\ stored # None ->
            IF Active(stored) THEN "sent" ELSE "subscription inactive"

\* What the app is told: GetSubscription.
Subscription ==
    IF ~ RelayURL THEN "not managed"
    ELSE IF stored = None THEN "unknown"
    ELSE SubscriptionFromRelay(stored)

-----------------------------------------------------------------------------
(* Properties.                                                             *)

\* checkout.go: "The subscription entitles the whole instance (household)": a
\* household that has paid is pushed to and told so, unless registrations
\* overlapped or a failed read of the token started one.
PaidIsServed ==
    ~ disturbed /\ (\E i \in Instances : status[i] = "paid") =>
        PushAnswer = "sent" /\ Subscription = "active"
=============================================================================
