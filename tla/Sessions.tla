------------------------------ MODULE Sessions ------------------------------
(***************************************************************************)
(* What signed-in people do with their tokens: exchange a refresh token    *)
(* for new ones (internal/api/handlers.go, Refresh) and make requests that *)
(* are answered by role and camera scope (AccessibleCameras of             *)
(* internal/auth/store.go, AdminOnly of internal/auth/middleware.go).      *)
(*                                                                         *)
(* Both take several statements; those of other requests and the commands  *)
(* of beacon-admin come in between, and a statement may fail.              *)
(*                                                                         *)
(* An access token is a JWT that the tables know nothing of, so whoever    *)
(* was ever given tokens can make requests; its expiry would only take     *)
(* behaviours away.  The scopes of tokens and the routes that accept them  *)
(* are a static table and are left out.                                    *)
(***************************************************************************)
EXTENDS Naturals, FiniteSets

CONSTANTS
    Users,          \* accounts; an id is not used again
    Cameras,
    Settings,       \* the right to use what is behind AdminOnly
    Scopes,         \* the camera sets an admin hands out; {} is "no scope"
    FirstRole,      \* the accounts' roles at first
    FirstScope,     \* and their scopes
    Reqs,           \* requests at a time
    Faults,         \* do statements fail?
    MaxTokens,      \* bound: refresh tokens ever issued
    Asked,          \* bound: what is asked for, of Kinds below
    MaxReads,       \* bound: requests that read at a time
    MaxCommands,    \* bound: commands of beacon-admin
    None

Roles == {"member", "admin"}
Tokens == 1 .. MaxTokens

\* A list of events, a search for events, the list of cameras, one's own role
\* and scope, what is an admin's, or one camera: its live view, a snapshot, or
\* an event of it with its snapshot and clip.
Kinds == {"events", "search", "cameras", "me", "settings"} \cup Cameras

ASSUME SessionsAssumption ==
    /\ Scopes \subseteq SUBSET Cameras
    /\ {} \in Scopes
    /\ Settings \notin Cameras
    /\ {"events", "search", "cameras", "me", "settings"} \cap Cameras = {}
    /\ FirstRole \in [Users -> Roles]
    /\ FirstScope \in [Users -> Scopes]
    /\ Faults \in BOOLEAN
    /\ MaxTokens \in Nat
    /\ Asked \subseteq Kinds
    /\ MaxReads \in Nat
    /\ MaxCommands \in Nat
    /\ None \notin Users \cup Roles \cup Nat

Steps == {"idle", "lookup", "revoke", "issue", "user", "role", "cameras", "answered"}
States == {"unissued", "live", "revoked", "expired", "deleted"}

VARIABLES
    role,       \* users.role; None where there is no row
    scope,      \* user_cameras
    state,      \* what became of a refresh token's row
    holder,     \* whom it was issued to
    next,       \* number of the next token
    pc,         \* the next statement of a request
    kind,       \* what it asks for
    who,        \* the user its access token, or its refresh token's row, names
    given,      \* the refresh token it presents
    shown,      \* what it was answered: cameras, or the use of the settings
    commands    \* commands so far

VARIABLES       \* History variables, which no guard reads.
    ever,       \* what its user was entitled to at some moment of a request
    parent,     \* the token a token was issued in exchange for
    contested,  \* tokens that two requests held at a time, or whose revocation failed
    out         \* those thrown out with no refresh of theirs under way

accounts == <<role, scope>>
tokens == <<state, holder, next>>
request == <<kind, who, given, shown>>
history == <<ever, parent, contested, out>>
vars == <<accounts, tokens, pc, request, commands, history>>

TypeOK ==
    /\ role \in [Users -> Roles \cup {None}]
    /\ scope \in [Users -> Scopes]
    /\ state \in [Tokens -> States]
    /\ holder \in [Tokens -> Users \cup {None}]
    /\ next \in 1 .. MaxTokens + 1
    /\ \A t \in Tokens : t >= next <=> state[t] = "unissued"
    /\ \A t \in Tokens : t >= next <=> holder[t] = None
    /\ pc \in [Reqs -> Steps]
    /\ kind \in [Reqs -> Kinds]
    /\ who \in [Reqs -> Users \cup {None}]
    /\ given \in [Reqs -> Tokens \cup {None}]
    /\ \A r \in Reqs : pc[r] \in {"lookup", "revoke", "issue"} => given[r] \in 1 .. next - 1
    /\ \A r \in Reqs : pc[r] \notin {"idle", "lookup"} => who[r] \in Users
    /\ shown \in [Reqs -> SUBSET (Cameras \cup {Settings})]
    /\ commands \in 0 .. MaxCommands
    /\ ever \in [Reqs -> SUBSET (Cameras \cup {Settings})]
    /\ parent \in [Tokens -> Tokens \cup {None}]
    /\ contested \subseteq Tokens
    /\ out \subseteq Users

Init ==
    /\ role = FirstRole
    /\ scope = FirstScope
    /\ state = [t \in Tokens |-> "unissued"]
    /\ holder = [t \in Tokens |-> None]
    /\ next = 1
    /\ pc = [r \in Reqs |-> "idle"]
    /\ kind = [r \in Reqs |-> "events"]
    /\ who = [r \in Reqs |-> None]
    /\ given = [r \in Reqs |-> None]
    /\ shown = [r \in Reqs |-> {}]
    /\ commands = 0
    /\ ever = [r \in Reqs |-> {}]
    /\ parent = [t \in Tokens |-> None]
    /\ contested = {}
    /\ out = {}

Accounts == {u \in Users : role[u] # None}
LiveOf(u) == {t \in Tokens : holder[t] = u /\ state[t] = "live"}

-----------------------------------------------------------------------------
(* Tokens.                                                                 *)

\* Mutant: no foreign key on refresh_tokens.user_id.
M_Issue(u, t) ==
    /\ next <= MaxTokens
    /\ state' = [state EXCEPT ![next] = "live"]
    /\ holder' = [holder EXCEPT ![next] = u]
    /\ parent' = [parent EXCEPT ![next] = t]
    /\ next' = next + 1

\* IssueRefreshToken, for user u and in exchange for t.
Issue(u, t) ==
    /\ next <= MaxTokens
    /\ u \in Accounts
    /\ state' = [state EXCEPT ![next] = "live"]
    /\ holder' = [holder EXCEPT ![next] = u]
    /\ parent' = [parent EXCEPT ![next] = t]
    /\ next' = next + 1

\* finishSignIn for a person who is in: issueTokens.
SignIn(u) ==
    /\ Issue(u, None)
    /\ out' = out \ {u}
    /\ UNCHANGED <<accounts, pc, request, commands, ever, contested>>

\* The clock passes a token's expires_at.
Expire(t) ==
    /\ state[t] = "live"
    /\ state' = [state EXCEPT ![t] = "expired"]
    /\ UNCHANGED <<accounts, holder, next, pc, request, commands, history>>

-----------------------------------------------------------------------------
(* Refresh.                                                                *)

Goto(r, l) == pc' = [pc EXCEPT ![r] = l]

\* The requests that hold a token's row between its lookup and the answer.
Holding(t) == {r \in Reqs : given[r] = t /\ pc[r] \in {"revoke", "issue"}}

Forget(r) ==
    /\ Goto(r, "idle")
    /\ kind' = [kind EXCEPT ![r] = "events"]
    /\ who' = [who EXCEPT ![r] = None]
    /\ given' = [given EXCEPT ![r] = None]
    /\ shown' = [shown EXCEPT ![r] = {}]
    /\ ever' = [ever EXCEPT ![r] = {}]

StartRefresh(r) ==
    /\ pc[r] = "idle"
    /\ \E t \in 1 .. next - 1 : given' = [given EXCEPT ![r] = t]
    /\ Goto(r, "lookup")
    /\ UNCHANGED <<accounts, tokens, kind, who, shown, commands, history>>

\* Mutant: the query forgets AND revoked_at IS NULL.
M_Good(t) == state[t] \in {"live", "revoked"}

\* What ConsumeRefreshToken accepts.
Good(t) == state[t] = "live"

\* ConsumeRefreshToken, which only looks the token up.
Lookup(r) ==
    LET t == given[r] IN
    /\ pc[r] = "lookup"
    /\ Good(t)
    /\ who' = [who EXCEPT ![r] = holder[t]]
    /\ Goto(r, "revoke")
    /\ contested' = IF Holding(t) # {} THEN contested \cup {t} ELSE contested
    /\ UNCHANGED <<accounts, tokens, kind, given, shown, commands, ever, parent, out>>

LookupFails(r) ==
    /\ pc[r] = "lookup"
    /\ ~ Good(given[r]) \/ Faults
    /\ Forget(r)
    /\ UNCHANGED <<accounts, tokens, commands, parent, contested, out>>

\* Mutant: UPDATE without WHERE.
M_Retired_All(t) == Tokens

\* Mutant: UPDATE ... WHERE user_id = ?, which ends the person's other devices.
M_Retired(t) == {x \in Tokens : holder[x] = holder[t] /\ state[x] = "live"}

\* The rows RevokeRefreshToken updates: by id, whatever became of the row.
Retired(t) == {t} \cap {x \in Tokens : state[x] # "deleted"}

Revoke(r) ==
    LET t == given[r] IN
    /\ pc[r] = "revoke"
    /\ state' = [x \in Tokens |-> IF x \in Retired(t) THEN "revoked" ELSE state[x]]
    /\ Goto(r, "issue")
    /\ UNCHANGED <<accounts, holder, next, request, commands, history>>

\* Refresh only logs that, and goes on.
RevokeFails(r) ==
    /\ pc[r] = "revoke" /\ Faults
    /\ contested' = contested \cup {given[r]}
    /\ Goto(r, "issue")
    /\ UNCHANGED <<accounts, tokens, request, commands, ever, parent, out>>

IssueTokens(r) ==
    /\ pc[r] = "issue"
    /\ Issue(who[r], given[r])
    /\ Forget(r)
    /\ UNCHANGED <<accounts, commands, contested, out>>

\* The account is gone, or the statement fails: the old token is used up and
\* there is no new one.
IssueFails(r) ==
    /\ pc[r] = "issue"
    /\ who[r] \notin Accounts \/ Faults
    /\ Forget(r)
    /\ UNCHANGED <<accounts, tokens, commands, parent, contested, out>>

-----------------------------------------------------------------------------
(* What a user may be shown, as the README puts it: an admin everything, a *)
(* member the cameras it is scoped to, or all of them.                     *)
Right(u, c) ==
    \/ role[u] = "admin"
    \/ role[u] = "member" /\ c \in Cameras /\ (scope[u] # {} => c \in scope[u])

Rights(u) == {c \in Cameras \cup {Settings} : Right(u, c)}

-----------------------------------------------------------------------------
(* Requests with an access token.                                          *)

Reading(r) == pc[r] \in {"user", "role", "cameras"}

\* Middleware has accepted a token: anyone who was ever given one.
StartRead(r) ==
    /\ pc[r] = "idle"
    /\ Cardinality({q \in Reqs : Reading(q) \/ pc[q] = "answered"}) < MaxReads
    /\ \E u \in {holder[t] : t \in 1 .. next - 1} : who' = [who EXCEPT ![r] = u]
    /\ \E k \in Asked :
        /\ kind' = [kind EXCEPT ![r] = k]
        /\ Goto(r, IF k = "me" THEN "user" ELSE "role")
    /\ UNCHANGED <<accounts, tokens, given, shown, commands, parent, contested, out>>

Answer(r, what) ==
    /\ shown' = [shown EXCEPT ![r] = what]
    /\ Goto(r, "answered")

\* GetMe looks the account up before it asks for the scope.
GetUser(r) ==
    /\ pc[r] = "user"
    /\ \/ role[who[r]] = None /\ Answer(r, {})
       \/ role[who[r]] # None /\ Goto(r, "role") /\ UNCHANGED shown
    /\ UNCHANGED <<accounts, tokens, kind, who, given, commands, parent, contested, out>>

\* What AccessibleCameras makes of the two rows it reads, when not "all", is a
\* set of cameras.  ListEvents hands it to Store.List, which adds no condition
\* for an empty set.
ListEvents(cams) == IF cams = {} THEN Cameras ELSE cams

\* SearchEvents asks Frigate for nothing with an empty set, and keeps only the
\* hits in the set of what Frigate answers.
SearchEvents(cams) == {c \in IF cams = {} THEN {} ELSE Cameras : c \in cams}

\* ListCameras goes through the registry and leaves out what is not in the set.
ListCameras(cams) == {c \in Cameras : c \in cams}

\* cameraAccessible, before an event, a snapshot, a clip or a live view.
CameraAccessible(c, cams) == c \in cams

Limited(k, cams) ==
    CASE k = "events"  -> ListEvents(cams)
      [] k = "search"  -> SearchEvents(cams)
      [] k = "cameras" -> ListCameras(cams)
      [] k = "me"      -> cams
      [] OTHER         -> {c \in {k} : CameraAccessible(c, cams)}

All(k) == IF k \in Cameras THEN {k} ELSE Cameras

\* Mutant: no row is treated as a member without a scope.
M_Unknown(k) == All(k)

\* AccessibleCameras for an account that is not there: no cameras, not all.
Unknown(k) == Limited(k, {})

\* AccessibleCameras: the role.
ReadRole(r) ==
    /\ pc[r] = "role"
    /\ kind[r] # "settings"
    /\ \/ role[who[r]] = None /\ Answer(r, Unknown(kind[r]))
       \/ role[who[r]] = "admin" /\ Answer(r, All(kind[r]))
       \/ role[who[r]] = "member" /\ Goto(r, "cameras") /\ UNCHANGED shown
    /\ UNCHANGED <<accounts, tokens, kind, who, given, commands, parent, contested, out>>

\* AccessibleCameras: GetUserCameras, of a member.
ReadCameras(r) ==
    LET cams == scope[who[r]] IN
    /\ pc[r] = "cameras"
    /\ Answer(r, IF cams = {} THEN All(kind[r]) ELSE Limited(kind[r], cams))
    /\ UNCHANGED <<accounts, tokens, kind, who, given, commands, parent, contested, out>>

\* AdminOnly.
CheckAdmin(r) ==
    /\ pc[r] = "role"
    /\ kind[r] = "settings"
    /\ Answer(r, IF role[who[r]] = "admin" THEN {Settings} ELSE {})
    /\ UNCHANGED <<accounts, tokens, kind, who, given, commands, parent, contested, out>>

ReadFails(r) ==
    /\ Reading(r) /\ Faults
    /\ Forget(r)
    /\ UNCHANGED <<accounts, tokens, commands, parent, contested, out>>

\* A live view: the playlist that was answered names the next resource, which
\* is asked for with the same token and looked at anew.
HLSResource(r) ==
    /\ pc[r] = "answered"
    /\ kind[r] \in Cameras /\ shown[r] # {}
    /\ Goto(r, "role")
    /\ shown' = [shown EXCEPT ![r] = {}]
    /\ ever' = [ever EXCEPT ![r] = Rights(who[r])]
    /\ UNCHANGED <<accounts, tokens, kind, who, given, commands, parent, contested, out>>

Finish(r) ==
    /\ pc[r] = "answered"
    /\ Forget(r)
    /\ UNCHANGED <<accounts, tokens, commands, parent, contested, out>>

-----------------------------------------------------------------------------
(* beacon-admin.                                                           *)

SetUserRole(u, x) ==
    /\ u \in Accounts
    /\ role' = [role EXCEPT ![u] = x]
    /\ UNCHANGED <<scope, tokens, out>>

SetUserCameras(u, cams) ==
    /\ u \in Accounts
    /\ scope' = [scope EXCEPT ![u] = cams]
    /\ UNCHANGED <<role, tokens, out>>

\* The second statement of `beacon-admin revoke`.
RevokeAllRefreshTokens(u) ==
    /\ u \in Accounts
    /\ state' = [t \in Tokens |-> IF t \in LiveOf(u) THEN "revoked" ELSE state[t]]
    /\ out' = IF \E t \in Tokens : holder[t] = u /\ Holding(t) # {}
              THEN out ELSE out \cup {u}
    /\ UNCHANGED <<accounts, holder, next>>

\* The account goes with its scope and its tokens.
DeleteUser(u) ==
    /\ u \in Accounts
    /\ role' = [role EXCEPT ![u] = None]
    /\ scope' = [scope EXCEPT ![u] = {}]
    /\ state' = [t \in Tokens |-> IF holder[t] = u THEN "deleted" ELSE state[t]]
    /\ out' = out \cup {u}
    /\ UNCHANGED <<holder, next>>

Command ==
    /\ commands < MaxCommands
    /\ commands' = commands + 1
    /\ \E u \in Users :
        \/ \E x \in Roles : SetUserRole(u, x)
        \/ \E cams \in Scopes : SetUserCameras(u, cams)
        \/ RevokeAllRefreshTokens(u)
        \/ DeleteUser(u)
    /\ UNCHANGED <<pc, request, parent, contested>>

-----------------------------------------------------------------------------
\* A request that reads remembers what its user was entitled to meanwhile.
Remember ==
    ever' = [r \in Reqs |-> IF Reading(r)' THEN ever[r] \cup Rights(who[r])'
                            ELSE ever[r]]

Refreshing(r) ==
    \/ StartRefresh(r) \/ Lookup(r) \/ LookupFails(r) \/ Revoke(r)
    \/ RevokeFails(r) \/ IssueTokens(r) \/ IssueFails(r)

Request(r) ==
    \/ Refreshing(r)
    \/ (\/ StartRead(r) \/ GetUser(r) \/ ReadRole(r) \/ ReadCameras(r)
        \/ CheckAdmin(r)) /\ Remember
    \/ HLSResource(r) \/ ReadFails(r) \/ Finish(r)

Next ==
    \/ \E r \in Reqs : Request(r)
    \/ \E u \in Users : SignIn(u)
    \/ \E t \in Tokens : Expire(t)
    \/ Command /\ Remember

Spec == Init /\ [][Next]_vars

-----------------------------------------------------------------------------
(* Properties.                                                             *)

\* AccessibleCameras and AdminOnly: an answer shows only what its user was
\* entitled to at some moment of the request, though role and scope are read
\* apart and change in between.  An account that is deleted in between is
\* left out (its scope is gone, which reads as none), and so is the list of
\* events for one that was gone before: see NoAccountSeesNothing.
ShownWasEntitled ==
    \A r \in Reqs :
        \/ shown[r] \subseteq ever[r]
        \/ who[r] \notin Accounts /\ (ever[r] # {} \/ kind[r] = "events")

\* AccessibleCameras: "Otherwise cams is the exact set the member is scoped to
\* (possibly empty = sees nothing)": a user of whom there was no account at
\* any moment of the request is shown nothing.
NoAccountSeesNothing ==
    \A r \in Reqs : pc[r] = "answered" /\ ever[r] = {} => shown[r] = {}

\* `beacon-admin revoke` and `delete-user`: a person thrown out has no token to
\* refresh with until the next sign-in, whatever old tokens are presented; for
\* a revocation, if no refresh was past its lookup.
RevokedStaysOut == \A u \in out : LiveOf(u) = {}

\* Refresh: a token is exchanged for one other, unless two requests hold it at
\* the same time or its revocation fails.
ExchangedOnce ==
    \A x, y \in Tokens : parent[x] # None /\ parent[x] = parent[y] =>
        x = y \/ parent[x] \in contested

\* Refresh: it ends the token it was given and no other, so that a person's
\* other devices stay signed in; only a command ends them all.
OthersStaySignedIn ==
    [][\A t \in Tokens : state[t] = "live" /\ state'[t] = "revoked" =>
         Holding(t) # {} \/ (pc' = pc /\ LiveOf(holder[t])' = {})]_vars
=============================================================================
