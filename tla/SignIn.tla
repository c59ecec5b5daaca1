------------------------------- MODULE SignIn -------------------------------
(***************************************************************************)
(* Provider sign-in (internal/api/handlers.go, completeProviderSignIn) by  *)
(* several requests at once, over the account tables of module Accounts.   *)
(*                                                                         *)
(* A request's control point pc[r] names the next statement it runs; the   *)
(* reads and writes of different requests, of the admin API and of the     *)
(* beacon-admin CLI interleave between statements.  A statement may fail   *)
(* (the client went away and its context is cancelled, the database is     *)
(* busy or its disk full) and the gateway may be restarted.                *)
(*                                                                         *)
(* Registration with the push relay, which finishSignIn starts in the      *)
(* background when RELAY_URL is set, is not in this module.                *)
(***************************************************************************)
EXTENDS Accounts

CONSTANTS
    Reqs,           \* sign-in requests the gateway serves at a time
    EnvAllowed,     \* APPLE_ALLOWED_EMAILS
    AdminEmails,    \* ADMIN_EMAILS
    Faults,         \* do statements fail and does the gateway restart?
    MaxInputs       \* bound: sign-ins received and admin commands run, in all

ASSUME SignInAssumption ==
    /\ EnvAllowed \subseteq Emails
    /\ AdminEmails \subseteq Emails
    /\ Codes \cap {"owner", "listed", "cli"} = {}
    /\ Faults \in BOOLEAN
    /\ MaxInputs \in Nat

VARIABLES
    pc,         \* the next statement of a request
    who,        \* the identity its provider token proves
    code,       \* the invite code it carries, if any
    pass,       \* what emailAllowed answered
    seen,       \* the invite it found pending, if any
    rank,       \* the role it will create the account with
    uid,        \* the account it resolved to
    revoking,   \* the email `beacon-admin revoke` is in the middle of revoking
    inputs,     \* sign-ins received and admin commands run so far
    \* History variables, which no guard reads:
    origin,     \* how an account came to be: an invite, an allowed email, ...
    granted     \* the scope last decided for it, by its invite or an admin

local == <<pc, who, code, pass, seen, rank, uid>>
history == <<origin, granted>>
vars == <<tables, local, revoking, inputs, history>>

Steps == {"idle", "identity", "email", "link", "gate", "invite", "role",
          "create", "scope", "redeem", "issue"}
Origins == Codes \cup {"owner", "listed", "cli"}

RequestsTypeOK ==
    /\ pc \in [Reqs -> Steps]
    /\ who \in [Reqs -> Identities \cup {None}]
    /\ code \in [Reqs -> Codes \cup {None}]
    /\ pass \in [Reqs -> BOOLEAN]
    /\ seen \in [Reqs -> Codes \cup {None}]
    /\ rank \in [Reqs -> Roles]
    /\ uid \in [Reqs -> Users \cup {None}]

TypeOK ==
    /\ AccountsTypeOK
    /\ RequestsTypeOK
    /\ revoking \in Emails \cup {None}
    /\ inputs \in 0 .. MaxInputs
    /\ origin \in [Users -> Origins \cup {None}]
    /\ granted \in [Users -> Scopes]

Init ==
    /\ AccountsInit
    /\ pc = [r \in Reqs |-> "idle"]
    /\ who = [r \in Reqs |-> None]
    /\ code = [r \in Reqs |-> None]
    /\ pass = [r \in Reqs |-> FALSE]
    /\ seen = [r \in Reqs |-> None]
    /\ rank = [r \in Reqs |-> "member"]
    /\ uid = [r \in Reqs |-> None]
    /\ revoking = None
    /\ inputs = 0
    /\ origin = [u \in Users |-> None]
    /\ granted = [u \in Users |-> {}]

-----------------------------------------------------------------------------
(* Moving a request on, and answering it.                                  *)

Goto(r, l) == pc' = [pc EXCEPT ![r] = l]

Answer(r) ==
    /\ pc' = [pc EXCEPT ![r] = "idle"]
    /\ who' = [who EXCEPT ![r] = None]
    /\ code' = [code EXCEPT ![r] = None]
    /\ pass' = [pass EXCEPT ![r] = FALSE]
    /\ seen' = [seen EXCEPT ![r] = None]
    /\ rank' = [rank EXCEPT ![r] = "member"]
    /\ uid' = [uid EXCEPT ![r] = None]

\* How a read that may fail without failing the request can end.
Outcomes == IF Faults THEN BOOLEAN ELSE {TRUE}

\* A valid provider token arrived.
Start(r) ==
    /\ pc[r] = "idle"
    /\ inputs < MaxInputs
    /\ inputs' = inputs + 1
    /\ Goto(r, "identity")
    /\ \E i \in Identities \ DevIdentities : who' = [who EXCEPT ![r] = i]
    /\ \E c \in Codes \cup {None} : code' = [code EXCEPT ![r] = c]
    /\ UNCHANGED <<tables, pass, seen, rank, uid, revoking, history>>

\* Mutant: an unknown identity goes straight to the gate.
M_LookupIdentity(r) ==
    /\ pc[r] = "identity"
    /\ uid' = [uid EXCEPT ![r] = owner[who[r]]]
    /\ Goto(r, IF owner[who[r]] # None THEN "issue" ELSE "gate")
    /\ UNCHANGED <<tables, who, code, pass, seen, rank, revoking, inputs, history>>

\* 1. A known identity signs in to its account.
LookupIdentity(r) ==
    /\ pc[r] = "identity"
    /\ \/ /\ owner[who[r]] # None
          /\ uid' = [uid EXCEPT ![r] = owner[who[r]]]
          /\ Goto(r, "issue")
       \/ /\ owner[who[r]] = None
          /\ Goto(r, IF who[r] \in Verified THEN "email" ELSE "gate")
          /\ UNCHANGED uid
    /\ UNCHANGED <<tables, who, code, pass, seen, rank, revoking, inputs, history>>

\* 2. A verified email that matches an account links the identity to it.
LookupEmail(r) ==
    LET e == EmailOf[who[r]] IN
    /\ pc[r] = "email"
    /\ \/ /\ WithEmail(e) # {}
          /\ uid' = [uid EXCEPT ![r] = FirstWithEmail(e)]
          /\ Goto(r, "link")
       \/ /\ WithEmail(e) = {}
          /\ Goto(r, "gate")
          /\ UNCHANGED uid
    /\ UNCHANGED <<tables, who, code, pass, seen, rank, revoking, inputs, history>>

\* LinkIdentity, then finishSignIn with the account that was looked up.
Link(r) ==
    /\ pc[r] = "link"
    /\ LinkIdentity(uid[r], who[r])
    /\ Goto(r, "issue")
    /\ UNCHANGED <<who, code, pass, seen, rank, uid, revoking, inputs, history>>

\* 3. A new account.  emailAllowed reads the configured list, then the table;
\* a failed read counts as not allowed.
CheckAllowlist(r) ==
    LET e == EmailOf[who[r]] IN
    /\ pc[r] = "gate"
    /\ \E ok \in Outcomes :
        pass' = [pass EXCEPT ![r] = e \in EnvAllowed \/ (ok /\ listed[e] = "allowed")]
    /\ Goto(r, "invite")
    /\ UNCHANGED <<tables, who, code, seen, rank, uid, revoking, inputs, history>>

\* Mutant: a code that is not on file, or whose lookup failed, counts.
M_CheckInvite(r) ==
    /\ pc[r] = "invite"
    /\ \/ /\ pass[r] \/ code[r] # None
          /\ seen' = [seen EXCEPT ![r] = code[r]]
          /\ Goto(r, "role")
          /\ UNCHANGED <<who, code, pass, rank, uid>>
       \/ /\ ~ pass[r] /\ code[r] = None
          /\ Answer(r)
    /\ UNCHANGED <<tables, revoking, inputs, history>>

\* The invite counts if the code was entered, is on file and is pending.  With
\* neither an allowed email nor an invite the request is rejected.
CheckInvite(r) ==
    /\ pc[r] = "invite"
    /\ \E ok \in Outcomes :
        LET found == ok /\ code[r] # None /\ Pending(code[r]) IN
        \/ /\ pass[r] \/ found
           /\ seen' = [seen EXCEPT ![r] = IF found THEN code[r] ELSE None]
           /\ Goto(r, "role")
           /\ UNCHANGED <<who, code, pass, rank, uid>>
        \/ /\ ~ (pass[r] \/ found)
           /\ Answer(r)
    /\ UNCHANGED <<tables, revoking, inputs, history>>

\* Mutant: the count is off by one.
M_PickRole_OffByOne(r) ==
    /\ pc[r] = "role"
    /\ rank' = [rank EXCEPT ![r] =
                  IF seen[r] # None THEN invite[seen[r]].role
                  ELSE IF EmailOf[who[r]] \in AdminEmails \/ Cardinality(Accounts) <= 1
                       THEN "admin" ELSE "member"]
    /\ Goto(r, "create")
    /\ UNCHANGED <<tables, who, code, pass, seen, uid, revoking, inputs, history>>

\* Mutant: a failed count leaves the role blank; the account would be a member's.
M_PickRole_Blank(r) ==
    /\ pc[r] = "role"
    /\ \E ok \in Outcomes :
        rank' = [rank EXCEPT ![r] = IF seen[r] # None THEN invite[seen[r]].role
                                    ELSE IF ok THEN "member" ELSE None]
    /\ Goto(r, "create")
    /\ UNCHANGED <<tables, who, code, pass, seen, uid, revoking, inputs, history>>

\* roleForNewUser, which the invite's role overrides.
PickRole(r) ==
    /\ pc[r] = "role"
    /\ \E ok \in Outcomes :
        LET earned == EmailOf[who[r]] \in AdminEmails \/ (ok /\ Accounts = {})
        IN  rank' = [rank EXCEPT ![r] =
                       IF seen[r] # None THEN invite[seen[r]].role
                       ELSE IF earned THEN "admin" ELSE "member"]
    /\ Goto(r, "create")
    /\ UNCHANGED <<tables, who, code, pass, seen, uid, revoking, inputs, history>>

\* The role and the camera scope of an invite were read with it and never
\* change; the row is still there for them to be named, deleted or not.
Create(r) ==
    /\ pc[r] = "create"
    /\ CreateUserWithIdentity(who[r], rank[r])
    /\ uid' = [uid EXCEPT ![r] = nextUser]
    /\ origin' = [origin EXCEPT ![nextUser] =
                    CASE seen[r] # None -> seen[r]
                      [] seen[r] = None /\ rank[r] = "admin"
                           /\ EmailOf[who[r]] \notin AdminEmails -> "owner"
                      [] OTHER -> "listed"]
    /\ granted' = [granted EXCEPT ![nextUser] =
                     IF seen[r] # None THEN invite[seen[r]].cams ELSE {}]
    /\ Goto(r, IF seen[r] = None THEN "issue"
               ELSE IF invite[seen[r]].cams = {} THEN "redeem" ELSE "scope")
    /\ UNCHANGED <<who, code, pass, seen, rank, revoking, inputs>>

\* Mutant: the scope is recorded as applied and the write forgotten.
M_ApplyScope(r) ==
    /\ pc[r] = "scope"
    /\ granted' = [granted EXCEPT ![uid[r]] = invite[seen[r]].cams]
    /\ Goto(r, "redeem")
    /\ UNCHANGED <<tables, who, code, pass, seen, rank, uid, revoking, inputs, origin>>

\* SetUserCameras with the invite's scope: logged if it fails.
ApplyScope(r) ==
    /\ pc[r] = "scope"
    /\ SetUserCameras(uid[r], invite[seen[r]].cams)
    /\ granted' = [granted EXCEPT ![uid[r]] = invite[seen[r]].cams]
    /\ Goto(r, "redeem")
    /\ UNCHANGED <<who, code, pass, seen, rank, uid, revoking, inputs, origin>>

\* Mutant: the new account is looked up again by its email.
M_Redeem(r) ==
    /\ pc[r] = "redeem"
    /\ WithEmail(EmailOf[who[r]]) # {}
    /\ ConsumeInvite(seen[r], FirstWithEmail(EmailOf[who[r]]))
    /\ Goto(r, "issue")
    /\ UNCHANGED <<who, code, pass, seen, rank, uid, revoking, inputs, history>>

\* ConsumeInvite: its answer is logged, not acted on.
Redeem(r) ==
    /\ pc[r] = "redeem"
    /\ ConsumeInvite(seen[r], uid[r])
    /\ Goto(r, "issue")
    /\ UNCHANGED <<who, code, pass, seen, rank, uid, revoking, inputs, history>>

\* issueTokens: the request is answered with tokens for its account.
Issue(r) ==
    /\ pc[r] = "issue"
    /\ IssueRefreshToken(uid[r])
    /\ Answer(r)
    /\ UNCHANGED <<revoking, inputs, history>>

\* A primary or foreign key refuses the next statement.
Refused(r) ==
    \/ pc[r] = "link" /\ owner[who[r]] = None /\ uid[r] \notin Accounts
    \/ pc[r] = "create" /\ owner[who[r]] # None
    \/ pc[r] = "scope" /\ uid[r] \notin Accounts
    \/ pc[r] = "redeem" /\ Pending(seen[r]) /\ uid[r] \notin Accounts
    \/ pc[r] = "issue" /\ uid[r] \notin Accounts

\* A statement fails.  The request is answered with an error, except that
\* the invite's scope and its consumption are best effort.
StatementFails(r) ==
    /\ Faults \/ Refused(r)
    /\ \/ /\ pc[r] \in {"identity", "email", "link", "create", "issue"}
          /\ Answer(r)
       \/ /\ pc[r] = "scope"
          /\ Goto(r, "redeem")
          /\ UNCHANGED <<who, code, pass, seen, rank, uid>>
       \/ /\ pc[r] = "redeem"
          /\ Goto(r, "issue")
          /\ UNCHANGED <<who, code, pass, seen, rank, uid>>
    /\ UNCHANGED <<tables, revoking, inputs, history>>

-----------------------------------------------------------------------------
(* The gateway restarts: requests in flight are lost, the tables stay.     *)

Restart ==
    /\ Faults
    /\ \E r \in Reqs : pc[r] # "idle"
    /\ pc' = [r \in Reqs |-> "idle"]
    /\ who' = [r \in Reqs |-> None]
    /\ code' = [r \in Reqs |-> None]
    /\ pass' = [r \in Reqs |-> FALSE]
    /\ seen' = [r \in Reqs |-> None]
    /\ rank' = [r \in Reqs |-> "member"]
    /\ uid' = [r \in Reqs |-> None]
    /\ UNCHANGED <<tables, revoking, inputs, history>>

-----------------------------------------------------------------------------
(* The admin API and the beacon-admin CLI.                                 *)

\* create-user: FindOrCreateUser returns the account if it is there.
CmdCreateUser(i, r) ==
    /\ i \in DevIdentities
    /\ CreateUserWithIdentity(i, r)
    /\ origin' = [origin EXCEPT ![nextUser] = "cli"]
    /\ UNCHANGED <<local, revoking, granted>>

CmdSetRole(u, r) ==
    /\ role[u] # r
    /\ SetUserRole(u, r)
    /\ UNCHANGED <<local, revoking, history>>

CmdSetCameras(u, cams) ==
    /\ SetUserCameras(u, cams)
    /\ granted' = [granted EXCEPT ![u] = cams]
    /\ UNCHANGED <<local, revoking, origin>>

CmdDeleteUser(u) ==
    /\ DeleteUser(u)
    /\ granted' = [granted EXCEPT ![u] = {}]
    /\ UNCHANGED <<local, revoking, origin>>

CmdAllow(e) ==
    /\ AllowEmail(e)
    /\ UNCHANGED <<local, revoking, history>>

\* revoke: the email leaves the allowlist ...
CmdRevoke(e) ==
    /\ revoking = None
    /\ RevokeEmail(e)
    /\ revoking' = e
    /\ UNCHANGED <<local, history>>

\* ... and then the account with that email loses its refresh tokens, unless
\* the command is interrupted in between.
CmdRevokeSessions ==
    /\ revoking # None
    /\ revoking' = None
    /\ \/ /\ WithEmail(revoking) # {}
          /\ sessions' = sessions \ {FirstWithEmail(revoking)}
       \/ /\ Faults \/ WithEmail(revoking) = {}
          /\ UNCHANGED sessions
    /\ UNCHANGED <<role, email, owner, scope, invite, listed, nextUser,
                   local, inputs, history>>

InviteCreate(c, r, cams) ==
    /\ CreateInvite(c, r, cams)
    /\ UNCHANGED <<local, revoking, history>>

InviteDelete(c) ==
    /\ DeleteInvite(c)
    /\ UNCHANGED <<local, revoking, history>>

InviteExpires(c) ==
    /\ ExpireInvite(c)
    /\ UNCHANGED <<local, revoking, inputs, history>>

-----------------------------------------------------------------------------
Request(r) ==
    \/ Start(r) \/ LookupIdentity(r) \/ LookupEmail(r) \/ Link(r)
    \/ CheckAllowlist(r) \/ CheckInvite(r) \/ PickRole(r) \/ Create(r)
    \/ ApplyScope(r) \/ Redeem(r) \/ Issue(r) \/ StatementFails(r)

Admin ==
    /\ inputs < MaxInputs
    /\ inputs' = inputs + 1
    /\ \/ \E i \in DevIdentities, r \in Roles : CmdCreateUser(i, r)
       \/ \E u \in Users, r \in Roles : CmdSetRole(u, r)
       \/ \E u \in Users, cams \in Scopes : CmdSetCameras(u, cams)
       \/ \E u \in Users : CmdDeleteUser(u)
       \/ \E e \in Emails : CmdAllow(e) \/ CmdRevoke(e)
       \/ \E c \in Codes, r \in Roles, cams \in Scopes : InviteCreate(c, r, cams)
       \/ \E c \in Codes : InviteDelete(c)

Next ==
    \/ \E r \in Reqs : Request(r)
    \/ Restart
    \/ Admin \/ CmdRevokeSessions
    \/ \E c \in Codes : InviteExpires(c)

Spec == Init /\ [][Next]_vars

-----------------------------------------------------------------------------
(* Properties that hold whatever fails and however requests interleave.    *)

\* An identity that is bound to an account leaves it only with the account:
\* no sequence of sign-ins moves it to another one ("we never silently move an
\* identity between accounts", LinkIdentity).
IdentityNeverMoves ==
    [][\A i \in Identities :
         owner[i] # None => \/ owner'[i] = owner[i]
                            \/ owner'[i] = None /\ role'[owner[i]] = None]_vars

\* Every row that names an account names one that exists, and every account
\* can be signed in to: it has an identity.  A crash or a lost statement
\* between the two inserts of an account, or a deletion that left a row behind,
\* would break it.
NoOrphans ==
    /\ \A i \in Identities : owner[i] # None => owner[i] \in Accounts
    /\ sessions \subseteq Accounts
    /\ \A u \in Users : scope[u] # {} => u \in Accounts
    /\ \A c \in Codes : invite[c].by # None => invite[c].by \in Accounts
    /\ \A u \in Accounts : \E i \in Identities : owner[i] = u

\* A sign-in is never answered with tokens for an account that is somebody
\* else's or has gone: the account holds the identity, or it has the email the
\* identity's provider vouched for.
AnsweredForItsPerson ==
    [][\A r \in Reqs :
         Issue(r) => \/ owner[who[r]] = uid[r]
                     \/ who[r] \in Verified /\ email[uid[r]] = EmailOf[who[r]]]_vars

\* Once an invite is redeemed the record of who redeemed it is not handed to
\* another account, however many requests found it pending, and it never
\* becomes redeemable again.
RedemptionIsFinal ==
    [][\A c \in Codes :
         invite[c].state = "consumed" =>
            /\ invite'[c].state \in {"consumed", "deleted"}
            /\ invite'[c].by \in {invite[c].by, None}]_vars

\* The account on record as an invite's redeemer is one that came in on it.
RedeemerCameIn ==
    \A c \in Codes : invite[c].by # None => origin[invite[c].by] = c

\* Nobody gets an account by signing in unless the owner opened the door:
\* their email was at some time allowed, or they came in on an invite that
\* somebody minted.
AccountsWereAdmitted ==
    \A u \in Accounts :
        \/ origin[u] = "cli"
        \/ origin[u] \in Codes /\ invite[origin[u]].state # "unminted"
        \/ email[u] \in EnvAllowed \/ (email[u] # None /\ listed[email[u]] # "never")

-----------------------------------------------------------------------------
(* Properties that hold while sign-ins do not overlap, two of them only if *)
(* nothing fails either: module SignInLoads.                               *)

\* README: "Invites are single-use": no two accounts came in on one invite.
InviteSingleUse ==
    \A u, v \in Accounts : origin[u] \in Codes /\ origin[u] = origin[v] => u = v

\* 0009_identities.sql: "the same person (matched on verified email) is one
\* account across both" providers, unless one of two accounts was made for that
\* email by create-user: in the middle of the sign-in that makes the other one
\* nothing stops the command, and the person's next provider may find either.
OneAccountPerPerson ==
    \A i, j \in Verified :
        EmailOf[i] = EmailOf[j] /\ owner[i] # None /\ owner[j] # None
            => owner[i] = owner[j] \/ "cli" \in {origin[owner[i]], origin[owner[j]]}

\* README: "The first person to sign in becomes the admin": at most one account
\* is made admin for being the first.
OneOwner ==
    \A u, v \in Accounts : origin[u] = "owner" /\ origin[v] = "owner" => u = v

\* 0007_invites.sql: the sign-in "creates their account with that role/scope":
\* nobody holds tokens for an account whose scope is not yet the one decided
\* for it (no scope rows means the account sees every camera).
ScopedBeforeTokens == \A u \in sessions : scope[u] = granted[u]

\* completeProviderSignIn: "an existing linked (provider, sub) -> that user",
\* and "the existing binding wins" (LinkIdentity): a sign-in that succeeds is
\* answered with tokens for the account its identity belongs to at that moment.
AnswersItsIdentity == \A r \in Reqs : Issue(r) => owner[who[r]] = uid[r]
AnsweredForItsIdentity == [][AnswersItsIdentity]_vars
=============================================================================
