------------------------------ MODULE Accounts ------------------------------
(***************************************************************************)
(* The account tables of the gateway's SQLite database and the statements  *)
(* that internal/auth/store.go and internal/auth/invites.go run on them.   *)
(*                                                                         *)
(* The pool holds one connection (internal/db/db.go), so a statement, or a *)
(* transaction, is one step.  Foreign keys are on: a row that names a user *)
(* cannot be inserted without that user and goes, or forgets it, with it.  *)
(*                                                                         *)
(* User ids are uuids in the code.  Here the n-th account ever created is  *)
(* number n: ids are never reused, and the order of ids is the order in    *)
(* which a scan of the users table meets the rows.                         *)
(***************************************************************************)
EXTENDS Naturals, FiniteSets

CONSTANTS
    Identities,     \* (provider, subject) pairs
    DevIdentities,  \* those only `beacon-admin create-user` makes
    Emails,
    EmailOf,        \* the email an identity asserts
    Verified,       \* the identities whose provider vouches for that email
    Codes,          \* invite codes
    Scopes,         \* the camera sets an admin hands out; {} is "no scope"
    MaxUsers,       \* bound: accounts ever created
    None            \* SQL NULL, no row, no value

Roles == {"member", "admin"}

ASSUME AccountsAssumption ==
    /\ DevIdentities \subseteq Identities
    /\ EmailOf \in [Identities -> Emails]
    /\ Verified \subseteq Identities \ DevIdentities
    /\ {} \in Scopes
    /\ MaxUsers \in Nat
    /\ None \notin Codes \cup Identities \cup Emails \cup Roles \cup Nat

Users == 1 .. MaxUsers

InviteStates == {"unminted", "pending", "expired", "consumed", "deleted"}
Invites == [state : InviteStates, role : Roles, cams : Scopes, by : Users \cup {None}]

VARIABLES
    role,       \* users.role; None where there is no row
    email,      \* users.email
    owner,      \* user_identities: the account an identity belongs to
    scope,      \* user_cameras: the cameras a member is limited to
    invite,     \* the invites table
    listed,     \* allowed_emails, remembering what was ever in it
    sessions,   \* accounts holding refresh tokens
    nextUser    \* number of the next account

tables == <<role, email, owner, scope, invite, listed, sessions, nextUser>>

Accounts == {u \in Users : role[u] # None}

AccountsTypeOK ==
    /\ role \in [Users -> Roles \cup {None}]
    /\ email \in [Users -> Emails \cup {None}]
    /\ owner \in [Identities -> Users \cup {None}]
    /\ scope \in [Users -> Scopes]
    /\ invite \in [Codes -> Invites]
    /\ listed \in [Emails -> {"never", "allowed", "revoked"}]
    /\ sessions \subseteq Users
    /\ nextUser \in 1 .. MaxUsers + 1

AccountsInit ==
    /\ role = [u \in Users |-> None]
    /\ email = [u \in Users |-> None]
    /\ owner = [i \in Identities |-> None]
    /\ scope = [u \in Users |-> {}]
    /\ invite = [c \in Codes |-> [state |-> "unminted", role |-> "member",
                                   cams |-> {}, by |-> None]]
    /\ listed = [e \in Emails |-> "never"]
    /\ sessions = {}
    /\ nextUser = 1

-----------------------------------------------------------------------------
(* Queries.                                                                *)

\* GetUserByEmail scans users and takes the first row that matches.
WithEmail(e) == {u \in Accounts : email[u] = e}
FirstWithEmail(e) == CHOOSE u \in WithEmail(e) : \A v \in WithEmail(e) : u <= v

\* Mutant: the check for consumed_at is missing.
M_Pending(c) == invite[c].state \in {"pending", "consumed"}

\* Invite.Pending, and the WHERE clause of ConsumeInvite.
Pending(c) == invite[c].state = "pending"

-----------------------------------------------------------------------------
(* Statements.                                                             *)

\* CreateUserWithIdentity: both rows in one transaction; a role it does not know
\* becomes a member's.
CreateUserWithIdentity(i, r) ==
    /\ nextUser <= MaxUsers
    /\ owner[i] = None
    /\ role' = [role EXCEPT ![nextUser] = IF r \in Roles THEN r ELSE "member"]
    /\ email' = [email EXCEPT ![nextUser] = EmailOf[i]]
    /\ owner' = [owner EXCEPT ![i] = nextUser]
    /\ nextUser' = nextUser + 1
    /\ UNCHANGED <<scope, invite, listed, sessions>>

\* Mutant: ON CONFLICT DO UPDATE SET user_id, the usual upsert.
M_LinkIdentity_Upsert(u, i) ==
    /\ u \in Accounts
    /\ owner' = [owner EXCEPT ![i] = u]
    /\ UNCHANGED <<role, email, scope, invite, listed, sessions, nextUser>>

\* Mutant: the account is found by email and the identity never recorded.
M_LinkIdentity_Forgotten(u, i) ==
    /\ u \in Accounts
    /\ UNCHANGED tables

\* LinkIdentity: INSERT ... ON CONFLICT DO NOTHING, so an identity that is
\* bound stays where it is.
LinkIdentity(u, i) ==
    /\ owner[i] # None \/ u \in Accounts
    /\ owner' = [owner EXCEPT ![i] = IF @ = None THEN u ELSE @]
    /\ UNCHANGED <<role, email, scope, invite, listed, sessions, nextUser>>

\* SetUserCameras: delete and insert in one transaction.
SetUserCameras(u, cams) ==
    /\ u \in Accounts
    /\ scope' = [scope EXCEPT ![u] = cams]
    /\ UNCHANGED <<role, email, owner, invite, listed, sessions, nextUser>>

\* Mutant: an UPDATE by code alone, trusting the earlier read.
M_ConsumeInvite(c, u) ==
    /\ u \in Accounts
    /\ invite' = [invite EXCEPT ![c].state = "consumed", ![c].by = u]
    /\ UNCHANGED <<role, email, owner, scope, listed, sessions, nextUser>>

\* ConsumeInvite: a conditional UPDATE that touches no row unless the invite
\* is still pending.
ConsumeInvite(c, u) ==
    /\ Pending(c) => u \in Accounts
    /\ invite' = IF Pending(c)
                 THEN [invite EXCEPT ![c].state = "consumed", ![c].by = u]
                 ELSE invite
    /\ UNCHANGED <<role, email, owner, scope, listed, sessions, nextUser>>

\* Mutant: no foreign key on refresh_tokens.user_id.
M_IssueRefreshToken(u) ==
    /\ sessions' = sessions \cup {u}
    /\ UNCHANGED <<role, email, owner, scope, invite, listed, nextUser>>

\* IssueRefreshToken.
IssueRefreshToken(u) ==
    /\ u \in Accounts
    /\ sessions' = sessions \cup {u}
    /\ UNCHANGED <<role, email, owner, scope, invite, listed, nextUser>>

\* Mutant: user_identities does not cascade.
M_DeleteUser(u) ==
    /\ u \in Accounts
    /\ role' = [role EXCEPT ![u] = None]
    /\ email' = [email EXCEPT ![u] = None]
    /\ scope' = [scope EXCEPT ![u] = {}]
    /\ sessions' = sessions \ {u}
    /\ UNCHANGED <<owner, invite, listed, nextUser>>

\* DeleteUser: the row goes with its identities, scope and tokens, and the
\* invite it used keeps its state but forgets it.
DeleteUser(u) ==
    /\ u \in Accounts
    /\ role' = [role EXCEPT ![u] = None]
    /\ email' = [email EXCEPT ![u] = None]
    /\ owner' = [i \in Identities |-> IF owner[i] = u THEN None ELSE owner[i]]
    /\ scope' = [scope EXCEPT ![u] = {}]
    /\ sessions' = sessions \ {u}
    /\ invite' = [c \in Codes |-> IF invite[c].by = u
                                  THEN [invite[c] EXCEPT !.by = None]
                                  ELSE invite[c]]
    /\ UNCHANGED <<listed, nextUser>>

SetUserRole(u, r) ==
    /\ u \in Accounts
    /\ role' = [role EXCEPT ![u] = r]
    /\ UNCHANGED <<email, owner, scope, invite, listed, sessions, nextUser>>

AllowEmail(e) ==
    /\ listed' = [listed EXCEPT ![e] = "allowed"]
    /\ UNCHANGED <<role, email, owner, scope, invite, sessions, nextUser>>

RevokeEmail(e) ==
    /\ listed[e] = "allowed"
    /\ listed' = [listed EXCEPT ![e] = "revoked"]
    /\ UNCHANGED <<role, email, owner, scope, invite, sessions, nextUser>>

\* CreateInvite: codes are random, so a code is minted once.
CreateInvite(c, r, cams) ==
    /\ invite[c].state = "unminted"
    /\ invite' = [invite EXCEPT ![c] = [state |-> "pending", role |-> r,
                                        cams |-> cams, by |-> None]]
    /\ UNCHANGED <<role, email, owner, scope, listed, sessions, nextUser>>

DeleteInvite(c) ==
    /\ invite[c].state \notin {"unminted", "deleted"}
    /\ invite' = [invite EXCEPT ![c].state = "deleted", ![c].by = None]
    /\ UNCHANGED <<role, email, owner, scope, listed, sessions, nextUser>>

\* The clock passes the invite's expires_at.
ExpireInvite(c) ==
    /\ Pending(c)
    /\ invite' = [invite EXCEPT ![c].state = "expired"]
    /\ UNCHANGED <<role, email, owner, scope, listed, sessions, nextUser>>

=============================================================================
