---------------------------- MODULE SignInProofs ----------------------------
(***************************************************************************)
(* Proofs about SignIn and SignInLoads, for any sets of requests,          *)
(* identities, emails and codes and any bounds: the type invariant and the *)
(* six safety properties that hold whatever fails and however requests     *)
(* interleave, then the five that hold while sign-ins do not overlap or on *)
(* a quiet gateway.                                                        *)
(*                                                                         *)
(* None of them is inductive alone.  What a request does next rests on     *)
(* what it read some statements ago, so the inductive invariant IInv adds  *)
(* what a request in flight may still rely on: the account it resolved to  *)
(* was created earlier and, if it still exists, is its person's            *)
(* (HoldsIdentity); the invite it holds was minted and is the origin of    *)
(* the account it created (InFlight); it passed the gate on an email that  *)
(* was listed or on an invite (Admitted).  These survive the steps of the  *)
(* other requests and of the admin because the tables only move forward    *)
(* (Forward).  SInv and QInv, further down, add what the only request at   *)
(* work may rely on.                                                       *)
(***************************************************************************)
EXTENDS SignInLoads, TLAPS, WellFoundedInduction

\* A number some account has had.
Born(u) == u \in Users /\ u < nextUser

Unborn == \A u \in Users : u >= nextUser => role[u] = None

\* The owner listed this email at some time.
Welcome(e) == e \in EnvAllowed \/ listed[e] # "never"

InFlight ==
    \A r \in Reqs :
        /\ pc[r] # "idle" => who[r] \in Identities
        /\ pc[r] \in {"link", "scope", "redeem", "issue"} => Born(uid[r])
        /\ pc[r] \in {"scope", "redeem"} =>
              seen[r] # None /\ origin[uid[r]] = seen[r]

Admitted ==
    \A r \in Reqs :
        /\ pass[r] => who[r] \in Identities /\ Welcome(EmailOf[who[r]])
        /\ seen[r] # None => invite[seen[r]].state # "unminted"
        /\ pc[r] \in {"role", "create"} => pass[r] \/ seen[r] # None
        /\ pc[r] \in {"idle", "identity", "email", "gate"} => ~ pass[r]

HoldsIdentity ==
    \A r \in Reqs :
        /\ pc[r] \in {"email", "link"} => who[r] \in Verified
        /\ pc[r] = "link" /\ uid[r] \in Accounts => email[uid[r]] = EmailOf[who[r]]
        /\ pc[r] \in {"scope", "redeem", "issue"} /\ uid[r] \in Accounts =>
              \/ owner[who[r]] = uid[r]
              \/ who[r] \in Verified /\ email[uid[r]] = EmailOf[who[r]]

IInv ==
    /\ TypeOK
    /\ Unborn
    /\ InFlight
    /\ Admitted
    /\ HoldsIdentity
    /\ NoOrphans
    /\ RedeemerCameIn
    /\ AccountsWereAdmitted

\* How a step may change the tables.
Forward ==
    /\ nextUser' >= nextUser
    /\ \A u \in Users : u < nextUser =>
          /\ origin'[u] = origin[u]
          /\ role'[u] # None => role[u] # None /\ email'[u] = email[u]
    /\ \A i \in Identities :
          owner[i] # None => \/ owner'[i] = owner[i]
                             \/ owner'[i] = None /\ role'[owner[i]] = None
    /\ \A c \in Codes : invite[c].state # "unminted" => invite'[c].state # "unminted"
    /\ \A e \in Emails : listed[e] # "never" => listed'[e] # "never"

-----------------------------------------------------------------------------

\* The query by email answers the first account that has it: the set of matching
\* accounts, not empty, has a least element because < is well-founded on Nat.
LEMMA FirstWithEmailIn ==
    ASSUME NEW e, WithEmail(e) # {}
    PROVE  /\ FirstWithEmail(e) \in WithEmail(e)
           /\ \A v \in WithEmail(e) : FirstWithEmail(e) <= v
<1> DEFINE R == {p \in Nat \X Nat : p[1] < p[2]}
<1>1. WithEmail(e) \subseteq Nat
  BY AccountsAssumption DEF WithEmail, Accounts, Users
<1>2. IsWellFoundedOn(R, Nat)
  BY NatLessThanWellFounded DEF OpToRel
<1> HIDE DEF R
<1>3. PICK u \in WithEmail(e) : \A v \in WithEmail(e) : ~ (<<v, u>> \in R)
  <2> DEFINE T == WithEmail(e)
  <2>1. T \subseteq Nat /\ T # {}
    BY <1>1
  <2> HIDE DEF T
  <2>2. \E x \in T : \A y \in T : ~ (<<y, x>> \in R)
    BY <1>2, <2>1, WFMin
  <2> QED BY <2>2 DEF T
<1>4. ASSUME NEW v \in WithEmail(e) PROVE u <= v
  <2>1. u \in Nat /\ v \in Nat
    BY <1>1
  <2>2. ASSUME v < u PROVE <<v, u>> \in R
    BY <2>1, <2>2 DEF R
  <2> QED BY <1>3, <2>1, <2>2
<1> QED BY <1>4 DEF FirstWithEmail

-----------------------------------------------------------------------------
(* Types.                                                                  *)

\* The statements of module Accounts keep the types of the tables.
LEMMA StatementTypes ==
    ASSUME AccountsTypeOK
    PROVE  /\ \A i \in Identities, r \in Roles : CreateUserWithIdentity(i, r) => AccountsTypeOK'
           /\ \A u \in Users, i \in Identities : LinkIdentity(u, i) => AccountsTypeOK'
           /\ \A u \in Users, s \in Scopes : SetUserCameras(u, s) => AccountsTypeOK'
           /\ \A c \in Codes, u \in Users : ConsumeInvite(c, u) => AccountsTypeOK'
           /\ \A u \in Users : IssueRefreshToken(u) \/ DeleteUser(u) => AccountsTypeOK'
           /\ \A u \in Users, r \in Roles : SetUserRole(u, r) => AccountsTypeOK'
           /\ \A e \in Emails : AllowEmail(e) \/ RevokeEmail(e) => AccountsTypeOK'
           /\ \A c \in Codes, r \in Roles, s \in Scopes : CreateInvite(c, r, s) => AccountsTypeOK'
           /\ \A c \in Codes : DeleteInvite(c) \/ ExpireInvite(c) => AccountsTypeOK'
<1> USE AccountsAssumption DEF AccountsTypeOK, Users
<1>1. ASSUME NEW i \in Identities, NEW r \in Roles, CreateUserWithIdentity(i, r)
      PROVE  AccountsTypeOK'
  BY <1>1 DEF CreateUserWithIdentity
<1>2. ASSUME NEW u \in Users, NEW i \in Identities, LinkIdentity(u, i)
      PROVE  AccountsTypeOK'
  BY <1>2 DEF LinkIdentity
<1>3. ASSUME NEW u \in Users, NEW s \in Scopes, SetUserCameras(u, s)
      PROVE  AccountsTypeOK'
  BY <1>3 DEF SetUserCameras
<1>4. ASSUME NEW c \in Codes, NEW u \in Users, ConsumeInvite(c, u)
      PROVE  AccountsTypeOK'
  <2>1. invite[c] \in Invites
    OBVIOUS
  <2>2. [invite[c] EXCEPT !.state = "consumed", !.by = u] \in Invites
    BY <2>1 DEF Invites, InviteStates
  <2>3. [invite EXCEPT ![c].state = "consumed", ![c].by = u] \in [Codes -> Invites]
    BY <2>2
  <2> QED BY <1>4, <2>3 DEF ConsumeInvite
<1>5. ASSUME NEW u \in Users, IssueRefreshToken(u)
      PROVE  AccountsTypeOK'
  BY <1>5 DEF IssueRefreshToken
<1>6. ASSUME NEW u \in Users, DeleteUser(u)
      PROVE  AccountsTypeOK'
  <2>1. ASSUME NEW c \in Codes
        PROVE  [invite[c] EXCEPT !.by = None] \in Invites
    <3>1. invite[c] \in Invites
      OBVIOUS
    <3> QED BY <3>1 DEF Invites, InviteStates
  <2>2. invite' \in [Codes -> Invites]
    BY <1>6, <2>1 DEF DeleteUser
  <2>3. owner' \in [Identities -> Users \cup {None}]
    BY <1>6 DEF DeleteUser
  <2> QED BY <1>6, <2>2, <2>3 DEF DeleteUser
<1>7. ASSUME NEW u \in Users, NEW r \in Roles, SetUserRole(u, r)
      PROVE  AccountsTypeOK'
  BY <1>7 DEF SetUserRole
<1>8. ASSUME NEW e \in Emails, AllowEmail(e) \/ RevokeEmail(e)
      PROVE  AccountsTypeOK'
  BY <1>8 DEF AllowEmail, RevokeEmail
<1>9. ASSUME NEW c \in Codes, NEW r \in Roles, NEW s \in Scopes, CreateInvite(c, r, s)
      PROVE  AccountsTypeOK'
  BY <1>9 DEF CreateInvite, Invites, InviteStates
<1>10. ASSUME NEW c \in Codes, DeleteInvite(c)
       PROVE  AccountsTypeOK'
  <2>1. invite[c] \in Invites
    OBVIOUS
  <2>2. [invite[c] EXCEPT !.state = "deleted", !.by = None] \in Invites
    BY <2>1 DEF Invites, InviteStates
  <2>3. [invite EXCEPT ![c].state = "deleted", ![c].by = None] \in [Codes -> Invites]
    BY <2>2
  <2> QED BY <1>10, <2>3 DEF DeleteInvite
<1>11. ASSUME NEW c \in Codes, ExpireInvite(c)
       PROVE  AccountsTypeOK'
  <2>1. invite[c] \in Invites
    OBVIOUS
  <2>2. [invite[c] EXCEPT !.state = "expired"] \in Invites
    BY <2>1 DEF Invites, InviteStates
  <2>3. [invite EXCEPT ![c].state = "expired"] \in [Codes -> Invites]
    BY <2>2
  <2> QED BY <1>11, <2>3 DEF ExpireInvite
<1> QED
  BY <1>1, <1>2, <1>3, <1>4, <1>5, <1>6, <1>7, <1>8, <1>9, <1>10, <1>11

\* Answering a request keeps the types of the requests.
LEMMA AnswerTypes ==
    ASSUME RequestsTypeOK, NEW r \in Reqs, Answer(r)
    PROVE  RequestsTypeOK'
BY AccountsAssumption DEF RequestsTypeOK, Answer, Steps, Roles

\* Every step keeps the types.
LEMMA TypeStep == IInv /\ [Next]_vars => TypeOK'
<1> SUFFICES ASSUME IInv, [Next]_vars PROVE TypeOK'
  OBVIOUS
<1> USE AccountsAssumption, SignInAssumption
<1>1. ASSUME NEW r \in Reqs, Start(r) PROVE TypeOK'
  <2>1. AccountsTypeOK'
    BY <1>1 DEF IInv, TypeOK, AccountsTypeOK, tables, Start
  <2>2. RequestsTypeOK'
    BY <1>1 DEF IInv, TypeOK, RequestsTypeOK, Steps, Roles, local, Start, Goto
  <2> QED BY <1>1, <2>1, <2>2 DEF IInv, TypeOK, Origins, history, Start
<1>2. ASSUME NEW r \in Reqs, LookupIdentity(r) PROVE TypeOK'
  <2>1. AccountsTypeOK'
    BY <1>2 DEF IInv, TypeOK, AccountsTypeOK, tables, LookupIdentity
  <2>2. who[r] \in Identities
    BY <1>2 DEF IInv, InFlight, LookupIdentity
  <2>3. owner[who[r]] \in Users \cup {None}
    BY <2>2 DEF IInv, TypeOK, AccountsTypeOK
  <2>4. RequestsTypeOK'
    BY <1>2, <2>3 DEF IInv, TypeOK, RequestsTypeOK, Steps, LookupIdentity, Goto
  <2> QED BY <1>2, <2>1, <2>4 DEF IInv, TypeOK, history, LookupIdentity
<1>3. ASSUME NEW r \in Reqs, LookupEmail(r) PROVE TypeOK'
  <2>1. AccountsTypeOK'
    BY <1>3 DEF IInv, TypeOK, AccountsTypeOK, tables, LookupEmail
  <2>2. ASSUME WithEmail(EmailOf[who[r]]) # {}
        PROVE  FirstWithEmail(EmailOf[who[r]]) \in Users
    BY <2>2, FirstWithEmailIn DEF WithEmail, Accounts
  <2>3. RequestsTypeOK'
    BY <1>3, <2>2 DEF IInv, TypeOK, RequestsTypeOK, Steps, LookupEmail, Goto
  <2> QED BY <1>3, <2>1, <2>3 DEF IInv, TypeOK, history, LookupEmail
<1>4. ASSUME NEW r \in Reqs, Link(r) PROVE TypeOK'
  <2>1. AccountsTypeOK'
    BY <1>4, StatementTypes DEF IInv, TypeOK, Link, InFlight, Born
  <2>2. RequestsTypeOK'
    BY <1>4 DEF IInv, TypeOK, RequestsTypeOK, Steps, Roles, local, Link, Goto
  <2> QED BY <1>4, <2>1, <2>2 DEF IInv, TypeOK, Origins, history, Link
<1>5. ASSUME NEW r \in Reqs, CheckAllowlist(r) PROVE TypeOK'
  <2>1. AccountsTypeOK'
    BY <1>5 DEF IInv, TypeOK, AccountsTypeOK, tables, CheckAllowlist
  <2>2. RequestsTypeOK'
    BY <1>5 DEF IInv, TypeOK, RequestsTypeOK, Steps, Roles, local,
        CheckAllowlist, Goto
  <2> QED BY <1>5, <2>1, <2>2 DEF IInv, TypeOK, Origins, history,
      CheckAllowlist
<1>6. ASSUME NEW r \in Reqs, CheckInvite(r) PROVE TypeOK'
  <2>1. AccountsTypeOK'
    BY <1>6 DEF IInv, TypeOK, AccountsTypeOK, tables, CheckInvite
  <2>2. RequestsTypeOK'
    BY <1>6, AnswerTypes DEF IInv, TypeOK, RequestsTypeOK, Steps, CheckInvite,
        Goto
  <2> QED BY <1>6, <2>1, <2>2 DEF IInv, TypeOK, Origins, history, CheckInvite
<1>7. ASSUME NEW r \in Reqs, PickRole(r) PROVE TypeOK'
  <2>1. AccountsTypeOK'
    BY <1>7 DEF IInv, TypeOK, AccountsTypeOK, tables, PickRole
  <2>2. ASSUME seen[r] # None PROVE invite[seen[r]].role \in Roles
    BY <2>2 DEF IInv, TypeOK, RequestsTypeOK, AccountsTypeOK, Invites
  <2>3. RequestsTypeOK'
    BY <1>7, <2>2 DEF IInv, TypeOK, RequestsTypeOK, Steps, Roles, PickRole,
        Goto
  <2> QED BY <1>7, <2>1, <2>3 DEF IInv, TypeOK, history, PickRole
<1>8. ASSUME NEW r \in Reqs, Create(r) PROVE TypeOK'
  <2>1. who[r] \in Identities /\ rank[r] \in Roles /\ seen[r] \in Codes \cup {None}
    BY <1>8 DEF IInv, TypeOK, RequestsTypeOK, InFlight, Create
  <2>2. AccountsTypeOK'
    BY <1>8, <2>1, StatementTypes DEF IInv, TypeOK, Create
  <2>3. nextUser \in Users
    BY <1>8 DEF IInv, TypeOK, AccountsTypeOK, Create, CreateUserWithIdentity,
        Users
  <2>4. RequestsTypeOK'
    BY <1>8, <2>3 DEF IInv, TypeOK, RequestsTypeOK, Steps, Create, Goto
  <2>5. origin' \in [Users -> Origins \cup {None}]
    BY <1>8, <2>1 DEF IInv, TypeOK, Origins, Create
  <2>6. granted' \in [Users -> Scopes]
    <3>1. seen[r] # None => invite[seen[r]].cams \in Scopes
      BY <2>1 DEF IInv, TypeOK, AccountsTypeOK, Invites
    <3> QED BY <1>8, <3>1 DEF IInv, TypeOK, Create
  <2> QED BY <1>8, <2>2, <2>4, <2>5, <2>6 DEF IInv, TypeOK, Create
<1>9. ASSUME NEW r \in Reqs, ApplyScope(r) PROVE TypeOK'
  <2>1. uid[r] \in Users /\ seen[r] \in Codes
    BY <1>9 DEF IInv, TypeOK, RequestsTypeOK, InFlight, Born, ApplyScope
  <2>2. invite[seen[r]].cams \in Scopes
    BY <2>1 DEF IInv, TypeOK, AccountsTypeOK, Invites
  <2>3. AccountsTypeOK'
    BY <1>9, <2>1, <2>2, StatementTypes DEF IInv, TypeOK, ApplyScope
  <2>4. RequestsTypeOK'
    BY <1>9 DEF IInv, TypeOK, RequestsTypeOK, Steps, Roles, local, ApplyScope,
        Goto
  <2> QED BY <1>9, <2>2, <2>3, <2>4 DEF IInv, TypeOK, ApplyScope
<1>10. ASSUME NEW r \in Reqs, Redeem(r) PROVE TypeOK'
  <2>1. uid[r] \in Users /\ seen[r] \in Codes
    BY <1>10 DEF IInv, TypeOK, RequestsTypeOK, InFlight, Born, Redeem
  <2>2. AccountsTypeOK'
    BY <1>10, <2>1, StatementTypes DEF IInv, TypeOK, Redeem
  <2>3. RequestsTypeOK'
    BY <1>10 DEF IInv, TypeOK, RequestsTypeOK, Steps, Roles, local, Redeem,
        Goto
  <2> QED BY <1>10, <2>2, <2>3 DEF IInv, TypeOK, history, Redeem
<1>11. ASSUME NEW r \in Reqs, Issue(r) PROVE TypeOK'
  <2>1. AccountsTypeOK'
    BY <1>11, StatementTypes DEF IInv, TypeOK, InFlight, Born, Issue
  <2>2. RequestsTypeOK'
    BY <1>11, AnswerTypes DEF IInv, TypeOK, Issue
  <2> QED BY <1>11, <2>1, <2>2 DEF IInv, TypeOK, Origins, history, Issue
<1>12. ASSUME NEW r \in Reqs, StatementFails(r) PROVE TypeOK'
  <2>1. AccountsTypeOK'
    BY <1>12 DEF IInv, TypeOK, AccountsTypeOK, tables, StatementFails
  <2>2. RequestsTypeOK'
    BY <1>12, AnswerTypes DEF IInv, TypeOK, RequestsTypeOK, Steps,
        StatementFails, Goto
  <2> QED BY <1>12, <2>1, <2>2 DEF IInv, TypeOK, Origins, history,
      StatementFails
<1>13. ASSUME Restart PROVE TypeOK'
  <2>1. AccountsTypeOK'
    BY <1>13 DEF IInv, TypeOK, AccountsTypeOK, tables, Restart
  <2>2. RequestsTypeOK'
    BY <1>13 DEF RequestsTypeOK, Restart, Steps, Roles
  <2> QED BY <1>13, <2>1, <2>2 DEF IInv, TypeOK, Origins, history, Restart
<1>14. ASSUME NEW i \in DevIdentities, NEW r \in Roles, CmdCreateUser(i, r),
              inputs < MaxInputs, inputs' = inputs + 1
       PROVE  TypeOK'
  <2>1. AccountsTypeOK'
    BY <1>14, StatementTypes DEF IInv, TypeOK, CmdCreateUser
  <2>2. RequestsTypeOK'
    BY <1>14 DEF IInv, TypeOK, RequestsTypeOK, Steps, Roles, local,
        CmdCreateUser, CreateUserWithIdentity
  <2>3. origin' \in [Users -> Origins \cup {None}]
    BY <1>14 DEF IInv, TypeOK, Origins, CmdCreateUser
  <2> QED BY <1>14, <2>1, <2>2, <2>3 DEF IInv, TypeOK, CmdCreateUser
<1>15. ASSUME NEW u \in Users, NEW r \in Roles, CmdSetRole(u, r), inputs <
              MaxInputs, inputs' = inputs + 1
       PROVE  TypeOK'
  <2>1. AccountsTypeOK'
    BY <1>15, StatementTypes DEF IInv, TypeOK, CmdSetRole
  <2>2. RequestsTypeOK'
    BY <1>15 DEF IInv, TypeOK, RequestsTypeOK, Steps, Roles, local, CmdSetRole,
        SetUserRole
  <2> QED BY <1>15, <2>1, <2>2 DEF IInv, TypeOK, Origins, history, CmdSetRole
<1>16. ASSUME NEW u \in Users, NEW cams \in Scopes, CmdSetCameras(u, cams),
              inputs < MaxInputs, inputs' = inputs + 1
       PROVE  TypeOK'
  <2>1. AccountsTypeOK'
    BY <1>16, StatementTypes DEF IInv, TypeOK, CmdSetCameras
  <2>2. RequestsTypeOK'
    BY <1>16 DEF IInv, TypeOK, RequestsTypeOK, Steps, Roles, local,
        CmdSetCameras, SetUserCameras
  <2> QED BY <1>16, <2>1, <2>2 DEF IInv, TypeOK, Origins, history,
      CmdSetCameras
<1>17. ASSUME NEW u \in Users, CmdDeleteUser(u), inputs < MaxInputs, inputs' =
              inputs + 1
       PROVE  TypeOK'
  <2>1. AccountsTypeOK'
    BY <1>17, StatementTypes DEF IInv, TypeOK, CmdDeleteUser
  <2>2. RequestsTypeOK'
    BY <1>17 DEF IInv, TypeOK, RequestsTypeOK, Steps, Roles, local,
        CmdDeleteUser, DeleteUser
  <2> QED BY <1>17, <2>1, <2>2 DEF IInv, TypeOK, Origins, history,
      CmdDeleteUser
<1>18. ASSUME NEW e \in Emails, CmdAllow(e), inputs < MaxInputs, inputs' =
              inputs + 1
       PROVE  TypeOK'
  <2>1. AccountsTypeOK'
    BY <1>18, StatementTypes DEF IInv, TypeOK, CmdAllow
  <2>2. RequestsTypeOK'
    BY <1>18 DEF IInv, TypeOK, RequestsTypeOK, Steps, Roles, local, CmdAllow,
        AllowEmail
  <2> QED BY <1>18, <2>1, <2>2 DEF IInv, TypeOK, Origins, history, CmdAllow
<1>19. ASSUME NEW e \in Emails, CmdRevoke(e), inputs < MaxInputs, inputs' =
              inputs + 1
       PROVE  TypeOK'
  <2>1. AccountsTypeOK'
    BY <1>19, StatementTypes DEF IInv, TypeOK, CmdRevoke
  <2>2. RequestsTypeOK'
    BY <1>19 DEF IInv, TypeOK, RequestsTypeOK, Steps, Roles, local, CmdRevoke,
        RevokeEmail
  <2> QED BY <1>19, <2>1, <2>2 DEF IInv, TypeOK, Origins, history, CmdRevoke
<1>20. ASSUME NEW c \in Codes, NEW r \in Roles, NEW cams \in Scopes,
              InviteCreate(c, r, cams), inputs < MaxInputs, inputs' = inputs +
              1
       PROVE  TypeOK'
  <2>1. AccountsTypeOK'
    BY <1>20, StatementTypes DEF IInv, TypeOK, InviteCreate
  <2>2. RequestsTypeOK'
    BY <1>20 DEF IInv, TypeOK, RequestsTypeOK, Steps, Roles, local,
        InviteCreate, CreateInvite
  <2> QED BY <1>20, <2>1, <2>2 DEF IInv, TypeOK, Origins, history, InviteCreate
<1>21. ASSUME NEW c \in Codes, InviteDelete(c), inputs < MaxInputs, inputs' =
              inputs + 1
       PROVE  TypeOK'
  <2>1. AccountsTypeOK'
    BY <1>21, StatementTypes DEF IInv, TypeOK, InviteDelete
  <2>2. RequestsTypeOK'
    BY <1>21 DEF IInv, TypeOK, RequestsTypeOK, Steps, Roles, local,
        InviteDelete, DeleteInvite
  <2> QED BY <1>21, <2>1, <2>2 DEF IInv, TypeOK, Origins, history, InviteDelete
<1>22. ASSUME CmdRevokeSessions PROVE TypeOK'
  <2>1. AccountsTypeOK'
    BY <1>22 DEF IInv, TypeOK, AccountsTypeOK, CmdRevokeSessions
  <2>2. RequestsTypeOK'
    BY <1>22 DEF IInv, TypeOK, RequestsTypeOK, Steps, Roles, local,
        CmdRevokeSessions
  <2> QED BY <1>22, <2>1, <2>2 DEF IInv, TypeOK, Origins, history,
      CmdRevokeSessions
<1>23. ASSUME NEW c \in Codes, InviteExpires(c) PROVE TypeOK'
  <2>1. AccountsTypeOK'
    BY <1>23, StatementTypes DEF IInv, TypeOK, InviteExpires
  <2>2. RequestsTypeOK'
    BY <1>23 DEF IInv, TypeOK, RequestsTypeOK, Steps, Roles, local,
        InviteExpires, ExpireInvite
  <2> QED BY <1>23, <2>1, <2>2 DEF IInv, TypeOK, Origins, history,
      InviteExpires
<1>24. CASE UNCHANGED vars
  BY <1>24 DEF IInv, TypeOK, AccountsTypeOK, RequestsTypeOK, vars, tables,
      local, history
<1> QED BY <1>1, <1>2, <1>3, <1>4, <1>5, <1>6, <1>7, <1>8, <1>9, <1>10, <1>11,
    <1>12, <1>13, <1>14, <1>15, <1>16, <1>17, <1>18, <1>19, <1>20, <1>21,
    <1>22, <1>23, <1>24 DEF Next, Request, Admin

-----------------------------------------------------------------------------
(* The other conjuncts of the invariant.                                   *)

\* What any step may do to the tables under the feet of the requests in flight:
\* account numbers are not reused, an account keeps its email, its origin and its
\* identities for as long as it exists, and neither a minted invite nor a listed
\* email is ever forgotten.
LEMMA StepsGoForward == IInv /\ [Next]_vars => Forward
<1> SUFFICES ASSUME IInv, [Next]_vars PROVE Forward
  OBVIOUS
<1> USE AccountsAssumption, SignInAssumption
            DEF IInv, TypeOK, AccountsTypeOK, Accounts, Users, tables,
          history, NoOrphans, Unborn, Forward
<1>1. ASSUME UNCHANGED <<tables, history>> PROVE Forward
  BY <1>1 DEF tables, history
<1>2. ASSUME NEW r \in Reqs, Link(r) PROVE Forward
  BY <1>2 DEF Link, Goto, LinkIdentity
<1>3. ASSUME NEW r \in Reqs, Create(r) PROVE Forward
  BY <1>3 DEF Create, Goto, CreateUserWithIdentity
<1>4. ASSUME NEW r \in Reqs, ApplyScope(r) PROVE Forward
  BY <1>4 DEF ApplyScope, Goto, SetUserCameras
<1>5. ASSUME NEW r \in Reqs, Redeem(r) PROVE Forward
  BY <1>5 DEF Redeem, Goto, ConsumeInvite
<1>6. ASSUME NEW r \in Reqs, Issue(r) PROVE Forward
  BY <1>6 DEF Issue, Answer, IssueRefreshToken
<1>7. ASSUME NEW i \in DevIdentities, NEW r \in Roles, CmdCreateUser(i, r)
      PROVE  Forward
  BY <1>7 DEF CmdCreateUser, CreateUserWithIdentity
<1>8. ASSUME NEW u \in Users, NEW r \in Roles, CmdSetRole(u, r) PROVE Forward
  BY <1>8 DEF CmdSetRole, SetUserRole
<1>9. ASSUME NEW u \in Users, NEW cams \in Scopes, CmdSetCameras(u, cams)
      PROVE  Forward
  BY <1>9 DEF CmdSetCameras, SetUserCameras
<1>10. ASSUME NEW u \in Users, CmdDeleteUser(u) PROVE Forward
  BY <1>10 DEF CmdDeleteUser, DeleteUser
<1>11. ASSUME NEW e \in Emails, CmdAllow(e) PROVE Forward
  BY <1>11 DEF CmdAllow, AllowEmail
<1>12. ASSUME NEW e \in Emails, CmdRevoke(e) PROVE Forward
  BY <1>12 DEF CmdRevoke, RevokeEmail
<1>13. ASSUME NEW c \in Codes, NEW r \in Roles, NEW cams \in Scopes,
              InviteCreate(c, r, cams)
       PROVE  Forward
  BY <1>13 DEF InviteCreate, CreateInvite
<1>14. ASSUME NEW c \in Codes, InviteDelete(c) PROVE Forward
  BY <1>14 DEF InviteDelete, DeleteInvite
<1>15. ASSUME CmdRevokeSessions PROVE Forward
  BY <1>15 DEF CmdRevokeSessions
<1>16. ASSUME NEW c \in Codes, InviteExpires(c) PROVE Forward
  BY <1>16 DEF InviteExpires, ExpireInvite
<1> QED BY <1>1, <1>2, <1>3, <1>4, <1>5, <1>6, <1>7, <1>8, <1>9, <1>10, <1>11,
      <1>12, <1>13, <1>14, <1>15, <1>16 DEF Next, Request, Admin, vars, Start,
      LookupIdentity, LookupEmail, CheckAllowlist, CheckInvite, PickRole,
      StatementFails, Restart

\* Every step keeps the numbers of future accounts free.
LEMMA UnbornStep == IInv /\ [Next]_vars => Unborn'
<1> SUFFICES ASSUME IInv, [Next]_vars PROVE Unborn'
  OBVIOUS
<1> USE AccountsAssumption, SignInAssumption
            DEF IInv, TypeOK, AccountsTypeOK, Accounts, Users, tables,
          history, Unborn
<1>1. ASSUME UNCHANGED <<tables, history>> PROVE Unborn'
  BY <1>1 DEF tables, history
<1>2. ASSUME NEW r \in Reqs, Link(r) PROVE Unborn'
  BY <1>2 DEF Link, Goto, LinkIdentity
<1>3. ASSUME NEW r \in Reqs, Create(r) PROVE Unborn'
  BY <1>3 DEF Create, Goto, CreateUserWithIdentity
<1>4. ASSUME NEW r \in Reqs, ApplyScope(r) PROVE Unborn'
  BY <1>4 DEF ApplyScope, Goto, SetUserCameras
<1>5. ASSUME NEW r \in Reqs, Redeem(r) PROVE Unborn'
  BY <1>5 DEF Redeem, Goto, ConsumeInvite
<1>6. ASSUME NEW r \in Reqs, Issue(r) PROVE Unborn'
  BY <1>6 DEF Issue, Answer, IssueRefreshToken
<1>7. ASSUME NEW i \in DevIdentities, NEW r \in Roles, CmdCreateUser(i, r)
      PROVE  Unborn'
  BY <1>7 DEF CmdCreateUser, CreateUserWithIdentity
<1>8. ASSUME NEW u \in Users, NEW r \in Roles, CmdSetRole(u, r) PROVE Unborn'
  BY <1>8 DEF CmdSetRole, SetUserRole
<1>9. ASSUME NEW u \in Users, NEW cams \in Scopes, CmdSetCameras(u, cams)
      PROVE  Unborn'
  BY <1>9 DEF CmdSetCameras, SetUserCameras
<1>10. ASSUME NEW u \in Users, CmdDeleteUser(u) PROVE Unborn'
  BY <1>10 DEF CmdDeleteUser, DeleteUser
<1>11. ASSUME NEW e \in Emails, CmdAllow(e) PROVE Unborn'
  BY <1>11 DEF CmdAllow, AllowEmail
<1>12. ASSUME NEW e \in Emails, CmdRevoke(e) PROVE Unborn'
  BY <1>12 DEF CmdRevoke, RevokeEmail
<1>13. ASSUME NEW c \in Codes, NEW r \in Roles, NEW cams \in Scopes,
              InviteCreate(c, r, cams)
       PROVE  Unborn'
  BY <1>13 DEF InviteCreate, CreateInvite
<1>14. ASSUME NEW c \in Codes, InviteDelete(c) PROVE Unborn'
  BY <1>14 DEF InviteDelete, DeleteInvite
<1>15. ASSUME CmdRevokeSessions PROVE Unborn'
  BY <1>15 DEF CmdRevokeSessions
<1>16. ASSUME NEW c \in Codes, InviteExpires(c) PROVE Unborn'
  BY <1>16 DEF InviteExpires, ExpireInvite
<1> QED BY <1>1, <1>2, <1>3, <1>4, <1>5, <1>6, <1>7, <1>8, <1>9, <1>10, <1>11,
      <1>12, <1>13, <1>14, <1>15, <1>16 DEF Next, Request, Admin, vars, Start,
      LookupIdentity, LookupEmail, CheckAllowlist, CheckInvite, PickRole,
      StatementFails, Restart

\* Every step keeps references and accounts together.
LEMMA NoOrphansStep == IInv /\ [Next]_vars => NoOrphans'
<1> SUFFICES ASSUME IInv, [Next]_vars PROVE NoOrphans'
  OBVIOUS
<1> USE AccountsAssumption, SignInAssumption
            DEF IInv, TypeOK, AccountsTypeOK, Accounts, Users, tables,
          history, Unborn, NoOrphans
<1>1. ASSUME UNCHANGED <<tables, history>> PROVE NoOrphans'
  BY <1>1 DEF tables, history
<1>2. ASSUME NEW r \in Reqs, Link(r) PROVE NoOrphans'
  BY <1>2 DEF Link, Goto, LinkIdentity, InFlight, Born
<1>3. ASSUME NEW r \in Reqs, Create(r) PROVE NoOrphans'
  <2>1. nextUser \in Users /\ who[r] \in Identities /\ rank[r] # None
    BY <1>3 DEF Create, CreateUserWithIdentity, InFlight, RequestsTypeOK
  <2>2. /\ Accounts' = Accounts \cup {nextUser}
        /\ owner' = [owner EXCEPT ![who[r]] = nextUser]
        /\ owner[who[r]] = None
        /\ UNCHANGED <<scope, invite, sessions>>
    <3>1. \E x \in Roles : role' = [role EXCEPT ![nextUser] = x]
      BY <1>3 DEF Create, CreateUserWithIdentity, Roles
    <3> QED BY <1>3, <2>1, <3>1 DEF Create, CreateUserWithIdentity
  <2>3. nextUser \notin Accounts
    BY <2>1
  <2>4. ASSUME NEW u \in Accounts' PROVE \E i \in Identities : owner'[i] = u
    <3>1. CASE u = nextUser
      BY <2>1, <2>2, <3>1
    <3>2. CASE u \in Accounts
      <4>1. PICK i \in Identities : owner[i] = u
        BY <3>2
      <4>2. owner'[i] = u
        BY <2>2, <4>1, <3>2
      <4> QED BY <4>2
    <3> QED BY <2>2, <3>1, <3>2
  <2>5. \A i \in Identities : owner'[i] # None => owner'[i] \in Accounts'
    BY <2>1, <2>2
  <2> QED BY <2>2, <2>4, <2>5
<1>4. ASSUME NEW r \in Reqs, ApplyScope(r) PROVE NoOrphans'
  BY <1>4 DEF ApplyScope, Goto, SetUserCameras, InFlight, Born
<1>5. ASSUME NEW r \in Reqs, Redeem(r) PROVE NoOrphans'
  BY <1>5 DEF Redeem, Goto, ConsumeInvite, InFlight, Born, Pending
<1>6. ASSUME NEW r \in Reqs, Issue(r) PROVE NoOrphans'
  BY <1>6 DEF Issue, Answer, IssueRefreshToken, InFlight, Born
<1>7. ASSUME NEW i \in DevIdentities, NEW r \in Roles, CmdCreateUser(i, r)
      PROVE  NoOrphans'
  BY <1>7 DEF CmdCreateUser, CreateUserWithIdentity
<1>8. ASSUME NEW u \in Users, NEW r \in Roles, CmdSetRole(u, r)
      PROVE  NoOrphans'
  BY <1>8 DEF CmdSetRole, SetUserRole
<1>9. ASSUME NEW u \in Users, NEW cams \in Scopes, CmdSetCameras(u, cams)
      PROVE  NoOrphans'
  BY <1>9 DEF CmdSetCameras, SetUserCameras
<1>10. ASSUME NEW u \in Users, CmdDeleteUser(u) PROVE NoOrphans'
  BY <1>10 DEF CmdDeleteUser, DeleteUser
<1>11. ASSUME NEW e \in Emails, CmdAllow(e) PROVE NoOrphans'
  BY <1>11 DEF CmdAllow, AllowEmail
<1>12. ASSUME NEW e \in Emails, CmdRevoke(e) PROVE NoOrphans'
  BY <1>12 DEF CmdRevoke, RevokeEmail
<1>13. ASSUME NEW c \in Codes, NEW r \in Roles, NEW cams \in Scopes,
              InviteCreate(c, r, cams)
       PROVE  NoOrphans'
  BY <1>13 DEF InviteCreate, CreateInvite
<1>14. ASSUME NEW c \in Codes, InviteDelete(c) PROVE NoOrphans'
  BY <1>14 DEF InviteDelete, DeleteInvite
<1>15. ASSUME CmdRevokeSessions PROVE NoOrphans'
  BY <1>15 DEF CmdRevokeSessions
<1>16. ASSUME NEW c \in Codes, InviteExpires(c) PROVE NoOrphans'
  BY <1>16 DEF InviteExpires, ExpireInvite
<1> QED BY <1>1, <1>2, <1>3, <1>4, <1>5, <1>6, <1>7, <1>8, <1>9, <1>10, <1>11,
      <1>12, <1>13, <1>14, <1>15, <1>16 DEF Next, Request, Admin, vars, Start,
      LookupIdentity, LookupEmail, CheckAllowlist, CheckInvite, PickRole,
      StatementFails, Restart

\* Every step keeps the redeemers on record right.
LEMMA RedeemerStep == IInv /\ [Next]_vars => RedeemerCameIn'
<1> SUFFICES ASSUME IInv, [Next]_vars PROVE RedeemerCameIn'
  OBVIOUS
<1> USE AccountsAssumption, SignInAssumption
            DEF IInv, TypeOK, AccountsTypeOK, Accounts, Users, tables,
          history, Unborn, NoOrphans, RedeemerCameIn
<1>1. ASSUME UNCHANGED <<tables, history>> PROVE RedeemerCameIn'
  BY <1>1 DEF tables, history
<1>2. ASSUME NEW r \in Reqs, Link(r) PROVE RedeemerCameIn'
  BY <1>2 DEF Link, Goto, LinkIdentity
<1>3. ASSUME NEW r \in Reqs, Create(r) PROVE RedeemerCameIn'
  BY <1>3 DEF Create, Goto, CreateUserWithIdentity, InFlight
<1>4. ASSUME NEW r \in Reqs, ApplyScope(r) PROVE RedeemerCameIn'
  BY <1>4 DEF ApplyScope, Goto, SetUserCameras, InFlight, Born
<1>5. ASSUME NEW r \in Reqs, Redeem(r) PROVE RedeemerCameIn'
  BY <1>5 DEF Redeem, Goto, ConsumeInvite, InFlight, Born, Pending
<1>6. ASSUME NEW r \in Reqs, Issue(r) PROVE RedeemerCameIn'
  BY <1>6 DEF Issue, Answer, IssueRefreshToken
<1>7. ASSUME NEW i \in DevIdentities, NEW r \in Roles, CmdCreateUser(i, r)
      PROVE  RedeemerCameIn'
  BY <1>7 DEF CmdCreateUser, CreateUserWithIdentity
<1>8. ASSUME NEW u \in Users, NEW r \in Roles, CmdSetRole(u, r)
      PROVE  RedeemerCameIn'
  BY <1>8 DEF CmdSetRole, SetUserRole
<1>9. ASSUME NEW u \in Users, NEW cams \in Scopes, CmdSetCameras(u, cams)
      PROVE  RedeemerCameIn'
  BY <1>9 DEF CmdSetCameras, SetUserCameras
<1>10. ASSUME NEW u \in Users, CmdDeleteUser(u) PROVE RedeemerCameIn'
  BY <1>10 DEF CmdDeleteUser, DeleteUser
<1>11. ASSUME NEW e \in Emails, CmdAllow(e) PROVE RedeemerCameIn'
  BY <1>11 DEF CmdAllow, AllowEmail
<1>12. ASSUME NEW e \in Emails, CmdRevoke(e) PROVE RedeemerCameIn'
  BY <1>12 DEF CmdRevoke, RevokeEmail
<1>13. ASSUME NEW c \in Codes, NEW r \in Roles, NEW cams \in Scopes,
              InviteCreate(c, r, cams)
       PROVE  RedeemerCameIn'
  BY <1>13 DEF InviteCreate, CreateInvite
<1>14. ASSUME NEW c \in Codes, InviteDelete(c) PROVE RedeemerCameIn'
  BY <1>14 DEF InviteDelete, DeleteInvite
<1>15. ASSUME CmdRevokeSessions PROVE RedeemerCameIn'
  BY <1>15 DEF CmdRevokeSessions
<1>16. ASSUME NEW c \in Codes, InviteExpires(c) PROVE RedeemerCameIn'
  BY <1>16 DEF InviteExpires, ExpireInvite
<1> QED BY <1>1, <1>2, <1>3, <1>4, <1>5, <1>6, <1>7, <1>8, <1>9, <1>10, <1>11,
      <1>12, <1>13, <1>14, <1>15, <1>16 DEF Next, Request, Admin, vars, Start,
      LookupIdentity, LookupEmail, CheckAllowlist, CheckInvite, PickRole,
      StatementFails, Restart

\* Every step keeps every account admitted.
LEMMA AdmissionStep == IInv /\ [Next]_vars => AccountsWereAdmitted'
<1> SUFFICES ASSUME IInv, [Next]_vars PROVE AccountsWereAdmitted'
  OBVIOUS
<1> USE AccountsAssumption, SignInAssumption
            DEF IInv, TypeOK, AccountsTypeOK, Accounts, Users, tables,
          history, Unborn, AccountsWereAdmitted
<1>1. ASSUME UNCHANGED <<tables, history>> PROVE AccountsWereAdmitted'
  BY <1>1 DEF tables, history
<1>2. ASSUME NEW r \in Reqs, Link(r) PROVE AccountsWereAdmitted'
  BY <1>2 DEF Link, Goto, LinkIdentity
<1>3. ASSUME NEW r \in Reqs, Create(r) PROVE AccountsWereAdmitted'
  BY <1>3 DEF Create, Goto, CreateUserWithIdentity, InFlight, Admitted,
      Welcome, RequestsTypeOK
<1>4. ASSUME NEW r \in Reqs, ApplyScope(r) PROVE AccountsWereAdmitted'
  BY <1>4 DEF ApplyScope, Goto, SetUserCameras
<1>5. ASSUME NEW r \in Reqs, Redeem(r) PROVE AccountsWereAdmitted'
  BY <1>5 DEF Redeem, Goto, ConsumeInvite
<1>6. ASSUME NEW r \in Reqs, Issue(r) PROVE AccountsWereAdmitted'
  BY <1>6 DEF Issue, Answer, IssueRefreshToken
<1>7. ASSUME NEW i \in DevIdentities, NEW r \in Roles, CmdCreateUser(i, r)
      PROVE  AccountsWereAdmitted'
  BY <1>7 DEF CmdCreateUser, CreateUserWithIdentity
<1>8. ASSUME NEW u \in Users, NEW r \in Roles, CmdSetRole(u, r)
      PROVE  AccountsWereAdmitted'
  BY <1>8 DEF CmdSetRole, SetUserRole
<1>9. ASSUME NEW u \in Users, NEW cams \in Scopes, CmdSetCameras(u, cams)
      PROVE  AccountsWereAdmitted'
  BY <1>9 DEF CmdSetCameras, SetUserCameras
<1>10. ASSUME NEW u \in Users, CmdDeleteUser(u) PROVE AccountsWereAdmitted'
  BY <1>10 DEF CmdDeleteUser, DeleteUser
<1>11. ASSUME NEW e \in Emails, CmdAllow(e) PROVE AccountsWereAdmitted'
  BY <1>11 DEF CmdAllow, AllowEmail
<1>12. ASSUME NEW e \in Emails, CmdRevoke(e) PROVE AccountsWereAdmitted'
  BY <1>12 DEF CmdRevoke, RevokeEmail
<1>13. ASSUME NEW c \in Codes, NEW r \in Roles, NEW cams \in Scopes,
              InviteCreate(c, r, cams)
       PROVE  AccountsWereAdmitted'
  BY <1>13 DEF InviteCreate, CreateInvite
<1>14. ASSUME NEW c \in Codes, InviteDelete(c) PROVE AccountsWereAdmitted'
  BY <1>14 DEF InviteDelete, DeleteInvite
<1>15. ASSUME CmdRevokeSessions PROVE AccountsWereAdmitted'
  BY <1>15 DEF CmdRevokeSessions
<1>16. ASSUME NEW c \in Codes, InviteExpires(c) PROVE AccountsWereAdmitted'
  BY <1>16 DEF InviteExpires, ExpireInvite
<1> QED BY <1>1, <1>2, <1>3, <1>4, <1>5, <1>6, <1>7, <1>8, <1>9, <1>10, <1>11,
      <1>12, <1>13, <1>14, <1>15, <1>16 DEF Next, Request, Admin, vars, Start,
      LookupIdentity, LookupEmail, CheckAllowlist, CheckInvite, PickRole,
      StatementFails, Restart

\* Every step keeps what a request remembers consistent with its control point.
LEMMA InFlightStep == IInv /\ [Next]_vars => InFlight'
<1> SUFFICES ASSUME IInv, [Next]_vars PROVE InFlight'
  OBVIOUS
<1> USE AccountsAssumption, SignInAssumption
            DEF IInv, TypeOK, AccountsTypeOK, RequestsTypeOK, Accounts, Users,
          tables, local, history, Unborn, NoOrphans, InFlight, Born
<1>1. ASSUME NEW r \in Reqs, Start(r) PROVE InFlight'
  BY <1>1 DEF Start, Goto
<1>2. ASSUME NEW r \in Reqs, LookupIdentity(r) PROVE InFlight'
  BY <1>2 DEF LookupIdentity, Goto
<1>3. ASSUME NEW r \in Reqs, LookupEmail(r) PROVE InFlight'
  BY <1>3, FirstWithEmailIn DEF LookupEmail, Goto, WithEmail
<1>4. ASSUME NEW r \in Reqs, Link(r) PROVE InFlight'
  BY <1>4 DEF Link, Goto, LinkIdentity
<1>5. ASSUME NEW r \in Reqs, CheckAllowlist(r) PROVE InFlight'
  BY <1>5 DEF CheckAllowlist, Goto
<1>6. ASSUME NEW r \in Reqs, CheckInvite(r) PROVE InFlight'
  BY <1>6 DEF CheckInvite, Goto, Answer
<1>7. ASSUME NEW r \in Reqs, PickRole(r) PROVE InFlight'
  BY <1>7 DEF PickRole, Goto
<1>8. ASSUME NEW r \in Reqs, Create(r) PROVE InFlight'
  BY <1>8 DEF Create, Goto, CreateUserWithIdentity
<1>9. ASSUME NEW r \in Reqs, ApplyScope(r) PROVE InFlight'
  BY <1>9 DEF ApplyScope, Goto, SetUserCameras
<1>10. ASSUME NEW r \in Reqs, Redeem(r) PROVE InFlight'
  BY <1>10 DEF Redeem, Goto, ConsumeInvite
<1>11. ASSUME NEW r \in Reqs, Issue(r) PROVE InFlight'
  BY <1>11 DEF Issue, Answer, IssueRefreshToken
<1>12. ASSUME NEW r \in Reqs, StatementFails(r) PROVE InFlight'
  BY <1>12 DEF StatementFails, Goto, Answer
<1>13. ASSUME Restart PROVE InFlight'
  BY <1>13 DEF Restart
<1>14. ASSUME NEW i \in DevIdentities, NEW r \in Roles, CmdCreateUser(i, r)
       PROVE  InFlight'
  BY <1>14 DEF CmdCreateUser, CreateUserWithIdentity
<1>15. ASSUME NEW u \in Users, NEW r \in Roles, CmdSetRole(u, r)
       PROVE  InFlight'
  BY <1>15 DEF CmdSetRole, SetUserRole
<1>16. ASSUME NEW u \in Users, NEW cams \in Scopes, CmdSetCameras(u, cams)
       PROVE  InFlight'
  BY <1>16 DEF CmdSetCameras, SetUserCameras
<1>17. ASSUME NEW u \in Users, CmdDeleteUser(u) PROVE InFlight'
  BY <1>17 DEF CmdDeleteUser, DeleteUser
<1>18. ASSUME NEW e \in Emails, CmdAllow(e) PROVE InFlight'
  BY <1>18 DEF CmdAllow, AllowEmail
<1>19. ASSUME NEW e \in Emails, CmdRevoke(e) PROVE InFlight'
  BY <1>19 DEF CmdRevoke, RevokeEmail
<1>20. ASSUME NEW c \in Codes, NEW r \in Roles, NEW cams \in Scopes,
              InviteCreate(c, r, cams)
       PROVE  InFlight'
  BY <1>20 DEF InviteCreate, CreateInvite
<1>21. ASSUME NEW c \in Codes, InviteDelete(c) PROVE InFlight'
  BY <1>21 DEF InviteDelete, DeleteInvite
<1>22. ASSUME CmdRevokeSessions PROVE InFlight'
  BY <1>22 DEF CmdRevokeSessions
<1>23. ASSUME NEW c \in Codes, InviteExpires(c) PROVE InFlight'
  BY <1>23 DEF InviteExpires, ExpireInvite
<1>24. CASE UNCHANGED vars
  BY <1>24 DEF vars
<1> QED BY <1>1, <1>2, <1>3, <1>4, <1>5, <1>6, <1>7, <1>8, <1>9, <1>10, <1>11,
      <1>12, <1>13, <1>14, <1>15, <1>16, <1>17, <1>18, <1>19, <1>20, <1>21,
      <1>22, <1>23, <1>24 DEF Next, Request, Admin

\* Every step keeps the grounds on which a request passed the gate.
LEMMA AdmittedStep == IInv /\ [Next]_vars => Admitted'
<1> SUFFICES ASSUME IInv, [Next]_vars PROVE Admitted'
  OBVIOUS
<1> USE AccountsAssumption, SignInAssumption
            DEF IInv, TypeOK, AccountsTypeOK, RequestsTypeOK, Accounts, Users,
          tables, local, history, InFlight, Admitted, Welcome
<1>1. ASSUME NEW r \in Reqs, Start(r) PROVE Admitted'
  BY <1>1 DEF Start, Goto
<1>2. ASSUME NEW r \in Reqs, LookupIdentity(r) PROVE Admitted'
  BY <1>2 DEF LookupIdentity, Goto
<1>3. ASSUME NEW r \in Reqs, LookupEmail(r) PROVE Admitted'
  BY <1>3 DEF LookupEmail, Goto
<1>4. ASSUME NEW r \in Reqs, Link(r) PROVE Admitted'
  BY <1>4 DEF Link, Goto, LinkIdentity
<1>5. ASSUME NEW r \in Reqs, CheckAllowlist(r) PROVE Admitted'
  BY <1>5 DEF CheckAllowlist, Goto
<1>6. ASSUME NEW r \in Reqs, CheckInvite(r) PROVE Admitted'
  <2> TAKE q \in Reqs
  <2>1. CASE q = r /\ pc'[r] = "role"
    <3>1. (pass[r] \/ seen'[r] # None) /\ pass' = pass /\ who' = who /\ UNCHANGED <<invite, listed>>
      BY <1>6, <2>1 DEF CheckInvite, Goto, Answer
    <3>2. seen'[r] # None => seen'[r] \in Codes /\ Pending(seen'[r])
      BY <1>6, <2>1 DEF CheckInvite, Goto, Answer
    <3> QED BY <2>1, <3>1, <3>2 DEF Pending
  <2>2. CASE q = r /\ pc'[r] # "role"
    BY <1>6, <2>2 DEF CheckInvite, Goto, Answer
  <2>3. CASE q # r
    BY <1>6, <2>3 DEF CheckInvite, Goto, Answer
  <2> QED BY <2>1, <2>2, <2>3
<1>7. ASSUME NEW r \in Reqs, PickRole(r) PROVE Admitted'
  BY <1>7 DEF PickRole, Goto
<1>8. ASSUME NEW r \in Reqs, Create(r) PROVE Admitted'
  BY <1>8 DEF Create, Goto, CreateUserWithIdentity
<1>9. ASSUME NEW r \in Reqs, ApplyScope(r) PROVE Admitted'
  BY <1>9 DEF ApplyScope, Goto, SetUserCameras
<1>10. ASSUME NEW r \in Reqs, Redeem(r) PROVE Admitted'
  BY <1>10 DEF Redeem, Goto, ConsumeInvite
<1>11. ASSUME NEW r \in Reqs, Issue(r) PROVE Admitted'
  BY <1>11 DEF Issue, Answer, IssueRefreshToken
<1>12. ASSUME NEW r \in Reqs, StatementFails(r) PROVE Admitted'
  BY <1>12 DEF StatementFails, Goto, Answer
<1>13. ASSUME Restart PROVE Admitted'
  BY <1>13 DEF Restart
<1>14. ASSUME NEW i \in DevIdentities, NEW r \in Roles, CmdCreateUser(i, r)
       PROVE  Admitted'
  BY <1>14 DEF CmdCreateUser, CreateUserWithIdentity
<1>15. ASSUME NEW u \in Users, NEW r \in Roles, CmdSetRole(u, r)
       PROVE  Admitted'
  BY <1>15 DEF CmdSetRole, SetUserRole
<1>16. ASSUME NEW u \in Users, NEW cams \in Scopes, CmdSetCameras(u, cams)
       PROVE  Admitted'
  BY <1>16 DEF CmdSetCameras, SetUserCameras
<1>17. ASSUME NEW u \in Users, CmdDeleteUser(u) PROVE Admitted'
  BY <1>17 DEF CmdDeleteUser, DeleteUser
<1>18. ASSUME NEW e \in Emails, CmdAllow(e) PROVE Admitted'
  BY <1>18 DEF CmdAllow, AllowEmail
<1>19. ASSUME NEW e \in Emails, CmdRevoke(e) PROVE Admitted'
  BY <1>19 DEF CmdRevoke, RevokeEmail
<1>20. ASSUME NEW c \in Codes, NEW r \in Roles, NEW cams \in Scopes,
              InviteCreate(c, r, cams)
       PROVE  Admitted'
  BY <1>20 DEF InviteCreate, CreateInvite
<1>21. ASSUME NEW c \in Codes, InviteDelete(c) PROVE Admitted'
  BY <1>21 DEF InviteDelete, DeleteInvite
<1>22. ASSUME CmdRevokeSessions PROVE Admitted'
  BY <1>22 DEF CmdRevokeSessions
<1>23. ASSUME NEW c \in Codes, InviteExpires(c) PROVE Admitted'
  BY <1>23 DEF InviteExpires, ExpireInvite
<1>24. CASE UNCHANGED vars
  BY <1>24 DEF vars
<1> QED BY <1>1, <1>2, <1>3, <1>4, <1>5, <1>6, <1>7, <1>8, <1>9, <1>10, <1>11,
      <1>12, <1>13, <1>14, <1>15, <1>16, <1>17, <1>18, <1>19, <1>20, <1>21,
      <1>22, <1>23, <1>24 DEF Next, Request, Admin

\* Every step keeps a request's claim to the account it resolved to.
LEMMA HoldsStep == IInv /\ [Next]_vars => HoldsIdentity'
<1> SUFFICES ASSUME IInv, [Next]_vars PROVE HoldsIdentity'
  OBVIOUS
<1> USE AccountsAssumption, SignInAssumption
            DEF IInv, TypeOK, AccountsTypeOK, RequestsTypeOK, Accounts, Users,
          tables, local, history, Unborn, NoOrphans, InFlight, HoldsIdentity,
          Born
<1>1. ASSUME NEW r \in Reqs, Start(r) PROVE HoldsIdentity'
  BY <1>1 DEF Start, Goto
<1>2. ASSUME NEW r \in Reqs, LookupIdentity(r) PROVE HoldsIdentity'
  <2> TAKE q \in Reqs
  <2>1. CASE q = r
    BY <1>2, <2>1 DEF LookupIdentity, Goto
  <2>2. CASE q # r
    BY <1>2, <2>2 DEF LookupIdentity, Goto
  <2> QED BY <2>1, <2>2
<1>3. ASSUME NEW r \in Reqs, LookupEmail(r) PROVE HoldsIdentity'
  <2> DEFINE e == EmailOf[who[r]]
  <2> TAKE q \in Reqs
  <2>1. CASE q = r /\ WithEmail(e) # {}
    <3>1. FirstWithEmail(e) \in Accounts /\ email[FirstWithEmail(e)] = e
      BY <2>1, FirstWithEmailIn DEF WithEmail
    <3> QED BY <1>3, <2>1, <3>1 DEF LookupEmail, Goto
  <2>2. CASE q # r \/ WithEmail(e) = {}
    BY <1>3, <2>2 DEF LookupEmail, Goto
  <2> QED BY <2>1, <2>2
<1>4. ASSUME NEW r \in Reqs, Link(r) PROVE HoldsIdentity'
  BY <1>4 DEF Link, Goto, LinkIdentity
<1>5. ASSUME NEW r \in Reqs, CheckAllowlist(r) PROVE HoldsIdentity'
  BY <1>5 DEF CheckAllowlist, Goto
<1>6. ASSUME NEW r \in Reqs, CheckInvite(r) PROVE HoldsIdentity'
  <2> TAKE q \in Reqs
  <2>1. CASE q = r
    BY <1>6, <2>1 DEF CheckInvite, Goto, Answer
  <2>2. CASE q # r
    BY <1>6, <2>2 DEF CheckInvite, Goto, Answer
  <2> QED BY <2>1, <2>2
<1>7. ASSUME NEW r \in Reqs, PickRole(r) PROVE HoldsIdentity'
  BY <1>7 DEF PickRole, Goto
<1>8. ASSUME NEW r \in Reqs, Create(r) PROVE HoldsIdentity'
  BY <1>8 DEF Create, Goto, CreateUserWithIdentity
<1>9. ASSUME NEW r \in Reqs, ApplyScope(r) PROVE HoldsIdentity'
  BY <1>9 DEF ApplyScope, Goto, SetUserCameras
<1>10. ASSUME NEW r \in Reqs, Redeem(r) PROVE HoldsIdentity'
  BY <1>10 DEF Redeem, Goto, ConsumeInvite
<1>11. ASSUME NEW r \in Reqs, Issue(r) PROVE HoldsIdentity'
  BY <1>11 DEF Issue, Answer, IssueRefreshToken
<1>12. ASSUME NEW r \in Reqs, StatementFails(r) PROVE HoldsIdentity'
  <2> TAKE q \in Reqs
  <2>1. CASE q = r
    BY <1>12, <2>1 DEF StatementFails, Goto, Answer
  <2>2. CASE q # r
    BY <1>12, <2>2 DEF StatementFails, Goto, Answer
  <2> QED BY <2>1, <2>2
<1>13. ASSUME Restart PROVE HoldsIdentity'
  BY <1>13 DEF Restart
<1>14. ASSUME NEW i \in DevIdentities, NEW r \in Roles, CmdCreateUser(i, r)
       PROVE  HoldsIdentity'
  BY <1>14 DEF CmdCreateUser, CreateUserWithIdentity
<1>15. ASSUME NEW u \in Users, NEW r \in Roles, CmdSetRole(u, r)
       PROVE  HoldsIdentity'
  BY <1>15 DEF CmdSetRole, SetUserRole
<1>16. ASSUME NEW u \in Users, NEW cams \in Scopes, CmdSetCameras(u, cams)
       PROVE  HoldsIdentity'
  BY <1>16 DEF CmdSetCameras, SetUserCameras
<1>17. ASSUME NEW u \in Users, CmdDeleteUser(u) PROVE HoldsIdentity'
  BY <1>17 DEF CmdDeleteUser, DeleteUser
<1>18. ASSUME NEW e \in Emails, CmdAllow(e) PROVE HoldsIdentity'
  BY <1>18 DEF CmdAllow, AllowEmail
<1>19. ASSUME NEW e \in Emails, CmdRevoke(e) PROVE HoldsIdentity'
  BY <1>19 DEF CmdRevoke, RevokeEmail
<1>20. ASSUME NEW c \in Codes, NEW r \in Roles, NEW cams \in Scopes,
              InviteCreate(c, r, cams)
       PROVE  HoldsIdentity'
  BY <1>20 DEF InviteCreate, CreateInvite
<1>21. ASSUME NEW c \in Codes, InviteDelete(c) PROVE HoldsIdentity'
  BY <1>21 DEF InviteDelete, DeleteInvite
<1>22. ASSUME CmdRevokeSessions PROVE HoldsIdentity'
  BY <1>22 DEF CmdRevokeSessions
<1>23. ASSUME NEW c \in Codes, InviteExpires(c) PROVE HoldsIdentity'
  BY <1>23 DEF InviteExpires, ExpireInvite
<1>24. CASE UNCHANGED vars
  BY <1>24 DEF vars
<1> QED BY <1>1, <1>2, <1>3, <1>4, <1>5, <1>6, <1>7, <1>8, <1>9, <1>10, <1>11,
      <1>12, <1>13, <1>14, <1>15, <1>16, <1>17, <1>18, <1>19, <1>20, <1>21,
      <1>22, <1>23, <1>24 DEF Next, Request, Admin

-----------------------------------------------------------------------------
(* The theorems.                                                           *)

\* The empty database with no request in flight satisfies the invariant.
LEMMA InitIInv == Init => IInv
<1> SUFFICES ASSUME Init PROVE IInv
  OBVIOUS
<1> USE AccountsAssumption, SignInAssumption
<1>1. AccountsTypeOK
  BY DEF Init, AccountsInit, AccountsTypeOK, Invites, InviteStates, Roles, Users
<1>2. TypeOK
  BY <1>1 DEF Init, TypeOK, RequestsTypeOK, Steps, Roles
<1>3. Accounts = {}
  BY DEF Init, AccountsInit, Accounts
<1>4. Unborn /\ InFlight /\ Admitted /\ HoldsIdentity
  BY <1>3 DEF Init, AccountsInit, Unborn, InFlight, Admitted, HoldsIdentity
<1>5. NoOrphans /\ RedeemerCameIn /\ AccountsWereAdmitted
  BY <1>3 DEF Init, AccountsInit, NoOrphans, RedeemerCameIn, AccountsWereAdmitted
<1> QED BY <1>2, <1>4, <1>5 DEF IInv

\* Every step keeps the invariant.
LEMMA IInvStep == IInv /\ [Next]_vars => IInv'
BY TypeStep, UnbornStep, InFlightStep, AdmittedStep, HoldsStep, NoOrphansStep,
   RedeemerStep, AdmissionStep DEF IInv

\* The invariant holds in every reachable state.
THEOREM Invariance == Spec => []IInv
BY InitIInv, IInvStep, PTL DEF Spec

\* Tables, requests and counters stay within their types.
THEOREM TypeCorrect == Spec => []TypeOK
<1>1. IInv => TypeOK
  BY DEF IInv
<1> QED BY <1>1, Invariance, PTL

\* Foreign keys and cascades leave no identity, token, scope or redemption
\* without its account, and no account without an identity, whichever
\* statement fails and wherever the gateway is restarted.
THEOREM ReferencesHold == Spec => []NoOrphans
<1>1. IInv => NoOrphans
  BY DEF IInv
<1> QED BY <1>1, Invariance, PTL

\* Whoever is on record as having redeemed an invite came in on it.
THEOREM RedeemersCameIn == Spec => []RedeemerCameIn
<1>1. IInv => RedeemerCameIn
  BY DEF IInv
<1> QED BY <1>1, Invariance, PTL

\* Every account was let in by a listed email, an invite or the CLI.
THEOREM OnlyAdmitted == Spec => []AccountsWereAdmitted
<1>1. IInv => AccountsWereAdmitted
  BY DEF IInv
<1> QED BY <1>1, Invariance, PTL

\* No interleaving of sign-ins moves an identity between accounts.
THEOREM IdentitiesStay == Spec => IdentityNeverMoves
<1> DEFINE Stays == \A i \in Identities :
                      owner[i] # None => \/ owner'[i] = owner[i]
                                         \/ owner'[i] = None /\ role'[owner[i]] = None
<1>1. IInv /\ [Next]_vars => [Stays]_vars
  BY StepsGoForward DEF Forward
<1> QED BY <1>1, Invariance, PTL DEF Spec, IdentityNeverMoves

\* A redeemed invite keeps its redeemer and is never redeemable again.
THEOREM RedemptionsStay == Spec => RedemptionIsFinal
<1> DEFINE Kept == \A c \in Codes : invite[c].state = "consumed" =>
                     /\ invite'[c].state \in {"consumed", "deleted"}
                     /\ invite'[c].by \in {invite[c].by, None}
<1>1. IInv /\ [Next]_vars => [Kept]_vars
  <2> SUFFICES ASSUME IInv, Next, NEW c \in Codes, invite[c].state = "consumed"
               PROVE  /\ invite'[c].state \in {"consumed", "deleted"}
                      /\ invite'[c].by \in {invite[c].by, None}
    OBVIOUS
  <2> USE DEF IInv, TypeOK, AccountsTypeOK, tables
  <2>1. CASE UNCHANGED invite
    BY <2>1
  <2>2. ASSUME NEW r \in Reqs, Redeem(r)
        PROVE  UNCHANGED invite \/ \E d \in Codes : Pending(d) /\ \E u \in Users :
                 invite' = [invite EXCEPT ![d].state = "consumed", ![d].by = u]
    BY <2>2 DEF Redeem, ConsumeInvite, InFlight, Born, RequestsTypeOK
  <2>3. ASSUME NEW d \in Codes, Pending(d), NEW u \in Users,
               invite' = [invite EXCEPT ![d].state = "consumed", ![d].by = u]
        PROVE  invite'[c] = invite[c]
    BY <2>3 DEF Pending
  <2>4. ASSUME NEW u \in Users, DeleteUser(u)
        PROVE  invite'[c].state = "consumed" /\ invite'[c].by \in {invite[c].by, None}
    BY <2>4 DEF DeleteUser, Invites
  <2>5. ASSUME NEW d \in Codes, NEW r \in Roles, NEW cams \in Scopes, CreateInvite(d, r, cams)
        PROVE  invite'[c] = invite[c]
    BY <2>5 DEF CreateInvite
  <2>6. ASSUME NEW d \in Codes, DeleteInvite(d)
        PROVE  /\ invite'[c].state \in {"consumed", "deleted"}
               /\ invite'[c].by \in {invite[c].by, None}
    BY <2>6 DEF DeleteInvite, Invites
  <2>7. ASSUME NEW d \in Codes, ExpireInvite(d)
        PROVE  invite'[c] = invite[c]
    BY <2>7 DEF ExpireInvite, Pending
  <2> QED
    BY <2>1, <2>2, <2>3, <2>4, <2>5, <2>6, <2>7
       DEF Next, Request, Admin, Start, LookupIdentity, LookupEmail, Link, LinkIdentity,
           CheckAllowlist, CheckInvite, PickRole, Create, CreateUserWithIdentity,
           ApplyScope, SetUserCameras, Issue, IssueRefreshToken, StatementFails, Restart,
           CmdCreateUser, CmdSetRole, SetUserRole, CmdSetCameras, CmdDeleteUser, CmdAllow,
           AllowEmail, CmdRevoke, RevokeEmail, CmdRevokeSessions, InviteCreate,
           InviteDelete, InviteExpires
<1> QED BY <1>1, Invariance, PTL DEF Spec, RedemptionIsFinal

\* Tokens are only ever issued for the person who signed in.
THEOREM TokensForThePerson == Spec => AnsweredForItsPerson
<1> DEFINE Fits == \A r \in Reqs :
                     Issue(r) => \/ owner[who[r]] = uid[r]
                                 \/ who[r] \in Verified /\ email[uid[r]] = EmailOf[who[r]]
<1>1. IInv /\ [Next]_vars => [Fits]_vars
  BY DEF IInv, HoldsIdentity, Issue, IssueRefreshToken
<1> QED BY <1>1, Invariance, PTL DEF Spec, AnsweredForItsPerson
-----------------------------------------------------------------------------
(* A quiet gateway.                                                        *)

\* The steps of a quiet gateway, as steps of SignIn: the gateway is not
\* restarted, and only a statement that a key refuses fails.
Sign(r) ==
    \/ Start(r) \/ LookupIdentity(r) \/ LookupEmail(r) \/ Link(r)
    \/ CheckAllowlist(r) \/ CheckInvite(r) \/ PickRole(r) \/ Create(r)
    \/ ApplyScope(r) \/ Redeem(r) \/ Issue(r)
    \/ Refused(r) /\ StatementFails(r)

Outside == Admin \/ CmdRevokeSessions \/ \E c \in Codes : InviteExpires(c)

\* What the module says with Faults set to FALSE, it says of a quiet gateway.
LEMMA QuietSteps == Quiet!Next => Outside \/ \E r \in Reqs : Sign(r)
<1> USE DEF Quiet!tables, Quiet!local, Quiet!history, tables, local, history, Quiet!Goto, Goto,
            Quiet!Answer, Answer
<1>1. ASSUME NEW r \in Reqs, Quiet!Start(r) PROVE Start(r)
  BY <1>1 DEF Quiet!Start, Start
<1>2. ASSUME NEW r \in Reqs, Quiet!LookupIdentity(r) PROVE LookupIdentity(r)
  BY <1>2 DEF Quiet!LookupIdentity, LookupIdentity
<1>3. ASSUME NEW r \in Reqs, Quiet!LookupEmail(r) PROVE LookupEmail(r)
  BY <1>3 DEF Quiet!LookupEmail, LookupEmail, Quiet!WithEmail, WithEmail, Quiet!FirstWithEmail,
     FirstWithEmail, Quiet!Accounts, Accounts, Quiet!Users, Users
<1>4. ASSUME NEW r \in Reqs, Quiet!Link(r) PROVE Link(r)
  BY <1>4 DEF Quiet!Link, Link, Quiet!LinkIdentity, LinkIdentity, Quiet!Accounts, Accounts,
     Quiet!Users, Users
<1>5. ASSUME NEW r \in Reqs, Quiet!CheckAllowlist(r) PROVE CheckAllowlist(r)
  BY <1>5 DEF Quiet!CheckAllowlist, CheckAllowlist, Quiet!Outcomes, Outcomes
<1>6. ASSUME NEW r \in Reqs, Quiet!CheckInvite(r) PROVE CheckInvite(r)
  BY <1>6 DEF Quiet!CheckInvite, CheckInvite, Quiet!Outcomes, Outcomes, Quiet!Pending, Pending
<1>7. ASSUME NEW r \in Reqs, Quiet!PickRole(r) PROVE PickRole(r)
  BY <1>7 DEF Quiet!PickRole, PickRole, Quiet!Outcomes, Outcomes, Quiet!Accounts, Accounts,
     Quiet!Users, Users
<1>8. ASSUME NEW r \in Reqs, Quiet!Create(r) PROVE Create(r)
  BY <1>8 DEF Quiet!Create, Create, Quiet!CreateUserWithIdentity, CreateUserWithIdentity,
     Quiet!Roles, Roles
<1>9. ASSUME NEW r \in Reqs, Quiet!ApplyScope(r) PROVE ApplyScope(r)
  BY <1>9 DEF Quiet!ApplyScope, ApplyScope, Quiet!SetUserCameras, SetUserCameras,
     Quiet!Accounts, Accounts, Quiet!Users, Users
<1>10. ASSUME NEW r \in Reqs, Quiet!Redeem(r) PROVE Redeem(r)
  BY <1>10 DEF Quiet!Redeem, Redeem, Quiet!ConsumeInvite, ConsumeInvite, Quiet!Pending, Pending,
     Quiet!Accounts, Accounts, Quiet!Users, Users
<1>11. ASSUME NEW r \in Reqs, Quiet!Issue(r) PROVE Issue(r)
  BY <1>11 DEF Quiet!Issue, Issue, Quiet!IssueRefreshToken, IssueRefreshToken, Quiet!Accounts,
     Accounts, Quiet!Users, Users
<1>12. ASSUME NEW r \in Reqs, Quiet!StatementFails(r) PROVE Refused(r) /\ StatementFails(r)
  BY <1>12 DEF Quiet!StatementFails, StatementFails, Quiet!Refused, Refused, Quiet!Pending,
     Pending, Quiet!Accounts, Accounts, Quiet!Users, Users
<1>13. ~ Quiet!Restart
  BY DEF Quiet!Restart
<1>14. ASSUME Quiet!Admin PROVE Admin
  BY <1>14 DEF Quiet!Admin, Admin, Quiet!CmdCreateUser, CmdCreateUser, Quiet!CmdSetRole,
     CmdSetRole, Quiet!CmdSetCameras, CmdSetCameras, Quiet!CmdDeleteUser, CmdDeleteUser,
     Quiet!CmdAllow, CmdAllow, Quiet!CmdRevoke, CmdRevoke, Quiet!InviteCreate, InviteCreate,
     Quiet!InviteDelete, InviteDelete, Quiet!CreateUserWithIdentity, CreateUserWithIdentity,
     Quiet!SetUserRole, SetUserRole, Quiet!SetUserCameras, SetUserCameras, Quiet!DeleteUser,
     DeleteUser, Quiet!AllowEmail, AllowEmail, Quiet!RevokeEmail, RevokeEmail,
     Quiet!CreateInvite, CreateInvite, Quiet!DeleteInvite, DeleteInvite, Quiet!Accounts,
     Accounts, Quiet!Users, Users, Quiet!Roles, Roles
<1>15. ASSUME Quiet!CmdRevokeSessions PROVE CmdRevokeSessions
  BY <1>15 DEF Quiet!CmdRevokeSessions, CmdRevokeSessions, Quiet!WithEmail, WithEmail,
     Quiet!FirstWithEmail, FirstWithEmail, Quiet!Accounts, Accounts, Quiet!Users, Users
<1>16. ASSUME NEW c \in Codes, Quiet!InviteExpires(c) PROVE InviteExpires(c)
  BY <1>16 DEF Quiet!InviteExpires, InviteExpires, Quiet!ExpireInvite, ExpireInvite,
     Quiet!Pending, Pending
<1> QED
  BY <1>1, <1>2, <1>3, <1>4, <1>5, <1>6, <1>7, <1>8, <1>9, <1>10, <1>11, <1>12, <1>13, <1>14,
     <1>15, <1>16 DEF Quiet!Next, Quiet!Request, Sign, Outside

\* Module SignInLoads adds nothing to SignIn: every behaviour under any load
\* is one of SignIn's, and what is proved of those above holds of these.
THEOREM LoadsAreSignIns == LoadSpec => Spec
<1>1. LoadInit => Init
  BY DEF LoadInit
<1>2. [LoadNext]_<<vars, load>> => [Next]_vars
  BY QuietSteps DEF LoadNext, QuietNext, SerialNext, BusyNext, Next, Request, Sign, Outside
<1> QED BY <1>1, <1>2, PTL DEF LoadSpec, Spec

-----------------------------------------------------------------------------
(* What the one request at work may rely on when no other is.  SInv adds   *)
(* to IInv, for a serial gateway and a quiet one: nobody else touches the  *)
(* identity it is about to bind (OneBinding); an account older than the    *)
(* one a person has, or is about to get, with the same email is one the    *)
(* CLI made (FirstOfPerson); the rank of owner is given once (FirstRank).  *)
(* QInv adds for the quiet one: an invite is redeemable only until the     *)
(* account that came in on it is out of its sign-in's hands (Unspent); the *)
(* only scope that is yet to be applied is the one of the account the      *)
(* request has just created (Scoped).                                      *)

OneBinding ==
    \A r \in Reqs :
        /\ pc[r] # "idle" => who[r] \notin DevIdentities
        /\ pc[r] \in {"email", "link", "gate", "invite", "role", "create"} =>
              owner[who[r]] = None
        /\ pc[r] \in {"scope", "redeem", "issue"} /\ uid[r] \in Accounts =>
              owner[who[r]] = uid[r]

\* The accounts before u with the email e that came to be by signing in.
Older(u, e) == {v \in Accounts : v < u /\ email[v] = e /\ origin[v] # "cli"}

FirstOfPerson ==
    /\ \A i \in Verified : owner[i] # None =>
          email[owner[i]] = EmailOf[i] /\ Older(owner[i], EmailOf[i]) = {}
    /\ \A r \in Reqs : pc[r] \in {"gate", "invite", "role", "create"} /\ who[r] \in Verified =>
          Older(nextUser, EmailOf[who[r]]) = {}
    /\ \A r \in Reqs : pc[r] = "link" => Older(uid[r], EmailOf[who[r]]) = {}

FirstRank ==
    \A r \in Reqs :
        /\ pc[r] = "create" /\ seen[r] = None /\ rank[r] = "admin"
        /\ EmailOf[who[r]] \notin AdminEmails
        => \A u \in Accounts : origin[u] # "owner"

Unspent ==
    /\ \A u \in Accounts : origin[u] \in Codes =>
          /\ invite[origin[u]].state # "unminted"
          /\ Pending(origin[u]) => \E r \in Reqs : pc[r] \in {"scope", "redeem"} /\ uid[r] = u
    /\ \A r \in Reqs : pc[r] \in {"role", "create"} /\ seen[r] # None =>
          \A u \in Accounts : origin[u] # seen[r]

Scoped ==
    /\ \A u \in Users : u \notin Accounts => granted[u] = {}
    /\ \A u \in Users : \/ scope[u] = granted[u]
                        \/ \E r \in Reqs : pc[r] = "scope" /\ uid[r] = u /\ u \notin sessions

SInv ==
    /\ OneAtATime
    /\ OneBinding
    /\ FirstOfPerson
    /\ FirstRank
    /\ OneOwner

QInv ==
    /\ Unspent
    /\ Scoped
    /\ InviteSingleUse

\* What the admin commands and the clock do to the request at work: they leave
\* it alone, make accounts only for the CLI, and undo no deletion, redemption
\* or binding.
Disturbance ==
    /\ UNCHANGED local
    /\ nextUser' >= nextUser
    /\ \A u \in Users : u < nextUser =>
          /\ origin'[u] = origin[u]
          /\ role'[u] # None => role[u] # None /\ email'[u] = email[u]
    /\ \A u \in Users : u >= nextUser /\ role'[u] # None => origin'[u] = "cli"
    /\ \A i \in Identities \ DevIdentities :
          \/ owner'[i] = owner[i]
          \/ owner[i] # None /\ owner'[i] = None /\ role'[owner[i]] = None
    /\ \A c \in Codes : invite[c].state # "unminted" =>
          /\ invite'[c].state # "unminted"
          /\ Pending(c)' => Pending(c)
    /\ \A u \in Users : \/ scope'[u] = granted'[u]
                        \/ UNCHANGED <<scope[u], granted[u]>>
    /\ \A u \in Users : role'[u] = None => \/ granted'[u] = {}
                                         \/ UNCHANGED <<role[u], granted[u]>>
    /\ sessions' \subseteq sessions

LEMMA OutsideSteps ==
    ASSUME IInv, Outside
    PROVE  Disturbance
<1> USE AccountsAssumption DEF Disturbance, history
<1> DEFINE Types ==
             /\ role \in [Users -> Roles \cup {None}]
             /\ owner \in [Identities -> Users \cup {None}]
             /\ scope \in [Users -> Scopes] /\ granted \in [Users -> Scopes]
             /\ invite \in [Codes -> Invites]
             /\ email \in [Users -> Emails \cup {None}]
             /\ origin \in [Users -> Origins \cup {None}]
             /\ nextUser \in Nat
             /\ \A u \in Users : u >= nextUser => role[u] = None
<1> Types
  BY DEF IInv, TypeOK, AccountsTypeOK, Unborn, Users
<1>1. ASSUME NEW i \in DevIdentities, NEW r \in Roles, CmdCreateUser(i, r) PROVE Disturbance
  BY <1>1 DEF CmdCreateUser, CreateUserWithIdentity, Roles, Users, Pending
<1>2. ASSUME NEW u \in Users, NEW r \in Roles, CmdSetRole(u, r) PROVE Disturbance
  BY <1>2 DEF CmdSetRole, SetUserRole, Roles, Accounts, Pending
<1>3. ASSUME NEW u \in Users, NEW cams \in Scopes, CmdSetCameras(u, cams) PROVE Disturbance
  <2>1. ASSUME NEW v \in Users
        PROVE  /\ scope'[v] = granted'[v] \/ UNCHANGED <<scope[v], granted[v]>>
               /\ role'[v] = None => UNCHANGED <<role[v], granted[v]>>
    <3>1. /\ UNCHANGED role /\ role[u] # None
          /\ scope' = [scope EXCEPT ![u] = cams] /\ granted' = [granted EXCEPT ![u] = cams]
      BY <1>3 DEF CmdSetCameras, SetUserCameras, Accounts
    <3>2. CASE v = u
      BY <3>1, <3>2
    <3>3. CASE v # u
      BY <3>1, <3>3
    <3> QED BY <3>2, <3>3
  <2>2. UNCHANGED <<local, role, email, owner, invite, sessions, nextUser, origin>>
    BY <1>3 DEF CmdSetCameras, SetUserCameras
  <2> QED BY <2>1, <2>2 DEF Pending
<1>4. ASSUME NEW u \in Users, CmdDeleteUser(u) PROVE Disturbance
  <2>1. ASSUME NEW v \in Users
        PROVE  /\ scope'[v] = granted'[v] \/ UNCHANGED <<scope[v], granted[v]>>
               /\ role'[v] = None => \/ granted'[v] = {}
                                     \/ UNCHANGED <<role[v], granted[v]>>
               /\ role'[v] # None => role[v] # None /\ email'[v] = email[v]
    <3>1. /\ role' = [role EXCEPT ![u] = None] /\ email' = [email EXCEPT ![u] = None]
          /\ scope' = [scope EXCEPT ![u] = {}] /\ granted' = [granted EXCEPT ![u] = {}]
      BY <1>4 DEF CmdDeleteUser, DeleteUser
    <3>2. CASE v = u
      BY <3>1, <3>2
    <3>3. CASE v # u
      BY <3>1, <3>3
    <3> QED BY <3>2, <3>3
  <2>2. ASSUME NEW c \in Codes PROVE invite'[c].state = invite[c].state
    BY <1>4 DEF CmdDeleteUser, DeleteUser, Invites
  <2>3. ASSUME NEW i \in Identities
        PROVE  \/ owner'[i] = owner[i]
               \/ owner[i] # None /\ owner'[i] = None /\ role'[owner[i]] = None
    BY <1>4 DEF CmdDeleteUser, DeleteUser
  <2>4. UNCHANGED <<local, nextUser, origin>> /\ sessions' \subseteq sessions
    BY <1>4 DEF CmdDeleteUser, DeleteUser
  <2> QED BY <2>1, <2>2, <2>3, <2>4 DEF Pending
<1>5. ASSUME NEW e \in Emails, CmdAllow(e) \/ CmdRevoke(e) PROVE Disturbance
  BY <1>5 DEF CmdAllow, AllowEmail, CmdRevoke, RevokeEmail, Pending
<1>6. ASSUME NEW c \in Codes, NEW r \in Roles, NEW cams \in Scopes, InviteCreate(c, r, cams)
      PROVE  Disturbance
  BY <1>6 DEF InviteCreate, CreateInvite, Pending
<1>7. ASSUME NEW c \in Codes, InviteDelete(c) PROVE Disturbance
  BY <1>7 DEF InviteDelete, DeleteInvite, Invites, Pending
<1>8. ASSUME CmdRevokeSessions PROVE Disturbance
  <2>1. UNCHANGED <<local, role, email, owner, scope, invite, nextUser, origin, granted>>
    BY <1>8 DEF CmdRevokeSessions
  <2>2. sessions' \subseteq sessions
    BY <1>8 DEF CmdRevokeSessions
  <2> QED BY <2>1, <2>2 DEF Pending
<1>9. ASSUME NEW c \in Codes, InviteExpires(c) PROVE Disturbance
  BY <1>9 DEF InviteExpires, ExpireInvite, Invites, Pending
<1> QED BY <1>1, <1>2, <1>3, <1>4, <1>5, <1>6, <1>7, <1>8, <1>9 DEF Outside, Admin

\* A step after which still only one sign-in is at work, on a serial gateway and
\* on a quiet one.
SerialStep == Next /\ OneAtATime'
QuietStep == (Outside \/ \E r \in Reqs : Sign(r)) /\ OneAtATime'

LEMMA QuietIsSerial == QuietStep => SerialStep
BY DEF QuietStep, SerialStep, Outside, Sign, Next, Request

\* While one request takes a step the others are idle, before and after.
LEMMA OthersIdle ==
    ASSUME IInv, OneAtATime, OneAtATime', NEW r \in Reqs, Request(r), NEW q \in Reqs, q # r
    PROVE  pc[q] = "idle" /\ pc'[q] = "idle"
<1>1. pc \in [Reqs -> Steps]
  BY DEF IInv, TypeOK, RequestsTypeOK
<1>2. pc[r] # "idle" \/ pc'[r] # "idle"
  BY <1>1 DEF Request, Start, Goto, LookupIdentity, LookupEmail, Link, CheckAllowlist, CheckInvite,
              PickRole, Create, ApplyScope, Redeem, Issue, StatementFails
<1>3. pc'[q] = pc[q]
  BY <1>1 DEF Request, Start, Goto, Answer, LookupIdentity, LookupEmail, Link, CheckAllowlist,
              CheckInvite, PickRole, Create, ApplyScope, Redeem, Issue, StatementFails
<1> QED BY <1>2, <1>3 DEF OneAtATime

\* Every step keeps the identity of the request at work to itself.
LEMMA OneBindingStep == IInv /\ SInv /\ SerialStep => OneBinding'
<1> SUFFICES ASSUME IInv, SInv, SerialStep, NEW r \in Reqs
             PROVE  /\ pc'[r] # "idle" => who'[r] \notin DevIdentities
                    /\ pc'[r] \in {"email", "link", "gate", "invite", "role", "create"} =>
                          owner'[who'[r]] = None
                    /\ pc'[r] \in {"scope", "redeem", "issue"} /\ uid'[r] \in Accounts' =>
                          owner'[who'[r]] = uid'[r]
  BY DEF OneBinding
<1> USE AccountsAssumption DEF OneBinding, Accounts
<1>1. /\ TypeOK /\ InFlight /\ NoOrphans /\ Unborn
      /\ OneAtATime /\ OneAtATime' /\ OneBinding
  BY DEF IInv, SInv, SerialStep
<1>2. ASSUME NEW q \in Reqs, Request(q), q # r PROVE pc'[r] = "idle"
  BY <1>1, <1>2, OthersIdle DEF IInv
<1>3. CASE Start(r)
  BY <1>1, <1>3 DEF Start, Goto, TypeOK, RequestsTypeOK
<1>4. CASE LookupIdentity(r)
  BY <1>1, <1>4 DEF LookupIdentity, Goto, TypeOK, RequestsTypeOK, tables
<1>5. CASE LookupEmail(r)
  BY <1>1, <1>5 DEF LookupEmail, Goto, TypeOK, RequestsTypeOK, tables
<1>6. CASE Link(r)
  BY <1>1, <1>6 DEF Link, LinkIdentity, Goto, TypeOK, RequestsTypeOK, AccountsTypeOK, InFlight
<1>7. CASE CheckAllowlist(r) \/ CheckInvite(r) \/ PickRole(r)
  BY <1>1, <1>7 DEF CheckAllowlist, CheckInvite, PickRole, Goto, Answer, TypeOK, RequestsTypeOK,
                    tables
<1>8. CASE Create(r)
  BY <1>1, <1>8 DEF Create, CreateUserWithIdentity, Goto, TypeOK, RequestsTypeOK, AccountsTypeOK,
                    InFlight
<1>9. CASE ApplyScope(r) \/ Redeem(r)
  BY <1>1, <1>9 DEF ApplyScope, SetUserCameras, Redeem, ConsumeInvite, Goto, TypeOK, RequestsTypeOK
<1>10. CASE Issue(r)
  BY <1>1, <1>10 DEF Issue, Answer, TypeOK, RequestsTypeOK
<1>11. CASE StatementFails(r)
  BY <1>1, <1>11 DEF StatementFails, Goto, Answer, TypeOK, RequestsTypeOK, tables
<1>12. CASE Outside
  <2>1. Disturbance
    BY <1>12, OutsideSteps
  <2>2. who[r] \in Identities \/ pc[r] = "idle"
    BY <1>1 DEF InFlight
  <2>3. pc[r] \in {"scope", "redeem", "issue"} => uid[r] \in Users /\ uid[r] < nextUser
    BY <1>1 DEF InFlight, Born
  <2> QED BY <1>1, <2>1, <2>2, <2>3 DEF Disturbance, local
<1>13. CASE Restart
  BY <1>13 DEF Restart
<1> QED BY <1>2, <1>3, <1>4, <1>5, <1>6, <1>7, <1>8, <1>9, <1>10, <1>11, <1>12, <1>13
           DEF SerialStep, Next, Outside, Request

\* An account is older than another after a step only if it was before: new
\* accounts come last, and those that remain keep their email and origin.
LEMMA OlderStays ==
    ASSUME IInv, Forward, NEW u \in Nat, u <= nextUser, NEW e
    PROVE  Older(u, e)' \subseteq Older(u, e)
BY AccountsAssumption DEF IInv, TypeOK, AccountsTypeOK, Forward, Older, Accounts, Users

\* Every step keeps a person's account the first that came to be by signing in
\* with their email, and the one a sign-in is about to give them likewise.
LEMMA FirstOfPersonStep == IInv /\ SInv /\ SerialStep => FirstOfPerson'
<1> SUFFICES ASSUME IInv, SInv, SerialStep PROVE FirstOfPerson'
  OBVIOUS
<1> USE AccountsAssumption
<1>1. /\ TypeOK /\ InFlight /\ HoldsIdentity /\ NoOrphans /\ Unborn
      /\ OneAtATime /\ OneAtATime' /\ FirstOfPerson
  BY DEF IInv, SInv, SerialStep
<1>2. Forward /\ NoOrphans'
  BY StepsGoForward, NoOrphansStep DEF SerialStep
<1>3. /\ nextUser \in Nat
      /\ \A u \in Accounts : u \in Nat /\ u < nextUser
      /\ \A i \in Identities : owner[i] # None => owner[i] \in Accounts
  BY <1>1 DEF TypeOK, AccountsTypeOK, Users, NoOrphans, Unborn, Accounts
<1>4. ASSUME NEW i \in Verified, owner[i] # None, owner'[i] # None
      PROVE  /\ email'[owner'[i]] = EmailOf[i]
             /\ \A u \in Nat : u = owner'[i] => Older(u, EmailOf[i])' = {}
  <2>1. owner'[i] = owner[i]
    BY <1>2, <1>4 DEF Forward
  <2>2. \A u \in Nat : u = owner[i] => Older(u, EmailOf[i])' \subseteq Older(u, EmailOf[i])
    BY <1>3, <1>2, <1>4, OlderStays
  <2>3. owner[i] \in Accounts /\ owner[i] \in Accounts'
    BY <1>2, <1>3, <1>4, <2>1 DEF NoOrphans
  <2>4. email'[owner[i]] = email[owner[i]]
    BY <1>2, <1>3, <2>3 DEF Forward, Accounts
  <2> QED BY <1>1, <1>4, <2>1, <2>2, <2>4 DEF FirstOfPerson
<1>5. ASSUME NEW i \in Verified, owner[i] = None, owner'[i] # None
      PROVE  /\ email'[owner'[i]] = EmailOf[i]
             /\ \A u \in Nat : u = owner'[i] => Older(u, EmailOf[i])' = {}
  <2>1. ~ Outside /\ ~ Restart
    BY <1>5, OutsideSteps DEF Disturbance, Restart, tables
  <2>2. PICK r \in Reqs : Request(r)
    BY <2>1 DEF SerialStep, Next, Outside
  <2>3. CASE Link(r)
    <3>1. i = who[r] /\ owner'[i] = uid[r] /\ uid[r] \in Accounts /\ UNCHANGED email
      BY <1>1, <1>5, <2>3 DEF Link, LinkIdentity, TypeOK, AccountsTypeOK
    <3>2. email[uid[r]] = EmailOf[i] /\ Older(uid[r], EmailOf[i]) = {}
      BY <1>1, <2>3, <3>1 DEF Link, HoldsIdentity, FirstOfPerson
    <3>3. \A u \in Nat : u = uid[r] => Older(u, EmailOf[i])' \subseteq Older(u, EmailOf[i])
      BY <1>2, <1>3, <3>1, OlderStays
    <3> QED BY <3>1, <3>2, <3>3
  <2>4. CASE Create(r)
    <3>1. i = who[r] /\ owner'[i] = nextUser /\ email' = [email EXCEPT ![nextUser] = EmailOf[who[r]]]
      BY <1>1, <1>5, <2>4 DEF Create, CreateUserWithIdentity, TypeOK, AccountsTypeOK
    <3>2. email'[nextUser] = EmailOf[i]
      BY <1>1, <2>4, <3>1 DEF Create, CreateUserWithIdentity, TypeOK, AccountsTypeOK, Users
    <3>3. Older(nextUser, EmailOf[i]) = {}
      BY <1>1, <2>4, <3>1 DEF Create, FirstOfPerson
    <3>4. \A u \in Nat : u = nextUser => Older(u, EmailOf[i])' \subseteq Older(u, EmailOf[i])
      BY <1>2, <1>3, OlderStays
    <3> QED BY <3>1, <3>2, <3>3, <3>4
  <2>5. ~ Link(r) /\ ~ Create(r) => UNCHANGED owner
    BY <2>2 DEF Request, Start, LookupIdentity, LookupEmail, CheckAllowlist, CheckInvite, PickRole,
                ApplyScope, SetUserCameras, Redeem, ConsumeInvite, Issue, IssueRefreshToken,
                StatementFails, tables
  <2> QED BY <1>5, <2>3, <2>4, <2>5
<1>6. ASSUME NEW r \in Reqs, pc'[r] \in {"gate", "invite", "role", "create"}, who'[r] \in Verified
      PROVE  Older(nextUser, EmailOf[who[r]])' = {}
  <2>1. CASE Outside
    <3>1. Disturbance /\ pc'[r] = pc[r] /\ who'[r] = who[r]
      BY <2>1, OutsideSteps DEF Disturbance, local
    <3>2. Older(nextUser, EmailOf[who[r]]) = {}
      BY <1>1, <1>6, <3>1 DEF FirstOfPerson
    <3>3. Older(nextUser, EmailOf[who[r]])' \subseteq Older(nextUser, EmailOf[who[r]])
      BY <1>1, <3>1 DEF Disturbance, Older, Accounts, Users, TypeOK, AccountsTypeOK
    <3> QED BY <3>2, <3>3
  <2>2. ASSUME NEW q \in Reqs, Request(q) PROVE q = r
    BY <1>1, <1>6, <2>2, OthersIdle
  <2>3. CASE LookupIdentity(r)
    BY <1>1, <1>6, <2>3 DEF LookupIdentity, Goto, TypeOK, RequestsTypeOK
  <2>4. CASE LookupEmail(r)
    <3>1. WithEmail(EmailOf[who[r]]) = {} /\ UNCHANGED <<tables, history, who>>
      BY <1>1, <1>6, <2>4 DEF LookupEmail, Goto, TypeOK, RequestsTypeOK
    <3> QED BY <3>1 DEF Older, WithEmail, Accounts, tables, history
  <2>5. CASE CheckAllowlist(r) \/ CheckInvite(r) \/ PickRole(r)
    <3>1. pc[r] \in {"gate", "invite", "role"} /\ who'[r] = who[r] /\ UNCHANGED <<tables, history>>
      BY <1>1, <1>6, <2>5 DEF CheckAllowlist, CheckInvite, PickRole, Goto, Answer, TypeOK,
                              RequestsTypeOK
    <3> QED BY <1>1, <1>6, <3>1 DEF FirstOfPerson, Older, Accounts, tables, history
  <2>6. CASE Start(r) \/ Link(r) \/ Create(r) \/ ApplyScope(r) \/ Redeem(r) \/ Issue(r) \/ StatementFails(r)
    BY <1>1, <1>6, <2>6 DEF Start, Link, Create, ApplyScope, Redeem, Issue, StatementFails, Goto,
                            Answer, TypeOK, RequestsTypeOK
  <2>7. ~ Restart
    BY <1>6 DEF Restart
  <2> QED BY <2>1, <2>2, <2>3, <2>4, <2>5, <2>6, <2>7 DEF SerialStep, Next, Outside, Request
<1>7. ASSUME NEW r \in Reqs, pc'[r] = "link"
      PROVE  Older(uid[r], EmailOf[who[r]])' = {}
  <2>1. CASE Outside
    <3>1. pc[r] = "link" /\ uid'[r] = uid[r] /\ who'[r] = who[r]
      BY <1>7, <2>1, OutsideSteps DEF Disturbance, local
    <3>2. uid[r] \in Nat /\ uid[r] <= nextUser
      BY <1>1, <1>3, <3>1 DEF InFlight, Born, Users
    <3>3. Older(uid[r], EmailOf[who[r]]) = {}
      BY <1>1, <3>1 DEF FirstOfPerson
    <3>4. \A u, e : u = uid[r] /\ e = EmailOf[who[r]] => Older(u, e)' \subseteq Older(u, e)
      BY <1>2, <3>2, OlderStays
    <3> QED BY <3>1, <3>3, <3>4
  <2>2. ASSUME NEW q \in Reqs, Request(q) PROVE q = r
    BY <1>1, <1>7, <2>2, OthersIdle
  <2>3. CASE LookupEmail(r)
    <3> DEFINE e == EmailOf[who[r]]
    <3>1. WithEmail(e) # {} /\ uid'[r] = FirstWithEmail(e) /\ UNCHANGED <<tables, history, who>>
      BY <1>1, <1>7, <2>3 DEF LookupEmail, Goto, TypeOK, RequestsTypeOK
    <3>2. FirstWithEmail(e) \in WithEmail(e) /\ \A v \in WithEmail(e) : FirstWithEmail(e) <= v
      BY <3>1, FirstWithEmailIn
    <3>3. WithEmail(e) \subseteq Nat
      BY DEF WithEmail, Accounts, Users
    <3>4. Older(FirstWithEmail(e), e) = {}
      BY <3>2, <3>3 DEF Older, WithEmail
    <3> QED BY <3>1, <3>4 DEF Older, Accounts, tables, history
  <2>4. CASE Request(r) /\ ~ LookupEmail(r)
    BY <1>1, <1>7, <2>4 DEF Request, Start, LookupIdentity, Link, CheckAllowlist, CheckInvite, PickRole,
                            Create, ApplyScope, Redeem, Issue, StatementFails, Goto, Answer, TypeOK,
                            RequestsTypeOK
  <2>5. ~ Restart
    BY <1>7 DEF Restart
  <2> QED BY <2>1, <2>2, <2>3, <2>4, <2>5 DEF SerialStep, Next, Outside
<1>8. \A i \in Verified : owner'[i] # None => owner'[i] \in Nat
  BY <1>2 DEF NoOrphans, Accounts, Users
<1> QED BY <1>4, <1>5, <1>6, <1>7, <1>8 DEF FirstOfPerson

\* The steps of a request that leave the tables alone.
Reads(r) ==
    \/ Start(r) \/ LookupIdentity(r) \/ LookupEmail(r) \/ CheckAllowlist(r)
    \/ CheckInvite(r) \/ PickRole(r)
    \/ Refused(r) /\ StatementFails(r)

\* Every step keeps an invite unspent only for the account, if any, whose
\* sign-in has still to redeem it.
LEMMA UnspentStep == IInv /\ SInv /\ QInv /\ QuietStep => Unspent'
<1> SUFFICES ASSUME IInv, SInv, QInv, QuietStep PROVE Unspent'
  OBVIOUS
<1> USE AccountsAssumption DEF Accounts, Pending
<1>1. /\ TypeOK /\ InFlight /\ Admitted /\ Unborn
      /\ OneAtATime /\ OneAtATime' /\ Unspent
  BY DEF IInv, SInv, QInv, QuietStep
<1>2. CASE Outside
  <2>1. Disturbance
    BY <1>2, OutsideSteps
  <2>2. \A u \in Accounts' : \/ u \in Accounts /\ origin'[u] = origin[u]
                             \/ origin'[u] = "cli"
    BY <1>1, <2>1 DEF Disturbance, TypeOK, AccountsTypeOK, Users
  <2>3. "cli" \notin Codes
    BY SignInAssumption
  <2>4. ASSUME NEW r \in Reqs, seen[r] # None PROVE seen[r] \in Codes
    BY <1>1, <2>4 DEF TypeOK, RequestsTypeOK
  <2> QED BY <1>1, <2>1, <2>2, <2>3, <2>4 DEF Disturbance, local, Unspent
<1>3. ASSUME NEW r \in Reqs, Sign(r) PROVE Unspent'
  <2>1. \A q \in Reqs : q # r => pc[q] = "idle" /\ pc'[q] = "idle"
    BY <1>1, <1>3, OthersIdle DEF IInv, Sign, Request
  <2>2. pc[r] \notin {"scope", "redeem"} => \A u \in Accounts : origin[u] \in Codes => ~ Pending(origin[u])
    BY <1>1, <2>1 DEF Unspent
  <2>3. CASE Reads(r)
    <3>1. UNCHANGED <<tables, history>>
      BY <2>3 DEF Reads, Start, LookupIdentity, LookupEmail, CheckAllowlist, CheckInvite, PickRole,
                  StatementFails
    <3>2. ASSUME NEW u \in Accounts, origin[u] \in Codes, Pending(origin[u])
          PROVE  pc'[r] \in {"scope", "redeem"} /\ uid'[r] = u
      <4>1. pc[r] \in {"scope", "redeem"} /\ uid[r] = u
        BY <1>1, <2>1, <3>2 DEF Unspent
      <4>2. origin[u] = seen[r]
        BY <1>1, <4>1 DEF InFlight
      <4> QED BY <1>1, <2>3, <3>2, <4>1, <4>2
              DEF Reads, Start, LookupIdentity, LookupEmail, CheckAllowlist, CheckInvite, PickRole,
                  Refused, StatementFails, Goto, TypeOK, RequestsTypeOK
    <3>3. ASSUME pc'[r] \in {"role", "create"}, seen'[r] # None, NEW u \in Accounts
          PROVE  origin[u] # seen'[r]
      <4>1. CASE CheckInvite(r)
        <5>1. pc[r] = "invite" /\ seen'[r] \in Codes /\ Pending(seen'[r])
          BY <1>1, <3>3, <4>1 DEF CheckInvite, Goto, Answer, TypeOK, RequestsTypeOK
        <5> QED BY <2>2, <5>1
      <4>2. CASE PickRole(r)
        BY <1>1, <3>3, <4>2 DEF PickRole, Unspent, TypeOK, RequestsTypeOK
      <4>3. CASE Start(r) \/ LookupIdentity(r) \/ LookupEmail(r) \/ CheckAllowlist(r) \/ StatementFails(r)
        BY <1>1, <3>3, <4>3 DEF Start, LookupIdentity, LookupEmail, CheckAllowlist, StatementFails,
                                Goto, Answer, TypeOK, RequestsTypeOK
      <4> QED BY <2>3, <4>1, <4>2, <4>3 DEF Reads
    <3> QED BY <1>1, <2>1, <3>1, <3>2, <3>3 DEF Unspent, tables, history
  <2>4. CASE Link(r) \/ Issue(r)
    <3>1. /\ pc[r] \in {"link", "issue"} /\ pc'[r] \in {"issue", "idle"}
          /\ UNCHANGED <<role, invite, origin>>
      BY <1>1, <2>4 DEF Link, LinkIdentity, Issue, IssueRefreshToken, Goto, Answer, TypeOK,
                        RequestsTypeOK, history
    <3> QED BY <1>1, <2>1, <2>2, <3>1 DEF Unspent
  <2>5. CASE Create(r)
    <3>1. /\ pc[r] = "create"
          /\ pc'[r] = IF seen[r] = None THEN "issue"
                      ELSE IF invite[seen[r]].cams = {} THEN "redeem" ELSE "scope"
          /\ uid'[r] = nextUser
          /\ UNCHANGED invite
      BY <1>1, <2>5 DEF Create, CreateUserWithIdentity, Goto, TypeOK, RequestsTypeOK
    <3>2. Accounts' \subseteq Accounts \cup {nextUser} /\ nextUser \in Users
      BY <1>1, <2>5 DEF Create, CreateUserWithIdentity, TypeOK, AccountsTypeOK, Users
    <3>3. \A u \in Accounts : u # nextUser => origin'[u] = origin[u]
      BY <1>1, <2>5 DEF Create, TypeOK
    <3>4. nextUser \notin Accounts
      BY <1>1, <3>2 DEF Unborn, TypeOK, AccountsTypeOK, Users
    <3>5. origin'[nextUser] \in Codes => seen[r] # None /\ origin'[nextUser] = seen[r]
      BY <1>1, <2>5, <3>2, SignInAssumption DEF Create, TypeOK
    <3>6. seen[r] # None => invite[seen[r]].state # "unminted"
      BY <1>1 DEF Admitted
    <3> QED BY <1>1, <2>1, <2>2, <3>1, <3>2, <3>3, <3>4, <3>5, <3>6 DEF Unspent
  <2>6. CASE ApplyScope(r)
    <3>1. /\ pc[r] = "scope" /\ pc'[r] = "redeem" /\ uid' = uid
          /\ UNCHANGED <<role, invite, origin>>
      BY <1>1, <2>6 DEF ApplyScope, SetUserCameras, Goto, TypeOK, RequestsTypeOK
    <3> QED BY <1>1, <2>1, <3>1 DEF Unspent
  <2>7. CASE Redeem(r)
    <3>1. /\ pc[r] = "redeem" /\ pc'[r] = "issue"
          /\ UNCHANGED <<role, origin>>
      BY <1>1, <2>7 DEF Redeem, ConsumeInvite, Goto, TypeOK, RequestsTypeOK, history
    <3>2. seen[r] \in Codes /\ origin[uid[r]] = seen[r]
      BY <1>1, <3>1 DEF InFlight, TypeOK, RequestsTypeOK
    <3>3. \A c \in Codes : /\ c # seen[r] => invite'[c].state = invite[c].state
                           /\ invite'[c].state # "pending" \/ c # seen[r]
                           /\ invite[c].state # "unminted" => invite'[c].state # "unminted"
      BY <1>1, <2>7, <3>2 DEF Redeem, ConsumeInvite, TypeOK, AccountsTypeOK, Invites
    <3> QED BY <1>1, <2>1, <3>1, <3>2, <3>3 DEF Unspent
  <2> QED BY <1>3, <2>3, <2>4, <2>5, <2>6, <2>7 DEF Sign, Reads
<1> QED BY <1>2, <1>3 DEF QuietStep

\* Every step keeps the rank of owner for a sign-in that saw no account, and
\* for which nobody else but the CLI has made one since.
LEMMA FirstRankStep == IInv /\ SInv /\ SerialStep => FirstRank'
<1> SUFFICES ASSUME IInv, SInv, SerialStep, NEW r \in Reqs,
                    pc'[r] = "create", seen'[r] = None, rank'[r] = "admin",
                    EmailOf[who'[r]] \notin AdminEmails, NEW u \in Accounts'
             PROVE  origin'[u] # "owner"
  BY DEF FirstRank
<1> USE AccountsAssumption DEF Accounts
<1>1. TypeOK /\ Unborn /\ OneAtATime /\ OneAtATime' /\ FirstRank
  BY DEF IInv, SInv, SerialStep
<1>2. CASE Outside
  <2>1. Disturbance
    BY <1>2, OutsideSteps
  <2>2. \/ u \in Accounts /\ origin'[u] = origin[u]
        \/ origin'[u] = "cli"
    BY <1>1, <2>1 DEF Disturbance, TypeOK, AccountsTypeOK, Users
  <2> QED BY <1>1, <2>1, <2>2 DEF Disturbance, local, FirstRank
<1>3. ASSUME NEW q \in Reqs, Request(q) PROVE q = r
  BY <1>1, <1>3, OthersIdle
<1>4. CASE PickRole(r)
  BY <1>1, <1>4 DEF PickRole, TypeOK, RequestsTypeOK, tables
<1>5. CASE Request(r) /\ ~ PickRole(r)
  BY <1>1, <1>5 DEF Request, Start, LookupIdentity, LookupEmail, Link, CheckAllowlist, CheckInvite,
                    Create, ApplyScope, Redeem, Issue, StatementFails, Goto, Answer, TypeOK,
                    RequestsTypeOK
<1>6. ~ Restart
  BY DEF Restart
<1> QED BY <1>2, <1>3, <1>4, <1>5, <1>6 DEF SerialStep, Next, Outside

\* Every step keeps at most one account that came to be as the first.
LEMMA OneOwnerStep == IInv /\ SInv /\ SerialStep => OneOwner'
<1> SUFFICES ASSUME IInv, SInv, SerialStep PROVE OneOwner'
  OBVIOUS
<1> USE AccountsAssumption DEF Accounts
<1>1. TypeOK /\ Unborn /\ FirstRank /\ OneOwner
  BY DEF IInv, SInv
<1>2. Forward
  BY StepsGoForward DEF SerialStep
<1>3. CASE \A u \in Accounts' : u \in Accounts \/ origin'[u] # "owner"
  BY <1>1, <1>2, <1>3 DEF OneOwner, Forward, TypeOK, AccountsTypeOK, Unborn, Users
<1>4. CASE Outside
  <2>1. \A u \in Accounts' : u \in Accounts \/ origin'[u] = "cli"
    BY <1>1, <1>4, OutsideSteps DEF Disturbance, TypeOK, AccountsTypeOK, Users
  <2> QED BY <1>3, <2>1
<1>5. ASSUME NEW r \in Reqs, Create(r) PROVE OneOwner'
  <2>1. /\ nextUser \in Users /\ pc[r] = "create"
        /\ Accounts' = Accounts \cup {nextUser}
        /\ \A u \in Accounts : u # nextUser => origin'[u] = origin[u]
    BY <1>1, <1>5 DEF Create, CreateUserWithIdentity, TypeOK, AccountsTypeOK, RequestsTypeOK, Users
  <2>2. CASE origin'[nextUser] = "owner"
    <3>1. /\ seen[r] = None /\ rank[r] = "admin" /\ EmailOf[who[r]] \notin AdminEmails
      BY <1>1, <1>5, <2>1, <2>2, SignInAssumption DEF Create, TypeOK, RequestsTypeOK
    <3>2. \A u \in Accounts : origin[u] # "owner"
      BY <1>1, <2>1, <3>1 DEF FirstRank
    <3> QED BY <2>1, <3>2 DEF OneOwner
  <2>3. CASE origin'[nextUser] # "owner"
    BY <1>3, <2>1, <2>3
  <2> QED BY <2>2, <2>3
<1>6. ASSUME NEW r \in Reqs, Request(r), ~ Create(r) PROVE UNCHANGED role
  BY <1>6 DEF Request, Start, LookupIdentity, LookupEmail, Link, LinkIdentity, CheckAllowlist,
              CheckInvite, PickRole, ApplyScope, SetUserCameras, Redeem, ConsumeInvite, Issue,
              IssueRefreshToken, StatementFails, tables
<1>7. Restart => UNCHANGED role
  BY DEF Restart, tables
<1> QED BY <1>3, <1>4, <1>5, <1>6, <1>7 DEF SerialStep, Next, Outside

\* Every step keeps an invite the origin of at most one account.
LEMMA InviteSingleUseStep == IInv /\ SInv /\ QInv /\ QuietStep => InviteSingleUse'
<1> SUFFICES ASSUME IInv, SInv, QInv, QuietStep PROVE InviteSingleUse'
  OBVIOUS
<1> USE AccountsAssumption DEF Accounts
<1>1. TypeOK /\ Unborn /\ Unspent /\ InviteSingleUse
  BY DEF IInv, SInv, QInv
<1>2. Forward
  BY StepsGoForward, QuietIsSerial DEF SerialStep
<1>3. CASE \A u \in Accounts' : u \in Accounts \/ origin'[u] \notin Codes
  BY <1>1, <1>2, <1>3 DEF InviteSingleUse, Forward, TypeOK, AccountsTypeOK, Unborn, Users
<1>4. CASE Outside
  <2>1. \A u \in Accounts' : u \in Accounts \/ origin'[u] = "cli"
    BY <1>1, <1>4, OutsideSteps DEF Disturbance, TypeOK, AccountsTypeOK, Users
  <2> QED BY <1>3, <2>1, SignInAssumption
<1>5. ASSUME NEW r \in Reqs, Create(r) PROVE InviteSingleUse'
  <2>1. /\ nextUser \in Users /\ pc[r] = "create"
        /\ Accounts' = Accounts \cup {nextUser}
        /\ \A u \in Accounts : u # nextUser => origin'[u] = origin[u]
    BY <1>1, <1>5 DEF Create, CreateUserWithIdentity, TypeOK, AccountsTypeOK, RequestsTypeOK, Users
  <2>2. CASE origin'[nextUser] \in Codes
    <3>1. seen[r] # None /\ origin'[nextUser] = seen[r]
      BY <1>1, <1>5, <2>1, <2>2, SignInAssumption DEF Create, TypeOK
    <3>2. \A u \in Accounts : origin[u] # seen[r]
      BY <1>1, <2>1, <3>1 DEF Unspent
    <3> QED BY <1>1, <2>1, <3>1, <3>2 DEF InviteSingleUse
  <2>3. CASE origin'[nextUser] \notin Codes
    BY <1>3, <2>1, <2>3
  <2> QED BY <2>2, <2>3
<1>6. ASSUME NEW r \in Reqs, Sign(r), ~ Create(r) PROVE UNCHANGED role
  BY <1>6 DEF Sign, Start, LookupIdentity, LookupEmail, Link, LinkIdentity, CheckAllowlist,
              CheckInvite, PickRole, ApplyScope, SetUserCameras, Redeem, ConsumeInvite, Issue,
              IssueRefreshToken, StatementFails, tables
<1> QED BY <1>3, <1>4, <1>5, <1>6 DEF QuietStep

\* Every step keeps the scope decided for an account in force, except for the
\* account the sign-in at work has just created, which holds no tokens yet.
LEMMA ScopedStep == IInv /\ SInv /\ QInv /\ QuietStep => Scoped'
<1> SUFFICES ASSUME IInv, SInv, QInv, QuietStep, NEW u \in Users
             PROVE  /\ u \notin Accounts' => granted'[u] = {}
                    /\ \/ scope'[u] = granted'[u]
                       \/ \E r \in Reqs : pc'[r] = "scope" /\ uid'[r] = u /\ u \notin sessions'
  BY DEF Scoped
<1> USE AccountsAssumption DEF Accounts
<1>1. /\ TypeOK /\ InFlight /\ NoOrphans /\ Unborn
      /\ OneAtATime /\ OneAtATime' /\ Scoped
  BY DEF IInv, SInv, QInv, QuietStep
<1>2. CASE Outside
  BY <1>1, <1>2, OutsideSteps DEF Disturbance, local, Scoped
<1>3. ASSUME NEW r \in Reqs, Sign(r)
      PROVE  /\ u \notin Accounts' => granted'[u] = {}
             /\ \/ scope'[u] = granted'[u]
                \/ pc'[r] = "scope" /\ uid'[r] = u /\ u \notin sessions'
  <2>1. \/ scope[u] = granted[u]
        \/ pc[r] = "scope" /\ uid[r] = u /\ u \notin sessions
    BY <1>1, <1>3, OthersIdle DEF Scoped, Sign, Request
  <2>2. CASE Reads(r)
    <3>1. UNCHANGED <<role, scope, granted, sessions>>
      BY <2>2 DEF Reads, Start, LookupIdentity, LookupEmail, CheckAllowlist, CheckInvite, PickRole,
                  StatementFails, tables, history
    <3>2. CASE scope[u] = granted[u]
      BY <1>1, <3>1, <3>2 DEF Scoped
    <3>3. CASE pc[r] = "scope" /\ uid[r] = u
      <4>1. u \notin Accounts
        BY <2>2, <3>3 DEF Reads, Start, LookupIdentity, LookupEmail, CheckAllowlist, CheckInvite,
                          PickRole, Refused
      <4>2. scope[u] = {} /\ granted[u] = {}
        BY <1>1, <4>1 DEF NoOrphans, Scoped
      <4> QED BY <3>1, <4>2
    <3> QED BY <2>1, <3>2, <3>3
  <2>3. CASE Link(r) \/ Redeem(r)
    <3>1. pc[r] # "scope" /\ UNCHANGED <<role, scope, granted, sessions>>
      BY <2>3 DEF Link, LinkIdentity, Redeem, ConsumeInvite, history
    <3> QED BY <1>1, <2>1, <3>1 DEF Scoped
  <2>4. CASE Issue(r)
    <3>1. pc[r] # "scope" /\ UNCHANGED <<role, scope, granted>>
      BY <2>4 DEF Issue, IssueRefreshToken, history
    <3> QED BY <1>1, <2>1, <3>1 DEF Scoped
  <2>5. CASE Create(r)
    <3>1. /\ nextUser \in Users /\ nextUser \notin Accounts /\ pc[r] = "create"
          /\ Accounts' = Accounts \cup {nextUser}
          /\ UNCHANGED <<scope, sessions>>
          /\ \A v \in Users : v # nextUser => granted'[v] = granted[v]
          /\ granted'[nextUser] = IF seen[r] # None THEN invite[seen[r]].cams ELSE {}
          /\ uid'[r] = nextUser
          /\ pc'[r] = IF seen[r] = None THEN "issue"
                      ELSE IF invite[seen[r]].cams = {} THEN "redeem" ELSE "scope"
      BY <1>1, <2>5 DEF Create, CreateUserWithIdentity, Goto, TypeOK, AccountsTypeOK,
                        RequestsTypeOK, Unborn, Users
    <3>2. scope[nextUser] = {} /\ nextUser \notin sessions
      BY <1>1, <3>1 DEF NoOrphans
    <3> QED BY <1>1, <2>1, <3>1, <3>2 DEF Scoped
  <2>6. CASE ApplyScope(r)
    <3>1. /\ uid[r] \in Accounts /\ UNCHANGED role
          /\ scope' = [scope EXCEPT ![uid[r]] = invite[seen[r]].cams]
          /\ granted' = [granted EXCEPT ![uid[r]] = invite[seen[r]].cams]
      BY <2>6 DEF ApplyScope, SetUserCameras
    <3>2. scope \in [Users -> Scopes] /\ granted \in [Users -> Scopes]
      BY <1>1 DEF TypeOK, AccountsTypeOK
    <3>3. CASE u = uid[r]
      BY <3>1, <3>2, <3>3
    <3>4. CASE u # uid[r]
      BY <1>1, <2>1, <3>1, <3>2, <3>4 DEF Scoped
    <3> QED BY <3>3, <3>4
  <2> QED BY <1>3, <2>2, <2>3, <2>4, <2>5, <2>6 DEF Sign, Reads
<1> QED BY <1>2, <1>3 DEF QuietStep

\* The empty database satisfies the invariants of every load.
LEMMA InitLoads == Init => SInv /\ QInv
<1> SUFFICES ASSUME Init PROVE SInv /\ QInv
  OBVIOUS
<1> USE AccountsAssumption
<1>1. Accounts = {} /\ \A r \in Reqs : pc[r] = "idle"
  BY DEF Init, AccountsInit, Accounts
<1>2. OneAtATime /\ OneBinding /\ FirstRank
  BY <1>1 DEF OneAtATime, OneBinding, FirstRank
<1>3. FirstOfPerson
  BY <1>1 DEF Init, AccountsInit, FirstOfPerson
<1>4. Unspent /\ InviteSingleUse /\ OneOwner
  BY <1>1 DEF Unspent, InviteSingleUse, OneOwner
<1>5. Scoped
  BY DEF Init, AccountsInit, Scoped
<1> QED BY <1>2, <1>3, <1>4, <1>5 DEF SInv, QInv

LoadInv ==
    /\ IInv
    /\ load # "busy" => SInv
    /\ load = "quiet" => QInv

\* Under every load the invariant of SignIn holds; while requests come one at a
\* time that of the one at work, and if nothing fails its stronger one.
THEOREM LoadInvariance == LoadSpec => []LoadInv
<1>1. LoadInit => LoadInv
  BY InitIInv, InitLoads DEF LoadInit, LoadInv
<1>2. LoadInv /\ [LoadNext]_<<vars, load>> => LoadInv'
  <2> SUFFICES ASSUME LoadInv, [LoadNext]_<<vars, load>> PROVE LoadInv'
    OBVIOUS
  <2>1. [Next]_vars
    BY QuietSteps DEF LoadNext, QuietNext, SerialNext, BusyNext, Next, Request, Sign, Outside
  <2>2. IInv' /\ UNCHANGED load
    BY <2>1, IInvStep DEF LoadInv, LoadNext
  <2>3. ASSUME SInv, SerialStep PROVE SInv'
    BY <2>3, OneBindingStep, FirstOfPersonStep, FirstRankStep, OneOwnerStep
       DEF LoadInv, SInv, SerialStep
  <2>4. CASE QuietNext
    <3>1. SInv /\ QInv /\ QuietStep /\ SerialStep
      BY <2>4, QuietSteps, QuietIsSerial DEF LoadInv, QuietNext, QuietStep
    <3>2. QInv'
      BY <3>1, UnspentStep, ScopedStep, InviteSingleUseStep DEF LoadInv, QInv
    <3> QED BY <2>2, <2>3, <3>1, <3>2 DEF LoadInv
  <2>5. CASE SerialNext
    BY <2>2, <2>3, <2>5 DEF LoadInv, SerialNext, SerialStep
  <2>6. CASE BusyNext
    BY <2>2, <2>6 DEF LoadInv, BusyNext
  <2>7. CASE UNCHANGED <<vars, load>>
    <3>1. SInv => SInv'
      BY <2>7 DEF SInv, OneAtATime, OneBinding, FirstOfPerson, Older, FirstRank, OneOwner,
                  Accounts, vars, tables, local, history
    <3>2. QInv => QInv'
      BY <2>7 DEF QInv, Unspent, Scoped, InviteSingleUse, Accounts, Pending, vars, tables, local,
                  history
    <3> QED BY <2>2, <3>1, <3>2 DEF LoadInv
  <2> QED BY <2>4, <2>5, <2>6, <2>7 DEF LoadNext
<1> QED BY <1>1, <1>2, PTL DEF LoadSpec

\* No invite lets in two accounts on a quiet gateway, whatever the admin does
\* between the statements of a sign-in.
THEOREM QuietInvites == LoadSpec => []QuietInviteSingleUse
<1>1. LoadInv => QuietInviteSingleUse
  BY DEF LoadInv, QInv, QuietInviteSingleUse
<1> QED BY <1>1, LoadInvariance, PTL

\* On a quiet gateway whoever holds tokens has the scope decided for them.
THEOREM QuietScopes == LoadSpec => []QuietScopedBeforeTokens
<1>1. LoadInv => QuietScopedBeforeTokens
  <2> SUFFICES ASSUME IInv, Scoped, NEW u \in sessions PROVE scope[u] = granted[u]
    BY DEF LoadInv, QInv, QuietScopedBeforeTokens, ScopedBeforeTokens
  <2>1. u \in Users
    BY DEF IInv, TypeOK, AccountsTypeOK
  <2> QED BY <2>1 DEF Scoped, Accounts
<1> QED BY <1>1, LoadInvariance, PTL

\* While sign-ins do not overlap the identities of one person lead to one
\* account, whatever fails, unless the CLI has made another with the same email.
THEOREM SerialPersons == LoadSpec => []SerialOneAccountPerPerson
<1>1. LoadInv => SerialOneAccountPerPerson
  <2> SUFFICES ASSUME IInv, FirstOfPerson, NEW i \in Verified, NEW j \in Verified,
                      EmailOf[i] = EmailOf[j], owner[i] # None, owner[j] # None,
                      owner[i] # owner[j]
               PROVE  "cli" \in {origin[owner[i]], origin[owner[j]]}
    BY DEF LoadInv, SInv, SerialOneAccountPerPerson, OneAccountPerPerson
  <2>1. owner[i] \in Accounts /\ owner[j] \in Accounts
    BY AccountsAssumption DEF IInv, NoOrphans
  <2>2. owner[i] < owner[j] \/ owner[j] < owner[i]
    BY <2>1, AccountsAssumption DEF Accounts, Users
  <2>3. /\ email[owner[i]] = EmailOf[i] /\ Older(owner[i], EmailOf[i]) = {}
        /\ email[owner[j]] = EmailOf[i] /\ Older(owner[j], EmailOf[i]) = {}
    BY DEF FirstOfPerson
  <2> QED BY <2>1, <2>2, <2>3 DEF Older
<1> QED BY <1>1, LoadInvariance, PTL

\* While sign-ins do not overlap one account at most is an admin's for being
\* the first, whatever fails.
THEOREM SerialOwners == LoadSpec => []SerialOneOwner
<1>1. LoadInv => SerialOneOwner
  BY DEF LoadInv, SInv, SerialOneOwner
<1> QED BY <1>1, LoadInvariance, PTL

\* While sign-ins do not overlap one is answered for the account its identity is
\* bound to, whatever fails.
THEOREM SerialAnswers == LoadSpec => SerialAnsweredForItsIdentity
<1>1. LoadInv => (load # "busy" => AnswersItsIdentity)
  BY DEF LoadInv, SInv, OneBinding, AnswersItsIdentity, Issue, IssueRefreshToken
<1>2. LoadInv /\ [LoadNext]_<<vars, load>> => [load # "busy" => AnswersItsIdentity]_vars
  BY <1>1
<1> QED BY <1>2, LoadInvariance, PTL DEF LoadSpec, SerialAnsweredForItsIdentity
=============================================================================
