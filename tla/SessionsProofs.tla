--------------------------- MODULE SessionsProofs ---------------------------
(***************************************************************************)
(* Proofs about module Sessions, for any accounts, cameras, requests and   *)
(* bounds.                                                                 *)
(*                                                                         *)
(* IInv says what a request holds while it is under way: a refresh, a      *)
(* token of a person who was not thrown out (Refreshers) and which, once   *)
(* revoked, has no heir yet (Exchanges); a read, what its user has been    *)
(* entitled to so far (Readers).                                           *)
(***************************************************************************)
EXTENDS Sessions, TLAPS

Refreshers ==
    \A r \in Reqs : pc[r] \in {"revoke", "issue"} =>
        /\ who[r] = holder[given[r]]
        /\ who[r] \in Accounts => who[r] \notin out

Readers ==
    \A r \in Reqs :
        /\ pc[r] # "answered" => shown[r] = {}
        /\ Reading(r) => Rights(who[r]) \subseteq ever[r]
        /\ pc[r] = "cameras" =>
             kind[r] # "settings" /\ (ever[r] # {} \/ Cameras = {})

Exchanges ==
    /\ \A x \in Tokens : parent[x] # None =>
         /\ parent[x] \in 1 .. next - 1
         /\ parent[x] \notin contested =>
              state[parent[x]] # "live" /\ Holding(parent[x]) = {}
    /\ \A r \in Reqs : pc[r] = "issue" /\ given[r] \notin contested =>
         state[given[r]] # "live"
    /\ \A t \in Tokens : \A r, q \in Holding(t) : r = q \/ t \in contested

IInv ==
    /\ TypeOK
    /\ Refreshers /\ RevokedStaysOut
    /\ Readers /\ ShownWasEntitled
    /\ Exchanges /\ ExchangedOnce

\* Numbers, accounts and None are apart, and tokens are numbers.
LEMMA NoneIsApart == None \notin Tokens /\ None \notin Users /\ None \notin Roles
BY SessionsAssumption DEF Tokens

-----------------------------------------------------------------------------
(* Types.                                                                  *)

LEMMA TypeInit == Init => TypeOK
<1> USE SessionsAssumption, NoneIsApart
<1>1. {} \in SUBSET (Cameras \cup {Settings}) /\ "events" \in Kinds
    BY DEF Kinds
<1>2. ASSUME Init PROVE TypeOK
    BY <1>1, <1>2 DEF Init, TypeOK, Steps, States, Tokens
<1> QED BY <1>2

\* Issuing a token takes the next number.
LEMMA IssueTypes ==
    ASSUME TypeOK, NEW u \in Users, NEW t \in Tokens \cup {None}, Issue(u, t)
    PROVE  /\ state' \in [Tokens -> States]
           /\ holder' \in [Tokens -> Users \cup {None}]
           /\ parent' \in [Tokens -> Tokens \cup {None}]
           /\ next \in Tokens /\ next' = next + 1 /\ next' \in 1 .. MaxTokens + 1
           /\ \A x \in Tokens : x >= next' <=> state'[x] = "unissued"
           /\ \A x \in Tokens : x >= next' <=> holder'[x] = None
BY SessionsAssumption, NoneIsApart DEF Issue, TypeOK, Tokens, States

LEMMA ForgetTypes ==
    ASSUME TypeOK, NEW r \in Reqs, Forget(r)
    PROVE  /\ pc' \in [Reqs -> Steps] /\ kind' \in [Reqs -> Kinds]
           /\ who' \in [Reqs -> Users \cup {None}]
           /\ given' \in [Reqs -> Tokens \cup {None}]
           /\ shown' \in [Reqs -> SUBSET (Cameras \cup {Settings})]
           /\ ever' \in [Reqs -> SUBSET (Cameras \cup {Settings})]
           /\ \A q \in Reqs : q # r \/ pc'[q] = "idle"
           /\ \A q \in Reqs : q = r \/ (pc'[q] = pc[q] /\ given'[q] = given[q] /\ who'[q] = who[q])
BY DEF Forget, Goto, TypeOK, Steps, Kinds

LEMMA RememberTypes ==
    ASSUME TypeOK, Remember
    PROVE  ever' \in [Reqs -> SUBSET (Cameras \cup {Settings})]
<1>1. \A u : Rights(u)' \subseteq Cameras \cup {Settings}
    BY DEF Rights
<1> QED BY <1>1 DEF Remember, TypeOK

\* An answer is a set of cameras, or the use of the settings.
LEMMA AnswerTypes ==
    ASSUME TypeOK, NEW r \in Reqs, NEW what \in SUBSET (Cameras \cup {Settings}),
           Answer(r, what)
    PROVE  /\ pc' \in [Reqs -> Steps]
           /\ shown' \in [Reqs -> SUBSET (Cameras \cup {Settings})]
BY DEF Answer, Goto, TypeOK, Steps

\* What is shown of cameras to whoever asks for k.
LEMMA ShownCameras ==
    ASSUME NEW k, NEW cams \in SUBSET Cameras
    PROVE  /\ All(k) \subseteq Cameras
           /\ Limited(k, cams) \subseteq Cameras
           /\ k # "events" \/ cams # {} => Limited(k, cams) \subseteq cams
           /\ Unknown(k) \subseteq Cameras
           /\ k # "events" => Unknown(k) = {}
<1> USE SessionsAssumption
<1>1. ASSUME k = "events" PROVE Limited(k, cams) = ListEvents(cams) /\ Unknown(k) = Cameras
    BY <1>1 DEF Limited, Unknown, ListEvents
<1>2. ASSUME k \in {"search", "cameras", "me"}
      PROVE  Limited(k, cams) = cams /\ Unknown(k) = {}
    BY <1>2 DEF Limited, Unknown, SearchEvents, ListCameras
<1>3. ASSUME k \notin {"events", "search", "cameras", "me"}
      PROVE  Limited(k, cams) = {k} \cap cams /\ Unknown(k) = {}
    BY <1>3 DEF Limited, Unknown, CameraAccessible
<1>4. All(k) \subseteq Cameras
    BY DEF All
<1> QED BY <1>1, <1>2, <1>3, <1>4 DEF ListEvents

\* Commands leave requests alone, and tables of their types.
LEMMA CommandTypes ==
    ASSUME TypeOK, Command
    PROVE  /\ role' \in [Users -> Roles \cup {None}]
           /\ scope' \in [Users -> Scopes]
           /\ state' \in [Tokens -> States]
           /\ \A x \in Tokens : state'[x] = "unissued" <=> state[x] = "unissued"
           /\ out \cap Accounts' \subseteq out' /\ out' \subseteq Users
           /\ commands' \in 0 .. MaxCommands
           /\ UNCHANGED <<holder, next, pc, request, parent, contested>>
<1> USE SessionsAssumption, NoneIsApart
<1>1. UNCHANGED <<holder, next, pc, request, parent, contested>>
    BY DEF Command, SetUserRole, SetUserCameras, RevokeAllRefreshTokens, DeleteUser, tokens, accounts
<1>2. commands' \in 0 .. MaxCommands
    BY DEF Command, TypeOK
<1>3. PICK u \in Users :
        \/ \E x \in Roles : SetUserRole(u, x)
        \/ \E cams \in Scopes : SetUserCameras(u, cams)
        \/ RevokeAllRefreshTokens(u)
        \/ DeleteUser(u)
    BY DEF Command
<1>4. CASE \E x \in Roles : SetUserRole(u, x)
    BY <1>1, <1>2, <1>4 DEF SetUserRole, TypeOK, tokens
<1>5. CASE \E cams \in Scopes : SetUserCameras(u, cams)
    BY <1>1, <1>2, <1>5 DEF SetUserCameras, TypeOK, tokens
<1>6. CASE RevokeAllRefreshTokens(u)
    BY <1>1, <1>2, <1>6 DEF RevokeAllRefreshTokens, TypeOK, accounts, States, LiveOf
<1>7. CASE DeleteUser(u)
    <2>1. \A x \in Tokens : holder[x] = u => state[x] # "unissued"
        BY <1>7 DEF TypeOK
    <2> QED BY <1>1, <1>2, <1>7, <2>1 DEF DeleteUser, TypeOK, States
<1> QED BY <1>3, <1>4, <1>5, <1>6, <1>7

\* Tokens that were given out are rows with a holder.
LEMMA GivenOut ==
    ASSUME TypeOK, NEW t \in 1 .. next - 1
    PROVE  t \in Tokens /\ state[t] # "unissued" /\ holder[t] \in Users
<1>1. next \in Nat /\ next <= MaxTokens + 1 /\ MaxTokens \in Nat
    BY SessionsAssumption DEF TypeOK
<1>2. t \in Tokens /\ ~ (t >= next)
    BY <1>1 DEF Tokens
<1> QED BY <1>2 DEF TypeOK

LEMMA Held ==
    ASSUME TypeOK, NEW r \in Reqs, pc[r] \in {"lookup", "revoke", "issue"}
    PROVE  /\ given[r] \in 1 .. next - 1
           /\ given[r] \in Tokens /\ state[given[r]] # "unissued"
           /\ holder[given[r]] \in Users
<1>1. given[r] \in 1 .. next - 1
    BY DEF TypeOK
<1> QED BY <1>1, GivenOut

LEMMA TypeNext == TypeOK /\ [Next]_vars => TypeOK'
<1> USE SessionsAssumption, NoneIsApart
<1> SUFFICES ASSUME TypeOK, Next PROVE TypeOK'
    BY DEF vars, TypeOK, accounts, tokens, request, history
<1> USE DEF accounts, tokens, request, history
<1>1. ASSUME NEW r \in Reqs, StartRefresh(r) PROVE TypeOK'
    <2>1. PICK t \in 1 .. next - 1 : given' = [given EXCEPT ![r] = t]
        BY <1>1 DEF StartRefresh
    <2>2. t \in Tokens
        BY <2>1, GivenOut
    <2> QED BY <1>1, <2>1, <2>2 DEF StartRefresh, Goto, TypeOK, Steps
<1>2. ASSUME NEW r \in Reqs, Lookup(r) PROVE TypeOK'
    <2>1. given[r] \in Tokens /\ holder[given[r]] \in Users
        BY <1>2, Held DEF Lookup
    <2> QED BY <1>2, <2>1 DEF Lookup, Goto, TypeOK, Steps
<1>3. ASSUME NEW r \in Reqs, Revoke(r) PROVE TypeOK'
    <2>1. given[r] \in Tokens /\ state[given[r]] # "unissued"
        BY <1>3, Held DEF Revoke
    <2>2. state' \in [Tokens -> States]
        BY <1>3 DEF Revoke, TypeOK, States
    <2>3. \A x \in Tokens : state'[x] = "unissued" <=> state[x] = "unissued"
        BY <1>3, <2>1 DEF Revoke, Retired
    <2> QED BY <1>3, <2>2, <2>3 DEF Revoke, Goto, TypeOK, Steps
<1>4. ASSUME NEW r \in Reqs, RevokeFails(r) PROVE TypeOK'
    <2>1. given[r] \in Tokens
        BY <1>4, Held DEF RevokeFails
    <2> QED BY <1>4, <2>1 DEF RevokeFails, Goto, TypeOK, Steps
<1>5. ASSUME NEW r \in Reqs, IssueTokens(r) PROVE TypeOK'
    <2>1. given[r] \in Tokens
        BY <1>5, Held DEF IssueTokens
    <2>2. who[r] \in Users
        BY <1>5 DEF IssueTokens, TypeOK
    <2>3. Issue(who[r], given[r]) /\ Forget(r)
        BY <1>5 DEF IssueTokens
    <2> QED BY <1>5, <2>1, <2>2, <2>3, IssueTypes, ForgetTypes DEF IssueTokens, TypeOK
<1>6. ASSUME NEW r \in Reqs, LookupFails(r) \/ IssueFails(r) \/ ReadFails(r) \/ Finish(r)
      PROVE  TypeOK'
    <2>1. Forget(r) /\ UNCHANGED <<role, scope, state, holder, next, commands, parent, contested, out>>
        BY <1>6 DEF LookupFails, IssueFails, ReadFails, Finish
    <2> QED BY <2>1, ForgetTypes DEF TypeOK
<1>7. ASSUME NEW r \in Reqs, StartRead(r), Remember PROVE TypeOK'
    <2>1. PICK t \in 1 .. next - 1 : who' = [who EXCEPT ![r] = holder[t]]
        BY <1>7 DEF StartRead
    <2>2. holder[t] \in Users
        BY <2>1, GivenOut
    <2>3. kind' \in [Reqs -> Kinds]
        BY <1>7 DEF StartRead, TypeOK
    <2>4. /\ pc' \in [Reqs -> Steps] /\ pc'[r] \in {"user", "role"}
          /\ \A q \in Reqs : q = r \/ pc'[q] = pc[q]
        BY <1>7 DEF StartRead, Goto, TypeOK, Steps
    <2>5. ever' \in [Reqs -> SUBSET (Cameras \cup {Settings})]
        BY <1>7, RememberTypes
    <2>6. /\ who' \in [Reqs -> Users \cup {None}] /\ who'[r] \in Users
          /\ \A q \in Reqs : q = r \/ who'[q] = who[q]
        BY <2>1, <2>2 DEF TypeOK
    <2>7. UNCHANGED <<role, scope, state, holder, next, given, shown, commands,
                      parent, contested, out>>
        BY <1>7 DEF StartRead
    <2> QED BY <2>3, <2>4, <2>5, <2>6, <2>7 DEF TypeOK
<1>8. ASSUME NEW r \in Reqs, ReadRole(r), Remember PROVE TypeOK'
    <2>1. kind[r] \in Kinds \ {"settings"} /\ pc[r] = "role" /\ who[r] \in Users
        BY <1>8 DEF ReadRole, TypeOK
    <2>2. All(kind[r]) \subseteq Cameras /\ Unknown(kind[r]) \subseteq Cameras
        BY <2>1, ShownCameras
    <2>3. pc' \in [Reqs -> Steps] /\ shown' \in [Reqs -> SUBSET (Cameras \cup {Settings})]
        BY <1>8, <2>2, AnswerTypes DEF ReadRole, Goto, TypeOK, Steps
    <2>4. \A q \in Reqs : q = r \/ pc'[q] = pc[q]
        BY <1>8 DEF ReadRole, Answer, Goto, TypeOK
    <2>5. pc'[r] \in {"cameras", "answered"}
        BY <1>8 DEF ReadRole, Answer, Goto, TypeOK
    <2> QED BY <1>8, <2>1, <2>3, <2>4, <2>5, RememberTypes DEF ReadRole, TypeOK
<1>9. ASSUME NEW r \in Reqs, ReadCameras(r) \/ CheckAdmin(r), Remember PROVE TypeOK'
    <2>1. PICK what : Answer(r, what) /\ pc[r] \in {"role", "cameras"}
        BY <1>9 DEF ReadCameras, CheckAdmin
    <2>2. /\ UNCHANGED <<role, scope, state, holder, next, kind, who, given,
                         commands, parent, contested, out>>
        BY <1>9 DEF ReadCameras, CheckAdmin
    <2>3. shown' \in [Reqs -> SUBSET (Cameras \cup {Settings})]
        <3>1. CASE ReadCameras(r)
            <4> DEFINE cams == scope[who[r]]
            <4>1. cams \in SUBSET Cameras
                BY <3>1 DEF ReadCameras, TypeOK
            <4>2. All(kind[r]) \subseteq Cameras /\ Limited(kind[r], cams) \subseteq Cameras
                <5> HIDE DEF cams
                <5> QED BY <4>1, ShownCameras
            <4> QED BY <3>1, <4>2, AnswerTypes DEF ReadCameras
        <3>2. CASE CheckAdmin(r)
            BY <3>2, AnswerTypes DEF CheckAdmin
        <3> QED BY <1>9, <3>1, <3>2
    <2>4. /\ pc' \in [Reqs -> Steps] /\ pc'[r] = "answered"
          /\ \A q \in Reqs : q = r \/ pc'[q] = pc[q]
        BY <2>1 DEF Answer, Goto, TypeOK, Steps
    <2>5. who[r] \in Users
        BY <2>1 DEF TypeOK
    <2>6. ever' \in [Reqs -> SUBSET (Cameras \cup {Settings})]
        BY <1>9, RememberTypes
    <2> QED BY <2>2, <2>3, <2>4, <2>5, <2>6 DEF TypeOK
<1>10. ASSUME NEW u \in Users, SignIn(u) PROVE TypeOK'
    BY <1>10, IssueTypes DEF SignIn, TypeOK
<1>11. ASSUME NEW t \in Tokens, Expire(t) PROVE TypeOK'
    BY <1>11 DEF Expire, TypeOK, States
<1>12. ASSUME Command, Remember PROVE TypeOK'
    BY <1>12, CommandTypes, RememberTypes DEF TypeOK
<1>13. ASSUME NEW r \in Reqs, GetUser(r), Remember PROVE TypeOK'
    <2>1. pc[r] = "user" /\ who[r] \in Users
        BY <1>13 DEF GetUser, TypeOK
    <2>2. /\ pc' \in [Reqs -> Steps] /\ shown' \in [Reqs -> SUBSET (Cameras \cup {Settings})]
          /\ pc'[r] \in {"role", "answered"}
          /\ \A q \in Reqs : q = r \/ pc'[q] = pc[q]
        BY <1>13 DEF GetUser, Answer, Goto, TypeOK, Steps
    <2> QED BY <1>13, <2>1, <2>2, RememberTypes DEF GetUser, TypeOK
<1>14. ASSUME NEW r \in Reqs, HLSResource(r) PROVE TypeOK'
    <2>1. pc[r] = "answered" /\ who[r] \in Users
        BY <1>14 DEF HLSResource, TypeOK
    <2>2. Rights(who[r]) \subseteq Cameras \cup {Settings}
        BY DEF Rights
    <2>3. ever' \in [Reqs -> SUBSET (Cameras \cup {Settings})]
        BY <1>14, <2>2 DEF HLSResource, TypeOK
    <2> QED BY <1>14, <2>1, <2>3 DEF HLSResource, Goto, TypeOK, Steps
<1> QED BY <1>1, <1>2, <1>3, <1>4, <1>5, <1>6, <1>7, <1>8, <1>9, <1>10, <1>11, <1>12,
           <1>13, <1>14
        DEF Next, Request, Refreshing

-----------------------------------------------------------------------------
(* What no step takes back.                                                *)

Forward ==
    /\ \A t \in 1 .. next - 1 :
         t \in 1 .. next' - 1 /\ holder'[t] = holder[t] /\ (state'[t] = "live" => state[t] = "live")
    /\ Accounts' \subseteq Accounts
    /\ contested \subseteq contested'
    /\ \A q \in Reqs : pc'[q] \in {"revoke", "issue"} =>
         \/ Lookup(q)
         \/ pc[q] \in {"revoke", "issue"} /\ given'[q] = given[q] /\ who'[q] = who[q]
    /\ \A q \in Reqs : pc'[q] = "issue" => pc[q] = "issue" \/ Revoke(q) \/ RevokeFails(q)
    /\ \A t \in Tokens : parent'[t] # None =>
         \/ parent'[t] = parent[t]
         \/ \E r \in Reqs : IssueTokens(r) /\ t = next
    /\ \A t \in Tokens : state'[t] = "live" =>
         \/ state[t] = "live"
         \/ t = next /\ holder'[t] \notin out'
         \/ \E r \in Reqs : IssueTokens(r) /\ t = next
    /\ \A u \in out' : u \in out \/
         /\ LiveOf(u)' = {}
         /\ u \notin Accounts' \/ \A t \in Tokens : holder[t] = u => Holding(t) = {}

LEMMA IssueForward ==
    ASSUME TypeOK, NEW u \in Users, NEW t \in Tokens \cup {None}, Issue(u, t)
    PROVE  /\ \A x \in 1 .. next - 1 :
                x \in 1 .. next' - 1 /\ holder'[x] = holder[x] /\ state'[x] = state[x]
           /\ next \in Tokens /\ state'[next] = "live" /\ holder'[next] = u /\ parent'[next] = t
           /\ \A x \in Tokens : x # next =>
                parent'[x] = parent[x] /\ state'[x] = state[x] /\ holder'[x] = holder[x]
           /\ u \in Accounts
BY SessionsAssumption DEF Issue, TypeOK, Tokens

LEMMA ForgetForward ==
    ASSUME TypeOK, NEW r \in Reqs, Forget(r)
    PROVE  \A q \in Reqs : pc'[q] # "idle" =>
             q # r /\ pc'[q] = pc[q] /\ given'[q] = given[q] /\ who'[q] = who[q]
BY DEF Forget, Goto, TypeOK

LEMMA CommandForward ==
    ASSUME TypeOK, Command
    PROVE  Forward
<1> USE DEF accounts, tokens, request, history
<1>1. UNCHANGED <<holder, next, pc, given, who, parent, contested>>
    BY CommandTypes
<1>2. PICK u \in Users :
        \/ \E x \in Roles : SetUserRole(u, x)
        \/ \E cams \in Scopes : SetUserCameras(u, cams)
        \/ RevokeAllRefreshTokens(u)
        \/ DeleteUser(u)
    BY DEF Command
<1>3. Accounts' \subseteq Accounts
    BY <1>2, NoneIsApart
    DEF SetUserRole, SetUserCameras, RevokeAllRefreshTokens, DeleteUser, Accounts, TypeOK
<1>4. \A t \in Tokens : state'[t] = "live" => state[t] = "live"
    BY <1>2 DEF SetUserRole, SetUserCameras, RevokeAllRefreshTokens, DeleteUser, TypeOK
<1>5. \A v \in out' : v \in out \/
        /\ LiveOf(v)' = {}
        /\ v \notin Accounts' \/ \A t \in Tokens : holder[t] = v => Holding(t) = {}
    <2>1. CASE (\E x \in Roles : SetUserRole(u, x)) \/ (\E cams \in Scopes : SetUserCameras(u, cams))
        BY <2>1 DEF SetUserRole, SetUserCameras
    <2>2. CASE RevokeAllRefreshTokens(u)
        <3>1. LiveOf(u)' = {}
            BY <2>2, <1>1 DEF RevokeAllRefreshTokens, LiveOf, TypeOK
        <3> QED BY <2>2, <3>1 DEF RevokeAllRefreshTokens
    <2>3. CASE DeleteUser(u)
        <3>1. LiveOf(u)' = {}
            BY <2>3, <1>1 DEF DeleteUser, LiveOf, TypeOK
        <3>2. u \notin Accounts'
            BY <2>3 DEF DeleteUser, Accounts, TypeOK
        <3> QED BY <2>3, <3>1, <3>2 DEF DeleteUser
    <2> QED BY <1>2, <2>1, <2>2, <2>3
<1>6. \A t \in 1 .. next - 1 : t \in Tokens
    BY GivenOut
<1> QED BY <1>1, <1>3, <1>4, <1>5, <1>6 DEF Forward

LEMMA StepForward == TypeOK /\ Next => Forward
<1> SUFFICES ASSUME TypeOK, Next PROVE Forward
    OBVIOUS
<1> USE DEF accounts, tokens, request, history
<1>0. \A t \in 1 .. next - 1 : t \in Tokens
    BY GivenOut
<1>1. ASSUME NEW r \in Reqs, StartRefresh(r) PROVE Forward
    BY <1>0, <1>1 DEF StartRefresh, Goto, TypeOK, Forward, Accounts
<1>2. ASSUME NEW r \in Reqs, Lookup(r) PROVE Forward
    BY <1>0, <1>2 DEF Lookup, Goto, TypeOK, Forward, Accounts
<1>3. ASSUME NEW r \in Reqs, Revoke(r) PROVE Forward
    <2>1. \A t \in Tokens : state'[t] = "live" => state[t] = "live"
        BY <1>3 DEF Revoke, TypeOK
    <2>2. \A q \in Reqs : q = r \/ pc'[q] = pc[q]
        BY <1>3 DEF Revoke, Goto, TypeOK
    <2>3. pc[r] = "revoke" /\ UNCHANGED <<role, scope, holder, next, request, commands, history>>
        BY <1>3 DEF Revoke
    <2> QED BY <1>0, <1>3, <2>1, <2>2, <2>3 DEF Forward, Accounts
<1>4. ASSUME NEW r \in Reqs, RevokeFails(r) PROVE Forward
    BY <1>0, <1>4 DEF RevokeFails, Goto, TypeOK, Forward, Accounts
<1>5. ASSUME NEW r \in Reqs, IssueTokens(r) PROVE Forward
    <2>1. given[r] \in Tokens /\ who[r] \in Users
        BY <1>5, Held DEF IssueTokens, TypeOK
    <2>2. Issue(who[r], given[r]) /\ Forget(r) /\ UNCHANGED <<accounts, contested, out>>
        BY <1>5 DEF IssueTokens
    <2>3. /\ \A x \in 1 .. next - 1 :
               x \in 1 .. next' - 1 /\ holder'[x] = holder[x] /\ state'[x] = state[x]
          /\ \A x \in Tokens : x # next => parent'[x] = parent[x] /\ state'[x] = state[x]
        BY <2>1, <2>2, IssueForward
    <2>4. \A q \in Reqs : pc'[q] # "idle" =>
            q # r /\ pc'[q] = pc[q] /\ given'[q] = given[q] /\ who'[q] = who[q]
        BY <2>2, ForgetForward
    <2> QED BY <1>5, <2>2, <2>3, <2>4 DEF Forward, Accounts
<1>6. ASSUME NEW r \in Reqs, LookupFails(r) \/ IssueFails(r) \/ ReadFails(r) \/ Finish(r)
      PROVE  Forward
    <2>1. Forget(r) /\ UNCHANGED <<role, scope, state, holder, next, parent, contested, out>>
        BY <1>6 DEF LookupFails, IssueFails, ReadFails, Finish
    <2>2. \A q \in Reqs : pc'[q] # "idle" =>
            q # r /\ pc'[q] = pc[q] /\ given'[q] = given[q] /\ who'[q] = who[q]
        BY <2>1, ForgetForward
    <2> QED BY <1>0, <2>1, <2>2 DEF Forward, Accounts
<1>7. ASSUME NEW r \in Reqs, StartRead(r) PROVE Forward
    BY <1>0, <1>7 DEF StartRead, Goto, TypeOK, Forward, Accounts
<1>8. ASSUME NEW r \in Reqs,
             \/ GetUser(r) \/ ReadRole(r) \/ ReadCameras(r) \/ CheckAdmin(r)
             \/ HLSResource(r)
      PROVE  Forward
    <2>1. \A q \in Reqs : q = r \/ pc'[q] = pc[q]
        BY <1>8 DEF GetUser, ReadRole, ReadCameras, CheckAdmin, HLSResource, Answer, Goto, TypeOK
    <2>2. pc'[r] \in {"role", "cameras", "answered"}
        BY <1>8 DEF GetUser, ReadRole, ReadCameras, CheckAdmin, HLSResource, Answer, Goto, TypeOK
    <2>3. UNCHANGED <<role, scope, state, holder, next, who, given, parent, contested, out>>
        BY <1>8 DEF GetUser, ReadRole, ReadCameras, CheckAdmin, HLSResource
    <2> QED BY <1>0, <2>1, <2>2, <2>3 DEF Forward, Accounts
<1>9. ASSUME NEW u \in Users, SignIn(u) PROVE Forward
    <2>1. Issue(u, None) /\ out' = out \ {u} /\ UNCHANGED <<accounts, pc, request, contested>>
        BY <1>9 DEF SignIn
    <2>2. /\ \A x \in 1 .. next - 1 :
               x \in 1 .. next' - 1 /\ holder'[x] = holder[x] /\ state'[x] = state[x]
          /\ \A x \in Tokens : x # next => parent'[x] = parent[x] /\ state'[x] = state[x]
          /\ holder'[next] = u /\ parent'[next] = None
        BY <2>1, IssueForward
    <2> QED BY <2>1, <2>2 DEF Forward, Accounts
<1>10. ASSUME NEW t \in Tokens, Expire(t) PROVE Forward
    BY <1>0, <1>10 DEF Expire, TypeOK, Forward, Accounts
<1> QED BY <1>1, <1>2, <1>3, <1>4, <1>5, <1>6, <1>7, <1>8, <1>9, <1>10, CommandForward
        DEF Next, Request, Refreshing

-----------------------------------------------------------------------------
(* Revocation.                                                             *)

LEMMA RefreshersNext ==
    ASSUME TypeOK, Forward, Refreshers, RevokedStaysOut
    PROVE  Refreshers'
<1> SUFFICES ASSUME NEW q \in Reqs, pc'[q] \in {"revoke", "issue"}
             PROVE  /\ who'[q] = holder'[given'[q]]
                    /\ who'[q] \in Accounts' => who'[q] \notin out'
    BY DEF Refreshers
<1>1. CASE Lookup(q)
    <2>1. /\ who'[q] = holder[given[q]] /\ given' = given /\ holder' = holder
          /\ out' = out /\ state[given[q]] = "live"
        BY <1>1 DEF Lookup, Good, TypeOK, tokens
    <2>2. given[q] \in Tokens /\ holder[given[q]] \in Users
        BY <1>1, Held DEF Lookup
    <2>3. given[q] \in LiveOf(holder[given[q]])
        BY <2>1, <2>2 DEF LiveOf
    <2> QED BY <2>1, <2>3 DEF RevokedStaysOut
<1>2. CASE pc[q] \in {"revoke", "issue"} /\ given'[q] = given[q] /\ who'[q] = who[q]
    <2>1. who[q] = holder[given[q]] /\ (who[q] \in Accounts => who[q] \notin out)
        BY <1>2 DEF Refreshers
    <2>2. given[q] \in 1 .. next - 1 /\ given[q] \in Tokens
        BY <1>2, Held
    <2>3. holder'[given[q]] = holder[given[q]] /\ Accounts' \subseteq Accounts
        BY <2>2 DEF Forward
    <2>4. q \in Holding(given[q])
        BY <1>2 DEF Holding
    <2>5. who[q] \in Accounts' /\ who[q] \in out' => who[q] \in out
        BY <2>1, <2>2, <2>4 DEF Forward
    <2> QED BY <1>2, <2>1, <2>3, <2>5
<1> QED BY <1>1, <1>2 DEF Forward

\* RevokedStaysOut is kept: whoever is thrown out in this step has no live
\* token, and a refresh does not issue one to those who were before.
LEMMA RevokedNext ==
    ASSUME TypeOK, TypeOK', Forward, Refreshers, RevokedStaysOut
    PROVE  RevokedStaysOut'
<1> SUFFICES ASSUME NEW u \in out', NEW t \in Tokens, holder'[t] = u, state'[t] = "live"
             PROVE  FALSE
    BY DEF RevokedStaysOut, LiveOf
<1>1. u \in out
    BY DEF Forward, LiveOf
<1>2. CASE state[t] = "live"
    <2>1. t \in 1 .. next - 1
        BY <1>2, SessionsAssumption DEF TypeOK, Tokens
    <2>2. holder[t] = u
        BY <2>1 DEF Forward
    <2> QED BY <1>1, <1>2, <2>2 DEF RevokedStaysOut, LiveOf
<1>3. CASE \E r \in Reqs : IssueTokens(r) /\ t = next
    <2>1. PICK r \in Reqs : IssueTokens(r) /\ t = next
        BY <1>3
    <2>2. who[r] \in Users /\ given[r] \in Tokens
        BY <2>1, Held DEF IssueTokens, TypeOK
    <2>3. holder'[next] = who[r] /\ who[r] \in Accounts
        BY <2>1, <2>2, IssueForward DEF IssueTokens
    <2>4. who[r] \notin out
        BY <2>1, <2>3 DEF Refreshers, IssueTokens
    <2> QED BY <1>1, <2>1, <2>3, <2>4
<1> QED BY <1>2, <1>3 DEF Forward

-----------------------------------------------------------------------------
(* The exchange of tokens.                                                 *)

\* A request that holds t after a step held it before or has just looked it up.
LEMMA StillHolding ==
    ASSUME TypeOK, Forward, NEW t \in Tokens, NEW q \in Reqs, q \in Holding(t)'
    PROVE  q \in Holding(t) \/ (Lookup(q) /\ given[q] = t)
BY DEF Forward, Holding, Lookup

\* A token that has an heir and is not contested stays out of reach.
LEMMA HeirsNext ==
    ASSUME TypeOK, Forward, Exchanges, NEW p \in 1 .. next - 1, p \notin contested,
           state[p] # "live", Holding(p) = {}
    PROVE  state'[p] # "live" /\ Holding(p)' = {}
<1>1. state'[p] # "live"
    BY DEF Forward
<1>2. ASSUME NEW q \in Holding(p)' PROVE FALSE
    <2>1. q \in Reqs /\ p \in Tokens
        BY <1>2, GivenOut DEF Holding
    <2>2. Lookup(q) /\ given[q] = p
        BY <1>2, <2>1, StillHolding
    <2> QED BY <2>2 DEF Lookup, Good
<1> QED BY <1>1, <1>2

LEMMA ExchangesNext ==
    ASSUME TypeOK, TypeOK', Forward, Exchanges
    PROVE  Exchanges'
<1>1. ASSUME NEW x \in Tokens, NEW p, p = parent'[x], p # None
      PROVE  /\ p \in 1 .. next' - 1
             /\ p \notin contested' => state'[p] # "live" /\ Holding(p)' = {}
    <2>1. CASE p = parent[x]
        <3>1. p \in 1 .. next - 1
            BY <1>1, <2>1 DEF Exchanges
        <3>2. ASSUME p \notin contested'
              PROVE  state'[p] # "live" /\ Holding(p)' = {}
            <4>1. p \notin contested
                BY <3>2 DEF Forward
            <4>2. state[p] # "live" /\ Holding(p) = {}
                BY <1>1, <2>1, <4>1 DEF Exchanges
            <4> QED BY <3>1, <4>1, <4>2, HeirsNext
        <3> QED BY <3>1, <3>2 DEF Forward
    <2>2. ASSUME NEW r \in Reqs, IssueTokens(r), x = next
          PROVE  /\ p \in 1 .. next' - 1
                 /\ p \notin contested' => state'[p] # "live" /\ Holding(p)' = {}
        <3>1. /\ given[r] \in 1 .. next - 1 /\ given[r] \in Tokens /\ who[r] \in Users
              /\ r \in Holding(given[r]) /\ pc[r] = "issue"
            BY <2>2, Held DEF IssueTokens, TypeOK, Holding
        <3>2. p = given[r]
            BY <1>1, <2>2, <3>1, IssueForward DEF IssueTokens
        <3>3. \A q \in Reqs : pc'[q] # "idle" =>
                q # r /\ pc'[q] = pc[q] /\ given'[q] = given[q] /\ who'[q] = who[q]
            BY <2>2, ForgetForward DEF IssueTokens
        <3>4. ASSUME p \notin contested'
              PROVE  state'[p] # "live" /\ Holding(p)' = {}
            <4>1. p \notin contested /\ p \in Tokens /\ r \in Holding(p)
                BY <3>1, <3>2, <3>4 DEF Forward
            <4>2. state[p] # "live"
                BY <3>1, <3>2, <4>1 DEF Exchanges
            <4>3. \A q \in Holding(p) : q = r
                BY <4>1 DEF Exchanges
            <4>4. ASSUME NEW q \in Holding(p)' PROVE FALSE
                <5>1. q \in Reqs /\ q # r /\ q \in Holding(p)
                    BY <3>3, <4>4 DEF Holding
                <5> QED BY <4>3, <5>1
            <4>5. state'[p] # "live"
                BY <3>1, <3>2, <4>2 DEF Forward
            <4> QED BY <4>4, <4>5
        <3> QED BY <3>1, <3>2, <3>4 DEF Forward
    <2> QED BY <1>1, <2>1, <2>2 DEF Forward
<1>2. ASSUME NEW r \in Reqs, pc'[r] = "issue", given'[r] \notin contested'
      PROVE  state'[given'[r]] # "live"
    <2>1. CASE pc[r] = "issue"
        <3>1. given'[r] = given[r] /\ given[r] \in 1 .. next - 1
            BY <1>2, <2>1, Held DEF Forward, Lookup
        <3>2. given[r] \notin contested
            BY <1>2, <3>1 DEF Forward
        <3> QED BY <2>1, <3>1, <3>2 DEF Exchanges, Forward
    <2>2. CASE Revoke(r)
        <3>1. given[r] \in Tokens /\ given' = given
            BY <2>2, Held DEF Revoke, request
        <3> QED BY <2>2, <3>1 DEF Revoke, Retired
    <2>3. CASE RevokeFails(r)
        BY <1>2, <2>3 DEF RevokeFails, request
    <2> QED BY <1>2, <2>1, <2>2, <2>3 DEF Forward
<1>3. ASSUME NEW t \in Tokens, NEW r \in Holding(t)', NEW q \in Holding(t)', r # q
      PROVE  t \in contested'
    <2>1. r \in Reqs /\ q \in Reqs
        BY <1>3 DEF Holding
    <2>2. r \in Holding(t) \/ (Lookup(r) /\ given[r] = t)
        BY <1>3, <2>1, StillHolding
    <2>3. q \in Holding(t) \/ (Lookup(q) /\ given[q] = t)
        BY <1>3, <2>1, StillHolding
    <2>4. CASE r \in Holding(t) /\ q \in Holding(t)
        BY <1>3, <2>4 DEF Exchanges, Forward
    <2>5. CASE (Lookup(r) /\ given[r] = t /\ q \in Holding(t)) \/ (Lookup(q) /\ given[q] = t /\ r \in Holding(t))
        BY <2>5 DEF Lookup
    <2>6. CASE Lookup(r) /\ given[r] = t /\ Lookup(q) /\ given[q] = t
        BY <1>3, <2>1, <2>6 DEF Lookup, Goto, TypeOK
    <2> QED BY <2>2, <2>3, <2>4, <2>5, <2>6
<1> QED BY <1>1, <1>2, <1>3 DEF Exchanges, Holding

\* ExchangedOnce is kept: a request that holds a token not contested is alone
\* with it, and there is no heir yet.
LEMMA ExchangedNext ==
    ASSUME TypeOK, Forward, Exchanges, ExchangedOnce
    PROVE  ExchangedOnce'
<1> SUFFICES ASSUME NEW x \in Tokens, NEW y \in Tokens, parent'[x] # None,
                    parent'[x] = parent'[y], x # y, parent'[x] \notin contested'
             PROVE  FALSE
    BY DEF ExchangedOnce
<1>1. parent'[x] \notin contested
    BY DEF Forward
<1>2. ASSUME NEW a \in Tokens, NEW b \in Tokens, NEW r \in Reqs, IssueTokens(r), a = next,
             parent'[b] = parent[b], parent'[b] # None, parent'[a] = parent'[b],
             parent'[b] \notin contested
      PROVE  FALSE
    <2>1. given[r] \in Tokens /\ who[r] \in Users /\ r \in Holding(given[r])
        BY <1>2, Held DEF IssueTokens, TypeOK, Holding
    <2>2. parent'[a] = given[r]
        BY <1>2, <2>1, IssueForward DEF IssueTokens
    <2>3. Holding(parent[b]) = {}
        BY <1>2 DEF Exchanges
    <2> QED BY <1>2, <2>1, <2>2, <2>3
<1>3. CASE parent'[x] = parent[x] /\ parent'[y] = parent[y]
    BY <1>1, <1>3 DEF ExchangedOnce
<1>4. CASE \E r \in Reqs : IssueTokens(r) /\ x = next
    <2>1. parent'[y] = parent[y]
        BY <1>4 DEF Forward
    <2> QED BY <1>1, <1>2, <1>4, <2>1
<1>5. CASE \E r \in Reqs : IssueTokens(r) /\ y = next
    <2>1. parent'[x] = parent[x]
        BY <1>5 DEF Forward
    <2> QED BY <1>1, <1>2, <1>5, <2>1
<1> QED BY <1>3, <1>4, <1>5 DEF Forward

-----------------------------------------------------------------------------
(* What people are shown.                                                  *)

\* A member has a right to its scope, an admin to every camera.
LEMMA RightsOf ==
    ASSUME TypeOK, NEW u \in Users
    PROVE  /\ role[u] = "admin" => Cameras \subseteq Rights(u) /\ Settings \in Rights(u)
           /\ role[u] = "member" => scope[u] \subseteq Rights(u)
           /\ role[u] = "member" /\ scope[u] = {} => Cameras \subseteq Rights(u)
           /\ role[u] = "member" => Rights(u) # {} \/ Cameras = {}
BY SessionsAssumption DEF TypeOK, Rights, Right

\* A step that forgets a request and touches no account.
LEMMA ForgetReads ==
    ASSUME TypeOK, Readers, ShownWasEntitled, NEW r \in Reqs, Forget(r),
           UNCHANGED <<role, scope>>
    PROVE  Readers' /\ ShownWasEntitled'
<1>1. \A q \in Reqs : q # r =>
        /\ pc'[q] = pc[q] /\ kind'[q] = kind[q] /\ who'[q] = who[q]
        /\ shown'[q] = shown[q] /\ ever'[q] = ever[q]
    BY DEF Forget, Goto, TypeOK
<1>2. pc'[r] = "idle" /\ shown'[r] = {}
    BY DEF Forget, Goto, TypeOK
<1>3. \A u : Rights(u)' = Rights(u)
    BY DEF Rights, Right
<1>4. Readers'
    BY <1>1, <1>2, <1>3 DEF Readers, Reading
<1>5. ShownWasEntitled'
    BY <1>1, <1>2 DEF ShownWasEntitled, Accounts
<1> QED BY <1>4, <1>5

\* A step of a refresh that goes on, or one that moves no request.
LEMMA OtherReads ==
    ASSUME TypeOK, Readers, ShownWasEntitled,
           UNCHANGED <<role, scope, kind, shown, ever>>,
           \A q \in Reqs :
             \/ pc'[q] = pc[q] /\ who'[q] = who[q]
             \/ pc[q] # "answered" /\ pc'[q] \in {"lookup", "revoke", "issue"}
    PROVE  Readers' /\ ShownWasEntitled'
<1>1. \A u : Rights(u)' = Rights(u)
    BY DEF Rights, Right
<1>2. Readers'
    BY <1>1 DEF Readers, Reading
<1>3. ASSUME NEW q \in Reqs
      PROVE  shown'[q] \subseteq ever'[q]
             \/ (who'[q] \notin Accounts' /\ (ever'[q] # {} \/ kind'[q] = "events"))
    <2>1. CASE pc'[q] = pc[q] /\ who'[q] = who[q]
        BY <2>1 DEF ShownWasEntitled, Accounts
    <2>2. CASE pc[q] # "answered"
        BY <2>2 DEF Readers
    <2> QED BY <2>1, <2>2
<1> QED BY <1>2, <1>3 DEF ShownWasEntitled

\* Remember only adds, and adds all that a reader is entitled to.
LEMMA Remembered ==
    ASSUME TypeOK, Remember, NEW q \in Reqs
    PROVE  /\ ever[q] \subseteq ever'[q]
           /\ Reading(q)' => Rights(who[q])' \subseteq ever'[q]
           /\ ~ Reading(q)' => ever'[q] = ever[q]
<1>1. ever'[q] = IF Reading(q)' THEN ever[q] \cup Rights(who[q])' ELSE ever[q]
    BY Zenon DEF Remember
<1> QED BY <1>1

LEMMA CommandReads ==
    ASSUME TypeOK, Forward, Readers, ShownWasEntitled, Command, Remember
    PROVE  Readers' /\ ShownWasEntitled'
<1>1. UNCHANGED <<pc, kind, who, shown>>
    BY CommandTypes DEF request
<1>2. Readers'
    BY <1>1, Remembered DEF Readers, Reading, TypeOK
<1>3. ASSUME NEW q \in Reqs
      PROVE  shown'[q] \subseteq ever'[q]
             \/ (who'[q] \notin Accounts' /\ (ever'[q] # {} \/ kind'[q] = "events"))
    BY <1>1, Remembered DEF ShownWasEntitled, Forward
<1> QED BY <1>2, <1>3 DEF ShownWasEntitled

\* A step of a read: the other requests are left alone, and the account's
\* tables too.
LEMMA ReadFrame ==
    ASSUME TypeOK, Readers, ShownWasEntitled, Remember, NEW r \in Reqs,
           UNCHANGED <<role, scope>>,
           \A q \in Reqs : q # r =>
             pc'[q] = pc[q] /\ kind'[q] = kind[q] /\ who'[q] = who[q] /\ shown'[q] = shown[q],
           pc'[r] # "answered" => shown'[r] = {},
           pc'[r] = "cameras" =>
             kind'[r] # "settings" /\ (ever'[r] # {} \/ Cameras = {}),
           \/ shown'[r] \subseteq ever'[r]
           \/ who'[r] \notin Accounts' /\ (ever'[r] # {} \/ kind'[r] = "events")
    PROVE  Readers' /\ ShownWasEntitled'
<1>1. Readers'
    <2> SUFFICES ASSUME NEW q \in Reqs
                 PROVE  /\ pc'[q] # "answered" => shown'[q] = {}
                        /\ Reading(q)' => Rights(who[q])' \subseteq ever'[q]
                        /\ pc'[q] = "cameras" =>
                             kind'[q] # "settings" /\ (ever'[q] # {} \/ Cameras = {})
        BY Zenon DEF Readers
    <2>1. Reading(q)' => Rights(who[q])' \subseteq ever'[q]
        BY Remembered
    <2>2. CASE q = r
        BY <2>1, <2>2
    <2>3. CASE q # r
        BY <2>1, <2>3, Remembered DEF Readers
    <2> QED BY <2>2, <2>3
<1>2. Accounts' = Accounts
    BY DEF Accounts
<1>3. ASSUME NEW q \in Reqs, q # r
      PROVE  shown'[q] \subseteq ever'[q]
             \/ (who'[q] \notin Accounts' /\ (ever'[q] # {} \/ kind'[q] = "events"))
    BY <1>2, <1>3, Remembered DEF ShownWasEntitled
<1> QED BY <1>1, <1>3 DEF ShownWasEntitled

LEMMA StartReadReads ==
    ASSUME TypeOK, Readers, ShownWasEntitled, NEW r \in Reqs, StartRead(r), Remember
    PROVE  Readers' /\ ShownWasEntitled'
<1>1. \A q \in Reqs : q # r =>
        pc'[q] = pc[q] /\ kind'[q] = kind[q] /\ who'[q] = who[q] /\ shown'[q] = shown[q]
    BY DEF StartRead, Goto, TypeOK
<1>2. pc'[r] \in {"user", "role"} /\ shown'[r] = {} /\ UNCHANGED <<role, scope>>
    BY DEF StartRead, Goto, TypeOK, Readers, accounts
<1> QED BY <1>1, <1>2, ReadFrame

\* GetMe answers for no account, or goes on.
LEMMA GetUserReads ==
    ASSUME TypeOK, Readers, ShownWasEntitled, NEW r \in Reqs, GetUser(r), Remember
    PROVE  Readers' /\ ShownWasEntitled'
<1>1. \A q \in Reqs : q # r =>
        pc'[q] = pc[q] /\ kind'[q] = kind[q] /\ who'[q] = who[q] /\ shown'[q] = shown[q]
    BY DEF GetUser, Answer, Goto, TypeOK
<1>2. pc'[r] \in {"role", "answered"} /\ shown'[r] = {} /\ UNCHANGED <<role, scope>>
    BY DEF GetUser, Answer, Goto, TypeOK, Readers, accounts
<1> QED BY <1>1, <1>2, ReadFrame

\* The next resource of a live view starts from what its user may see by then.
LEMMA HLSResourceReads ==
    ASSUME TypeOK, Readers, ShownWasEntitled, NEW r \in Reqs, HLSResource(r)
    PROVE  Readers' /\ ShownWasEntitled'
<1>1. \A q \in Reqs : q # r =>
        /\ pc'[q] = pc[q] /\ kind'[q] = kind[q] /\ who'[q] = who[q]
        /\ shown'[q] = shown[q] /\ ever'[q] = ever[q]
    BY DEF HLSResource, Goto, TypeOK
<1>2. /\ pc'[r] = "role" /\ shown'[r] = {} /\ who'[r] = who[r] /\ ever'[r] = Rights(who[r])
      /\ UNCHANGED <<role, scope>>
    BY DEF HLSResource, Goto, TypeOK, accounts
<1>3. \A u : Rights(u)' = Rights(u)
    BY <1>2 DEF Rights, Right
<1>4. Readers'
    BY <1>1, <1>2, <1>3 DEF Readers, Reading
<1>5. ShownWasEntitled'
    BY <1>1, <1>2 DEF ShownWasEntitled, Accounts
<1> QED BY <1>4, <1>5

\* An answer to a user that has a right to all of what it shows.
LEMMA ReadRoleReads ==
    ASSUME TypeOK, Readers, ShownWasEntitled, NEW r \in Reqs, ReadRole(r), Remember
    PROVE  Readers' /\ ShownWasEntitled'
<1> DEFINE u == who[r]
<1>1. /\ u \in Users /\ Rights(u) \subseteq ever[r] /\ kind[r] # "settings"
      /\ shown[r] = {}
    BY DEF ReadRole, TypeOK, Readers, Reading
<1>2. /\ \A q \in Reqs : q # r =>
           pc'[q] = pc[q] /\ kind'[q] = kind[q] /\ who'[q] = who[q] /\ shown'[q] = shown[q]
      /\ kind' = kind /\ who' = who /\ UNCHANGED <<role, scope>>
    BY DEF ReadRole, Answer, Goto, TypeOK, accounts
<1>3. ever[r] \subseteq ever'[r]
    BY Remembered
<1>4. /\ role[u] = "admin" => Cameras \subseteq Rights(u)
      /\ role[u] = "member" => Rights(u) # {} \/ Cameras = {}
    BY <1>1, RightsOf
<1>5. CASE role[u] = None /\ Answer(r, Unknown(kind[r]))
    <2>1. pc'[r] = "answered" /\ shown'[r] = Unknown(kind[r])
        BY <1>5 DEF Answer, Goto, TypeOK
    <2>2. u \notin Accounts'
        BY <1>2, <1>5 DEF Accounts
    <2>3. {} \in SUBSET Cameras
        OBVIOUS
    <2>4. kind[r] = "events" \/ Unknown(kind[r]) = {}
        BY <2>3, ShownCameras
    <2> QED BY <1>2, <2>1, <2>2, <2>4, ReadFrame
<1>6. CASE role[u] = "admin" /\ Answer(r, All(kind[r]))
    <2>1. pc'[r] = "answered" /\ shown'[r] = All(kind[r])
        BY <1>6 DEF Answer, Goto, TypeOK
    <2>2. All(kind[r]) \subseteq Cameras
        BY DEF All
    <2>3. shown'[r] \subseteq ever'[r]
        BY <1>1, <1>3, <1>4, <1>6, <2>1, <2>2
    <2> QED BY <1>2, <2>1, <2>3, ReadFrame
<1>7. CASE role[u] = "member" /\ Goto(r, "cameras") /\ UNCHANGED shown
    <2>1. pc'[r] = "cameras" /\ shown'[r] = {}
        BY <1>1, <1>7 DEF Goto, TypeOK
    <2>2. ever'[r] # {} \/ Cameras = {}
        BY <1>1, <1>3, <1>4, <1>7
    <2> QED BY <1>1, <1>2, <2>1, <2>2, ReadFrame
<1> QED BY <1>5, <1>6, <1>7 DEF ReadRole

\* The scope read is the account's, or the account is gone by now.
LEMMA ReadCamerasReads ==
    ASSUME TypeOK, Readers, ShownWasEntitled, NEW r \in Reqs, ReadCameras(r), Remember
    PROVE  Readers' /\ ShownWasEntitled'
<1> DEFINE u == who[r]
           cams == scope[u]
           what == IF cams = {} THEN All(kind[r]) ELSE Limited(kind[r], cams)
<1>1. /\ u \in Users /\ Rights(u) \subseteq ever[r]
      /\ ever[r] # {} \/ Cameras = {}
    BY DEF ReadCameras, TypeOK, Readers, Reading
<1>2. /\ \A q \in Reqs : q # r =>
           pc'[q] = pc[q] /\ kind'[q] = kind[q] /\ who'[q] = who[q] /\ shown'[q] = shown[q]
      /\ kind' = kind /\ who' = who /\ UNCHANGED <<role, scope>>
      /\ pc'[r] = "answered" /\ shown'[r] = what
    BY DEF ReadCameras, Answer, Goto, TypeOK, accounts
<1>3. ever[r] \subseteq ever'[r]
    BY Remembered
<1>4. cams \in SUBSET Cameras
    BY <1>1, SessionsAssumption DEF TypeOK
<1>5. what \subseteq Cameras /\ (cams # {} => what \subseteq cams)
    <2> HIDE DEF cams
    <2> QED BY <1>4, ShownCameras
<1>6. CASE role[u] = None
    <2>1. u \notin Accounts'
        BY <1>2, <1>6 DEF Accounts
    <2>2. shown'[r] \subseteq ever'[r] \/ ever'[r] # {}
        BY <1>1, <1>2, <1>3, <1>5
    <2> QED BY <1>2, <2>1, <2>2, ReadFrame
<1>7. CASE role[u] # None
    <2>1. role[u] \in Roles
        BY <1>1, <1>7 DEF TypeOK
    <2>2. what \subseteq Rights(u)
        BY <1>1, <1>4, <1>5, <2>1, RightsOf DEF Roles
    <2>3. shown'[r] \subseteq ever'[r]
        BY <1>1, <1>2, <1>3, <2>2
    <2> QED BY <1>2, <2>3, ReadFrame
<1> QED BY <1>6, <1>7

LEMMA CheckAdminReads ==
    ASSUME TypeOK, Readers, ShownWasEntitled, NEW r \in Reqs, CheckAdmin(r), Remember
    PROVE  Readers' /\ ShownWasEntitled'
<1>1. who[r] \in Users /\ Rights(who[r]) \subseteq ever[r]
    BY DEF CheckAdmin, TypeOK, Readers, Reading
<1>2. /\ \A q \in Reqs : q # r =>
           pc'[q] = pc[q] /\ kind'[q] = kind[q] /\ who'[q] = who[q] /\ shown'[q] = shown[q]
      /\ UNCHANGED <<role, scope>>
      /\ pc'[r] = "answered"
      /\ shown'[r] = IF role[who[r]] = "admin" THEN {Settings} ELSE {}
    BY DEF CheckAdmin, Answer, Goto, TypeOK, accounts
<1>3. ever[r] \subseteq ever'[r]
    BY Remembered
<1>4. shown'[r] \subseteq ever'[r]
    BY <1>1, <1>2, <1>3, RightsOf
<1> QED BY <1>2, <1>4, ReadFrame

LEMMA ReadsNext ==
    ASSUME TypeOK, Forward, Readers, ShownWasEntitled, Next
    PROVE  Readers' /\ ShownWasEntitled'
<1> USE DEF accounts, tokens, request, history
<1>1. ASSUME NEW r \in Reqs, StartRefresh(r) \/ Lookup(r) \/ Revoke(r) \/ RevokeFails(r)
      PROVE  Readers' /\ ShownWasEntitled'
    <2>1. UNCHANGED <<role, scope, kind, shown, ever>>
        BY <1>1 DEF StartRefresh, Lookup, Revoke, RevokeFails
    <2>2. \A q \in Reqs :
            \/ pc'[q] = pc[q] /\ who'[q] = who[q]
            \/ pc[q] # "answered" /\ pc'[q] \in {"lookup", "revoke", "issue"}
        BY <1>1 DEF StartRefresh, Lookup, Revoke, RevokeFails, Goto, TypeOK
    <2> QED BY <2>1, <2>2, OtherReads
<1>2. ASSUME NEW r \in Reqs,
             LookupFails(r) \/ IssueTokens(r) \/ IssueFails(r) \/ ReadFails(r) \/ Finish(r)
      PROVE  Readers' /\ ShownWasEntitled'
    BY <1>2, ForgetReads DEF LookupFails, IssueTokens, IssueFails, ReadFails, Finish
<1>3. ASSUME NEW u \in Users, SignIn(u) PROVE Readers' /\ ShownWasEntitled'
    BY <1>3, OtherReads DEF SignIn
<1>4. ASSUME NEW t \in Tokens, Expire(t) PROVE Readers' /\ ShownWasEntitled'
    BY <1>4, OtherReads DEF Expire
<1> QED BY <1>1, <1>2, <1>3, <1>4, StartReadReads, GetUserReads, ReadRoleReads,
           ReadCamerasReads, CheckAdminReads, HLSResourceReads, CommandReads
        DEF Next, Request, Refreshing

-----------------------------------------------------------------------------
(* The theorems.                                                           *)

LEMMA InitIInv == Init => IInv
<1> SUFFICES ASSUME Init PROVE IInv
    OBVIOUS
<1>1. TypeOK
    BY TypeInit
<1>2. Refreshers /\ Readers /\ ShownWasEntitled
    BY DEF Init, Refreshers, Readers, Reading, ShownWasEntitled
<1>3. Exchanges /\ ExchangedOnce /\ RevokedStaysOut
    BY DEF Init, Exchanges, ExchangedOnce, RevokedStaysOut, Holding
<1> QED BY <1>1, <1>2, <1>3 DEF IInv

LEMMA StutterIInv == IInv /\ UNCHANGED vars => IInv'
BY DEF IInv, vars, accounts, tokens, request, history, TypeOK, Refreshers, Readers,
       Exchanges, RevokedStaysOut, ShownWasEntitled, ExchangedOnce, Holding, LiveOf,
       Accounts, Reading, Rights, Right

LEMMA NextIInv == IInv /\ [Next]_vars => IInv'
<1> SUFFICES ASSUME IInv, Next PROVE IInv'
    BY StutterIInv
<1>1. TypeOK'
    BY TypeNext DEF IInv
<1>2. Forward
    BY StepForward DEF IInv
<1> QED BY <1>1, <1>2, RefreshersNext, RevokedNext, ExchangesNext, ExchangedNext, ReadsNext
        DEF IInv

\* The inductive invariant: what requests hold and may still do.
THEOREM Invariance == Spec => []IInv
BY InitIInv, NextIInv, PTL DEF Spec

\* The tables and the requests keep their types.
THEOREM TypeCorrect == Spec => []TypeOK
<1>1. IInv => TypeOK
    BY DEF IInv
<1> QED BY <1>1, Invariance, PTL

\* ListEvents, ListCameras, cameraAccessible and AdminOnly show a user with an
\* account only what it was entitled to during the request.
THEOREM AnswersAreEntitled == Spec => []ShownWasEntitled
<1>1. IInv => ShownWasEntitled
    BY DEF IInv
<1> QED BY <1>1, Invariance, PTL

\* Whoever `beacon-admin` throws out has no token to refresh with.
THEOREM OutStaysOut == Spec => []RevokedStaysOut
<1>1. IInv => RevokedStaysOut
    BY DEF IInv
<1> QED BY <1>1, Invariance, PTL

\* Refresh exchanges a token once, races and failed revocations apart.
THEOREM OneHeir == Spec => []ExchangedOnce
<1>1. IInv => ExchangedOnce
    BY DEF IInv
<1> QED BY <1>1, Invariance, PTL

-----------------------------------------------------------------------------
(* Other devices.                                                          *)

\* A live token is revoked by the request that holds it, or with all others of
\* its person.
LEMMA RevokedByHolder ==
    ASSUME TypeOK, Next, NEW t \in Tokens, state[t] = "live", state'[t] = "revoked"
    PROVE  Holding(t) # {} \/ (pc' = pc /\ LiveOf(holder[t])' = {})
<1> USE DEF accounts, tokens, request, history
<1>1. ASSUME NEW r \in Reqs, Revoke(r) PROVE Holding(t) # {}
    <2>1. t = given[r] /\ pc[r] = "revoke"
        BY <1>1 DEF Revoke, Retired
    <2> QED BY <2>1 DEF Holding
<1>2. ASSUME NEW r \in Reqs, IssueTokens(r) PROVE FALSE
    <2>1. given[r] \in Tokens /\ who[r] \in Users
        BY <1>2, Held DEF IssueTokens, TypeOK
    <2>2. \A x \in Tokens : state'[x] = state[x] \/ state'[x] = "live"
        BY <1>2, <2>1, IssueForward DEF IssueTokens
    <2> QED BY <2>2
<1>3. ASSUME NEW u \in Users, SignIn(u) PROVE FALSE
    <2>1. \A x \in Tokens : state'[x] = state[x] \/ state'[x] = "live"
        BY <1>3, IssueForward DEF SignIn
    <2> QED BY <2>1
<1>4. ASSUME NEW x \in Tokens, Expire(x) PROVE FALSE
    BY <1>4 DEF Expire, TypeOK
<1>5. ASSUME Command PROVE pc' = pc /\ LiveOf(holder[t])' = {}
    <2>1. UNCHANGED <<pc, holder>>
        BY <1>5, CommandTypes
    <2>2. PICK u \in Users :
            \/ \E x \in Roles : SetUserRole(u, x)
            \/ \E cams \in Scopes : SetUserCameras(u, cams)
            \/ RevokeAllRefreshTokens(u)
            \/ DeleteUser(u)
        BY <1>5 DEF Command
    <2>3. RevokeAllRefreshTokens(u)
        BY <2>2 DEF SetUserRole, SetUserCameras, DeleteUser, TypeOK
    <2>4. state' = [x \in Tokens |-> IF x \in LiveOf(u) THEN "revoked" ELSE state[x]]
        BY <2>3 DEF RevokeAllRefreshTokens
    <2>5. t \in LiveOf(u)
        BY <2>4
    <2>6. holder'[t] = u
        BY <2>1, <2>5 DEF LiveOf
    <2>7. \A x \in Tokens : holder'[x] = u => state'[x] # "live"
        BY <2>1, <2>4 DEF LiveOf
    <2> QED BY <2>1, <2>6, <2>7 DEF LiveOf
<1>6. ASSUME NEW r \in Reqs,
             \/ StartRefresh(r) \/ Lookup(r) \/ LookupFails(r) \/ RevokeFails(r)
             \/ IssueFails(r) \/ StartRead(r) \/ GetUser(r) \/ ReadRole(r)
             \/ ReadCameras(r) \/ CheckAdmin(r) \/ HLSResource(r) \/ ReadFails(r)
             \/ Finish(r)
      PROVE  FALSE
    <2>1. state' = state
        BY <1>6 DEF StartRefresh, Lookup, LookupFails, RevokeFails, IssueFails, StartRead,
                    GetUser, HLSResource, ReadRole, ReadCameras, CheckAdmin, ReadFails, Finish
    <2> QED BY <2>1
<1> QED BY <1>1, <1>2, <1>3, <1>4, <1>5, <1>6 DEF Next, Request, Refreshing

\* Refresh ends the token it was given and no other.
THEOREM OtherDevicesStay == Spec => OthersStaySignedIn
<1>1. ASSUME TypeOK, [Next]_vars
      PROVE  [\A t \in Tokens : state[t] = "live" /\ state'[t] = "revoked" =>
                Holding(t) # {} \/ (pc' = pc /\ LiveOf(holder[t])' = {})]_vars
    BY <1>1, RevokedByHolder
<1> QED BY <1>1, TypeCorrect, PTL DEF Spec, OthersStaySignedIn
=============================================================================
