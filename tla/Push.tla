-------------------------------- MODULE Push --------------------------------
(***************************************************************************)
(* Push notifications: Sender.SendToAll (internal/apns/sender.go) with the *)
(* per-user rules of internal/notifrules/store.go and a transport, run for *)
(* several events at once, one dispatch each.                              *)
(*                                                                         *)
(* A dispatch selects the devices of the users who may and want to see the *)
(* camera, asks each user's rules, delivers per platform and prunes the    *)
(* devices their push service no longer knows.  Each of these is a         *)
(* statement or a request of its own: between them other dispatches run,   *)
(* people register devices, mute and change rules, and the admin changes   *)
(* scopes and deletes users.                                               *)
(*                                                                         *)
(* The rules are those of module NotifRules, stored as normalized makes    *)
(* them and asked at the minute the clock shows.  Other time is abstract:  *)
(* a mute or a cooldown window ends when it ends, and all cooldowns have   *)
(* one length.                                                             *)
(***************************************************************************)
EXTENDS NotifRules

CONSTANTS
    Users, Admins,      \* the users, and those with role 'admin'
    Tokens,             \* push tokens apps were ever given
    PlatformOf,         \* "ios" or "android"
    Cameras,
    Scopes,             \* the camera sets an admin hands out; {} is "no scope"
    FirstOwner,         \* the devices registered before the first dispatch,
    FirstRules,         \* and the rules the users may have by then
    FirstMinute,        \* the time of day then
    RulesSent,          \* the rules apps may send
    Dispatches,         \* events to push
    CamOf,              \* the camera of the event
    EventOf,            \* its label, zones and score
    Transport,          \* "direct" (own APNs key) or "relay"
    Faults,             \* do statements and deliveries fail?
    MaxChanges,         \* bound: changes by apps and the admin, in all
    None

ASSUME PushAssumption ==
    /\ Admins \subseteq Users
    /\ PlatformOf \in [Tokens -> {"ios", "android"}]
    /\ {} \in Scopes /\ Scopes \subseteq SUBSET Cameras
    /\ FirstOwner \in [Tokens -> Users \cup {None}]
    /\ FirstRules \subseteq [Users -> Stored \cup {None}]
    /\ FirstMinute \in Minutes
    /\ RulesSent \subseteq Requested
    /\ CamOf \in [Dispatches -> Cameras]
    /\ EventOf \in [Dispatches -> Events]
    /\ Transport \in {"direct", "relay"}
    /\ Faults \in BOOLEAN /\ MaxChanges \in Nat
    /\ None \notin Users \cup Stored

VARIABLES
    users,      \* the users table
    owner,      \* devices.user_id by token; None where there is no row
    gen,        \* devices.id by token: a uuid, here the number of its insert
    scope,      \* user_cameras
    muted,      \* users whose muted_until lies ahead
    camMuted,   \* camera_mutes whose muted_until lies ahead
    rule,       \* notification_rules; None where there is no row
    cooling,    \* notification_cooldowns younger than the user's cooldown
    gone,       \* tokens that APNs or FCM knows no more (app uninstalled, ...)
    minute,     \* the time of day
    changes     \* changes so far

VARIABLES
    pc,         \* the next statement or request of a dispatch
    sel,        \* the device rows it selected
    left,       \* the users whose rules it has yet to ask
    asking,     \* the user whose cooldown it is looking at
    approved,   \* the selected rows that passed the rules
    tried,      \* those handed to the transport
    stale       \* those the push service reported as unregistered

VARIABLES       \* History variables, which no guard reads.
    ever,       \* (user, token) pairs entitled at some time during a dispatch
    always,     \* those entitled, and not filtered, all through it
    chosen,     \* users whose rule chose the event at some time, or was not read
    cleared,    \* whose cooldown a dispatch read as over and recorded, in its present
                \* window; not those that a failed read or write let through
    raced,      \* the pairs of dispatches that were at work at one time
    dead        \* tokens the push service did not know at some time of their present row

tables == <<users, owner, gen, scope, muted, camMuted, rule, cooling>>
task == <<pc, sel, left, asking, approved, tried, stale>>
vars == <<tables, gone, minute, changes, task, ever, always, chosen, cleared, raced,
          dead>>

Steps == {"new", "list", "rules", "cooldown", "record", "deliver", "prune",
          "done", "failed"}
Rows == [token : Tokens, user : Users, gen : Nat]

TypeOK ==
    /\ users \subseteq Users
    /\ owner \in [Tokens -> Users \cup {None}]
    /\ gen \in [Tokens -> Nat]
    /\ scope \in [Users -> Scopes]
    /\ muted \subseteq Users
    /\ camMuted \subseteq Users \X Cameras
    /\ rule \in [Users -> Stored \cup {None}]
    /\ cooling \subseteq Users \X Cameras
    /\ gone \subseteq Tokens
    /\ minute \in Minutes
    /\ changes \in 0 .. MaxChanges
    /\ pc \in [Dispatches -> Steps]
    /\ asking \in [Dispatches -> Users \cup {None}]
    /\ \A d \in Dispatches :
          /\ sel[d] \subseteq Rows
          /\ left[d] \subseteq Users
          /\ approved[d] \subseteq sel[d]
          /\ tried[d] \subseteq approved[d]
          /\ stale[d] \subseteq tried[d]

\* People have signed in on their devices and limited what they are told; some
\* have uninstalled the app since.
Init ==
    /\ users = Users
    /\ owner = FirstOwner
    /\ gen = [t \in Tokens |-> 0]
    /\ scope \in [Users -> Scopes]
    /\ \A u \in Admins : scope[u] = {}
    /\ rule \in FirstRules
    /\ gone \in SUBSET Tokens
    /\ minute = FirstMinute
    /\ muted = {} /\ camMuted = {} /\ cooling = {}
    /\ changes = 0
    /\ pc = [d \in Dispatches |-> "new"]
    /\ sel = [d \in Dispatches |-> {}]
    /\ left = [d \in Dispatches |-> {}]
    /\ asking = [d \in Dispatches |-> None]
    /\ approved = [d \in Dispatches |-> {}]
    /\ tried = [d \in Dispatches |-> {}]
    /\ stale = [d \in Dispatches |-> {}]
    /\ ever = [d \in Dispatches |-> {}]
    /\ always = [d \in Dispatches |-> {}]
    /\ chosen = [d \in Dispatches |-> {}]
    /\ cleared = {}
    /\ raced = {}
    /\ dead = gone

-----------------------------------------------------------------------------
(* Who should be told.                                                     *)

Registered == {t \in Tokens : owner[t] # None}

\* Muted neither globally nor for this camera.
Wants(u, c) == u \notin muted /\ <<u, c>> \notin camMuted

\* Admins and members without a scope see every camera.
MaySee(u, c) == u \in Admins \/ scope[u] = {} \/ c \in scope[u]

\* The same, as the people concerned would put it.
Silenced(u, c) == u \in muted \/ <<u, c>> \in camMuted
Excluded(u, c) == u \notin Admins /\ scope[u] # {} /\ c \notin scope[u]
Entitled(c) == {p \in Users \X Tokens :
                  p[1] = owner[p[2]] /\ ~ Silenced(p[1], c) /\ ~ Excluded(p[1], c)}

\* Store.Get: a user without a row has the default rule.
Get(u) == IF rule[u] = None THEN DefaultRule ELSE rule[u]

Choosers(d) == {u \in Users : Chosen(Get(u), EventOf[d], minute)}
Unfiltered(d) == {p \in Entitled(CamOf[d]) :
                    p[1] \in Choosers(d) /\ Get(p[1]).cooldown = 0}

\* The rule of user u lets the event of dispatch d pass.
Passes(d, u) == staticAllows(Get(u), EventOf[d], minute)

-----------------------------------------------------------------------------
(* A dispatch.                                                             *)

Working == {d \in Dispatches : pc[d] \notin {"new", "done", "failed"}}

Goto(d, l) == pc' = [pc EXCEPT ![d] = l]

\* A dispatcher calls SendToAll for the event.
Start(d) ==
    /\ pc[d] = "new"
    /\ Goto(d, "list")
    /\ UNCHANGED <<tables, gone, minute, changes, sel, left, asking, approved, tried,
                   stale, cleared>>

\* The query over devices, users, camera_mutes and user_cameras.
ListDevices(d) ==
    LET rows == {[token |-> t, user |-> owner[t], gen |-> gen[t]] :
                   t \in {t \in Registered : /\ Wants(owner[t], CamOf[d])
                                             /\ MaySee(owner[t], CamOf[d])}}
    IN
    /\ pc[d] = "list"
    /\ sel' = [sel EXCEPT ![d] = rows]
    /\ left' = [left EXCEPT ![d] = {r.user : r \in rows}]
    /\ Goto(d, IF rows = {} THEN "done" ELSE "rules")
    /\ UNCHANGED <<tables, gone, minute, changes, asking, approved, tried, stale, cleared>>

ListFails(d) ==
    /\ pc[d] = "list" /\ Faults
    /\ Goto(d, "failed")
    /\ UNCHANGED <<tables, gone, minute, changes, sel, left, asking, approved, tried,
                   stale, cleared>>

\* The decision about user u: on to the next user, or to delivery.
Decide(d, u, ok) ==
    LET rows == approved[d] \cup {r \in sel[d] : ok /\ r.user = u} IN
    /\ approved' = [approved EXCEPT ![d] = rows]
    /\ left' = [left EXCEPT ![d] = @ \ {u}]
    /\ asking' = [asking EXCEPT ![d] = None]
    /\ Goto(d, IF left[d] # {u} THEN "rules"
               ELSE IF rows = {} THEN "done" ELSE "deliver")
    /\ UNCHANGED <<sel, tried, stale>>

\* Store.Allows: the stateless filters, then the cooldown if the rule has one.
AskRule(d) ==
    /\ pc[d] = "rules"
    /\ \E u \in left[d] :
        \/ /\ Passes(d, u) /\ Get(u).cooldown > 0
           /\ asking' = [asking EXCEPT ![d] = u]
           /\ Goto(d, "cooldown")
           /\ UNCHANGED <<sel, left, approved, tried, stale>>
        \/ /\ ~ (Passes(d, u) /\ Get(u).cooldown > 0)
           /\ Decide(d, u, Passes(d, u))
    /\ UNCHANGED <<tables, gone, minute, changes, cleared>>

\* Mutant: fails closed.
M_RuleUnread(d, u) ==
    /\ pc[d] = "rules" /\ Faults
    /\ u \in left[d]
    /\ Decide(d, u, FALSE)
    /\ UNCHANGED <<tables, gone, minute, changes, cleared>>

\* A rule that cannot be read lets the push through.
RuleUnread(d, u) ==
    /\ pc[d] = "rules" /\ Faults
    /\ u \in left[d]
    /\ Decide(d, u, TRUE)
    /\ UNCHANGED <<tables, gone, minute, changes, cleared>>

\* touchCooldown: the read.
ReadCooldown(d) ==
    LET u == asking[d] IN
    /\ pc[d] = "cooldown"
    /\ \/ /\ <<u, CamOf[d]>> \in cooling
          /\ Decide(d, u, FALSE)
          /\ UNCHANGED cleared
       \/ /\ <<u, CamOf[d]>> \notin cooling
          /\ Goto(d, "record")
          /\ UNCHANGED <<sel, left, asking, approved, tried, stale, cleared>>
       \/ /\ Faults
          /\ Decide(d, u, TRUE)
          /\ UNCHANGED cleared
    /\ UNCHANGED <<tables, gone, minute, changes>>

\* Mutant: only the first notification of a camera is recorded.
M_RecordCooldown(d) ==
    LET u == asking[d] IN
    /\ pc[d] = "record"
    /\ cooling' = IF \E p \in cooling : p[2] = CamOf[d] THEN cooling
                  ELSE cooling \cup {<<u, CamOf[d]>>}
    /\ Decide(d, u, TRUE)
    /\ cleared' = cleared \cup {<<u, CamOf[d], d>>}
    /\ UNCHANGED <<users, owner, gen, scope, muted, camMuted, rule, gone, minute, changes>>

\* touchCooldown: the write.  It fails if the user has just been deleted; the
\* push goes out all the same.
RecordCooldown(d) ==
    LET u == asking[d] IN
    /\ pc[d] = "record"
    /\ \/ /\ u \in users
          /\ cooling' = cooling \cup {<<u, CamOf[d]>>}
          /\ cleared' = cleared \cup {<<u, CamOf[d], d>>}
       \/ (Faults \/ u \notin users) /\ UNCHANGED <<cooling, cleared>>
    /\ Decide(d, u, TRUE)
    /\ UNCHANGED <<users, owner, gen, scope, muted, camMuted, rule, gone, minute, changes>>

\* Mutant: the selection is delivered to, not what the rules left of it.
M_Waiting(d) == sel[d] \ tried[d]

Waiting(d) == approved[d] \ tried[d]
Bucket(d, p) == {r \in Waiting(d) : PlatformOf[r.token] = p}
Platforms(d) == {PlatformOf[r.token] : r \in Waiting(d)}
Supported(p) == Transport = "relay" \/ p = "ios"

\* BuildPayload and Deliver for one platform; the order is that of a Go map.
\* The answer names tokens the push service knows no more.
Deliver(d) ==
    /\ pc[d] = "deliver"
    /\ \E p \in Platforms(d) :
        /\ Supported(p)
        /\ tried' = [tried EXCEPT ![d] = @ \cup Bucket(d, p)]
        /\ \E refused \in SUBSET {r \in Bucket(d, p) : r.token \in gone} :
            stale' = [stale EXCEPT ![d] = @ \cup refused]
    /\ Goto(d, IF tried'[d] # approved[d] THEN "deliver"
               ELSE IF stale'[d] = {} THEN "done" ELSE "prune")
    /\ UNCHANGED <<tables, gone, minute, changes, sel, left, asking, approved, cleared>>

\* One platform fails (direct push to Android, relay unreachable, gateway not
\* registered, subscription lapsed): the rest are not tried, nothing is pruned.
DeliverFails(d) ==
    /\ pc[d] = "deliver"
    /\ \E p \in Platforms(d) : ~ Supported(p) \/ (Faults /\ Transport = "relay")
    /\ Goto(d, "failed")
    /\ UNCHANGED <<tables, gone, minute, changes, sel, left, asking, approved, tried,
                   stale, cleared>>

\* Mutant: DELETE FROM devices WHERE apns_token = ?.
M_Prune(d) ==
    /\ pc[d] = "prune"
    /\ \E r \in stale[d] :
        /\ stale' = [stale EXCEPT ![d] = @ \ {r}]
        /\ \/ owner' = [owner EXCEPT ![r.token] = None]
           \/ Faults /\ UNCHANGED owner
    /\ Goto(d, IF stale'[d] = {} THEN "done" ELSE "prune")
    /\ UNCHANGED <<users, gen, scope, muted, camMuted, rule, cooling, gone,
                   minute, changes, sel, left, asking, approved, tried, cleared>>

\* DELETE FROM devices WHERE id = ?, logged if it fails.
Prune(d) ==
    /\ pc[d] = "prune"
    /\ \E r \in stale[d] :
        /\ stale' = [stale EXCEPT ![d] = @ \ {r}]
        /\ \/ owner' = IF gen[r.token] = r.gen THEN [owner EXCEPT ![r.token] = None]
                       ELSE owner
           \/ Faults /\ UNCHANGED owner
    /\ Goto(d, IF stale'[d] = {} THEN "done" ELSE "prune")
    /\ UNCHANGED <<users, gen, scope, muted, camMuted, rule, cooling, gone,
                   minute, changes, sel, left, asking, approved, tried, cleared>>

Dispatch(d) ==
    \/ Start(d) \/ ListDevices(d) \/ ListFails(d) \/ AskRule(d) \/ ReadCooldown(d)
    \/ RecordCooldown(d) \/ Deliver(d) \/ DeliverFails(d) \/ Prune(d)

-----------------------------------------------------------------------------
(* The apps, the admin and the clock.                                      *)

\* RegisterDevice: an upsert by token, which keeps the row id of a known token.  An
\* app sends the token that the push service has just given it.
RegisterDevice(u, t) ==
    /\ u \in users
    /\ owner' = [owner EXCEPT ![t] = u]
    /\ gen' = [gen EXCEPT ![t] = IF owner[t] = None THEN @ + 1 ELSE @]
    /\ gone' = gone \ {t}
    /\ UNCHANGED <<users, scope, muted, camMuted, rule, cooling, minute>>

\* SetMute without a camera, and the end of the mute.
SetMute(u) ==
    /\ u \in users
    /\ \E m \in {muted \cup {u}, muted \ {u}} : m # muted /\ muted' = m
    /\ UNCHANGED <<users, owner, gen, scope, camMuted, rule, cooling, gone, minute>>

\* SetMute with a camera, and the end of that mute.
SetCameraMute(u, c) ==
    /\ u \in users
    /\ \E m \in {camMuted \cup {<<u, c>>}, camMuted \ {<<u, c>>}} :
        m # camMuted /\ camMuted' = m
    /\ UNCHANGED <<users, owner, gen, scope, muted, rule, cooling, gone, minute>>

SetUserCameras(u, cams) ==
    /\ u \in users
    /\ scope' = [scope EXCEPT ![u] = cams]
    /\ UNCHANGED <<users, owner, gen, muted, camMuted, rule, cooling, gone, minute>>

\* Store.Set: what is stored is the request cleaned up.
Set(u, r) == rule' = [rule EXCEPT ![u] = normalized(r)]

\* The rule is read back for the answer; the statement fails for a user who has
\* been deleted.
PutNotificationRules(u, r) ==
    /\ u \in users
    /\ Set(u, r)
    /\ UNCHANGED <<users, owner, gen, scope, muted, camMuted, cooling, gone, minute>>

\* Everything of the user goes with the row.
DeleteUser(u) ==
    /\ u \in users
    /\ users' = users \ {u}
    /\ owner' = [t \in Tokens |-> IF owner[t] = u THEN None ELSE owner[t]]
    /\ scope' = [scope EXCEPT ![u] = {}]
    /\ rule' = [rule EXCEPT ![u] = None]
    /\ muted' = muted \ {u}
    /\ camMuted' = camMuted \ ({u} \X Cameras)
    /\ cooling' = cooling \ ({u} \X Cameras)
    /\ UNCHANGED <<gen, gone, minute>>

\* The push service drops a token.
Uninstall(t) ==
    /\ gone' = gone \cup {t}
    /\ UNCHANGED <<tables, minute>>

NextMinute ==
    /\ minute' = (minute + 1) % Day
    /\ UNCHANGED <<tables, gone>>

Change ==
    /\ changes < MaxChanges
    /\ changes' = changes + 1
    /\ \/ \E u \in Users, t \in Tokens : RegisterDevice(u, t)
       \/ \E u \in Users : SetMute(u) \/ DeleteUser(u)
       \/ \E u \in Users, c \in Cameras : SetCameraMute(u, c)
       \/ \E u \in Users, cams \in Scopes : SetUserCameras(u, cams)
       \/ \E u \in Users, r \in RulesSent : PutNotificationRules(u, r)
       \/ \E t \in Tokens : Uninstall(t)
       \/ NextMinute
    /\ cleared' = {k \in cleared : k[1] \in users'}
    /\ UNCHANGED task

\* The cooldown of a user for a camera is over.
CooldownOver(u, c) ==
    /\ <<u, c>> \in cooling
    /\ cooling' = cooling \ {<<u, c>>}
    /\ cleared' = {k \in cleared : k[1] # u \/ k[2] # c}
    /\ UNCHANGED <<users, owner, gen, scope, muted, camMuted, rule, gone, minute, changes, task>>

-----------------------------------------------------------------------------
\* unread: the dispatch, if any, that could not read a user's rule in this step.
Remember(unread) ==
    /\ ever' = [d \in Dispatches |->
                  IF d \in Working \cup Working' THEN ever[d] \cup Entitled(CamOf[d])'
                  ELSE ever[d]]
    /\ always' = [d \in Dispatches |->
                    IF d \in Working THEN always[d] \cap Unfiltered(d)'
                    ELSE IF d \in Working' THEN Unfiltered(d)'
                    ELSE always[d]]
    /\ chosen' = [d \in Dispatches |->
                    IF d \in Working \cup Working'
                    THEN chosen[d] \cup Choosers(d)' \cup {u \in Users : <<d, u>> \in unread}
                    ELSE chosen[d]]
    /\ raced' = raced \cup {{c, d} : c \in Working', d \in Working'}
    /\ dead' = gone' \cup {t \in dead : gen'[t] = gen[t]}

Next ==
    \/ /\ \/ \E d \in Dispatches : Dispatch(d)
          \/ Change
          \/ \E u \in Users, c \in Cameras : CooldownOver(u, c)
       /\ Remember({})
    \/ \E d \in Dispatches, u \in Users : RuleUnread(d, u) /\ Remember({<<d, u>>})

Spec == Init /\ [][Next]_vars

-----------------------------------------------------------------------------
(* Properties.                                                             *)

\* SendToAll: a device is pushed to only if, at some moment of the dispatch,
\* its user was not muted, not muted for the camera, and could see the camera,
\* and at some moment the user's rule chose the event (its labels, zones, score
\* and quiet hours, as the app sent them) or could not be read; however tables
\* and clock move between the query and the delivery.
NobodyElseIsPushed ==
    \A d \in Dispatches : \A r \in tried[d] :
        <<r.user, r.token>> \in ever[d] /\ r.user \in chosen[d]

\* A dispatch that comes to its end has handed over every device whose user
\* wanted the push all along: a failed read of a rule (Allows "fails OPEN: a
\* storage error never silently drops a push"), another user's rule, another
\* platform or a prune by another dispatch does not cost them the push.
NobodyIsForgotten ==
    \A d \in Dispatches : pc[d] = "done" =>
        \A p \in always[d] : \E r \in tried[d] : r.token = p[2]

\* A device row only goes with its user, or because the push service did not know
\* its token at some time since the row was inserted: a device that could not be
\* reached stays, and so does one that was pruned and has registered again, however
\* many dispatches still hold the answer about the row before.
DevicesAreKept ==
    [][\A t \in Tokens : owner[t] # None /\ owner'[t] = None =>
         t \in dead \/ owner[t] \notin users']_vars

\* 0008_notification_rules.sql: "after notifying a user for a camera, suppress
\* further pushes to that user for that camera for this many seconds": no two
\* events read one cooldown window as over and are recorded in it.
CooldownSuppresses ==
    \A k1, k2 \in cleared : k1[1] = k2[1] /\ k1[2] = k2[2] => k1 = k2

\* What is left of that: two events do so only if their two dispatches were at work
\* at one time.  A push that a failed read or write of the cooldown lets through is
\* recorded nowhere and is not counted.
CooldownHolds ==
    \A k1, k2 \in cleared : k1[1] = k2[1] /\ k1[2] = k2[2] =>
        k1 = k2 \/ {k1[3], k2[3]} \in raced
=============================================================================
