----------------------------- MODULE PushProofs -----------------------------
(***************************************************************************)
(* Proofs about module Push, for any users, devices, events, rules, length *)
(* of the day and number of changes.                                       *)
(*                                                                         *)
(* A dispatch remembers a selection made of tables that have moved on, so  *)
(* IInv ties what it holds to what was true meanwhile: who was entitled    *)
(* and whose rule chose the event (Grounds), that those entitled all along *)
(* are on their way to the transport (OnTheWay), and that a token reported *)
(* unknown was, if the row it was read from is still there (Reported).     *)
(***************************************************************************)
EXTENDS Push, NotifRulesProofs, TLAPS

\* The type invariant by the three groups of variables.
TablesOK ==
    /\ users \subseteq Users
    /\ owner \in [Tokens -> Users \cup {None}]
    /\ gen \in [Tokens -> Nat]
    /\ scope \in [Users -> Scopes]
    /\ muted \subseteq Users
    /\ camMuted \subseteq Users \X Cameras
    /\ rule \in [Users -> Stored \cup {None}]
    /\ cooling \subseteq Users \X Cameras
    /\ gone \subseteq Tokens
    /\ minute \in Minutes
    /\ changes \in 0 .. MaxChanges

TaskOK ==
    /\ pc \in [Dispatches -> Steps]
    /\ sel \in [Dispatches -> SUBSET Rows]
    /\ left \in [Dispatches -> SUBSET Users]
    /\ asking \in [Dispatches -> Users \cup {None}]
    /\ approved \in [Dispatches -> SUBSET Rows]
    /\ tried \in [Dispatches -> SUBSET Rows]
    /\ stale \in [Dispatches -> SUBSET Rows]
    /\ \A d \in Dispatches :
          approved[d] \subseteq sel[d] /\ tried[d] \subseteq approved[d]
          /\ stale[d] \subseteq tried[d]

HistoryOK ==
    /\ ever \in [Dispatches -> SUBSET (Users \X Tokens)]
    /\ always \in [Dispatches -> SUBSET (Users \X Tokens)]
    /\ chosen \in [Dispatches -> SUBSET Users]
    /\ cleared \subseteq Users \X Cameras \X Dispatches

\* Where in the code which of the variables of a dispatch are set.
Stages ==
    \A d \in Dispatches :
        /\ pc[d] \in {"new", "list"} => sel[d] = {} /\ left[d] = {}
        /\ pc[d] \in {"cooldown", "record"} => asking[d] \in left[d]
        /\ pc[d] \in {"deliver", "prune", "done"} => left[d] = {}
        /\ pc[d] \in {"prune", "done"} => approved[d] \subseteq tried[d]

Grounds ==
    \A d \in Dispatches :
        /\ \A r \in sel[d] : <<r.user, r.token>> \in ever[d]
        /\ \A r \in approved[d] : r.user \in chosen[d]
        /\ pc[d] \in {"cooldown", "record"} => asking[d] \in chosen[d]

\* Whoever has been entitled all along and not filtered is in the selection,
\* approved or yet to be asked.
OnTheWay ==
    \A d \in Dispatches :
        /\ d \in Working => always[d] \subseteq Unfiltered(d)
        /\ pc[d] \in {"cooldown", "record"} => \A p \in always[d] : p[1] # asking[d]
        /\ pc[d] \in {"rules", "cooldown", "record", "deliver", "prune", "done"} =>
             \A p \in always[d] : \E r \in sel[d] :
                 /\ r.user = p[1] /\ r.token = p[2]
                 /\ r.user \in left[d] \/ r \in approved[d]

\* The row numbers a dispatch holds are not ahead of the table, and what it was told
\* of the present row of a token was true of that row.
Reported ==
    /\ gone \subseteq dead
    /\ \A d \in Dispatches :
          /\ \A r \in sel[d] : r.gen <= gen[r.token]
          /\ \A r \in stale[d] : r.gen = gen[r.token] => r.token \in dead

\* Dispatches at work together have raced; a window's entry is in the table, and
\* so have two dispatches that are about to enter one.
Windows ==
    /\ \A c, d \in Working : {c, d} \in raced
    /\ \A k \in cleared : <<k[1], k[2]>> \in cooling
    /\ \A d \in Dispatches : \A k \in cleared :
         pc[d] = "record" /\ k[1] = asking[d] /\ k[2] = CamOf[d] =>
             k[3] = d \/ {k[3], d} \in raced

Types == TablesOK /\ TaskOK /\ HistoryOK

IInv ==
    /\ Types /\ Stages
    /\ Grounds /\ OnTheWay /\ Reported
    /\ Windows /\ CooldownHolds

LEMMA NoneIsApart == None \notin Users /\ None \notin Stored
BY PushAssumption

LEMMA DefaultIsStored == DefaultRule \in Stored
BY NotifRulesAssumption DEF DefaultRule, Stored

LEMMA TypesAreTypeOK == Types => TypeOK
BY DEF Types, TablesOK, TaskOK, TypeOK

LEMMA InitIInv == Init => IInv
<1> USE PushAssumption, NotifRulesAssumption
<1> SUFFICES ASSUME Init PROVE IInv
    OBVIOUS
<1>1. TablesOK
    <2>1. FirstOwner \in [Tokens -> Users \cup {None}] /\ FirstMinute \in Minutes
          /\ FirstRules \subseteq [Users -> Stored \cup {None}]
        OBVIOUS
    <2> QED BY <2>1 DEF Init, TablesOK
<1>2. TaskOK /\ HistoryOK
    BY DEF Init, TaskOK, HistoryOK, Steps
<1>3. Stages
    BY DEF Init, Stages
<1>4. Working = {}
    BY DEF Init, Working
<1>5. Grounds /\ Reported
    BY DEF Init, Grounds, Reported
<1>6. OnTheWay
    BY <1>4 DEF Init, OnTheWay
<1>7. Windows /\ CooldownHolds
    BY <1>4 DEF Init, Windows, CooldownHolds
<1> QED BY <1>1, <1>2, <1>3, <1>5, <1>6, <1>7 DEF IInv, Types

-----------------------------------------------------------------------------
(* What the steps of a dispatch do, one entry of each function at a time.  *)

\* The rest of the dispatches.
Else(d) ==
    \A e \in Dispatches \ {d} :
        /\ pc'[e] = pc[e] /\ sel'[e] = sel[e] /\ left'[e] = left[e]
        /\ asking'[e] = asking[e] /\ approved'[e] = approved[e]
        /\ tried'[e] = tried[e] /\ stale'[e] = stale[e]

\* The decision about user u.
Decided(d, u, ok) ==
    /\ TaskOK' /\ Else(d)
    /\ UNCHANGED <<sel, tried, stale>>
    /\ approved'[d] = approved[d] \cup {r \in sel[d] : ok /\ r.user = u}
    /\ left'[d] = left[d] \ {u}
    /\ pc'[d] \in {"rules", "done", "deliver"}
    /\ pc'[d] # "rules" => left'[d] = {}
    /\ pc'[d] = "done" => approved'[d] = {}

LEMMA DecideDoes ==
    ASSUME TaskOK, NEW d \in Dispatches, NEW u, NEW ok, Decide(d, u, ok)
    PROVE  Decided(d, u, ok)
<1> DEFINE rows == approved[d] \cup {r \in sel[d] : ok /\ r.user = u}
<1>1. rows \subseteq sel[d] /\ rows \subseteq Rows /\ approved[d] \subseteq rows
    BY DEF TaskOK
<1>2. /\ approved' = [approved EXCEPT ![d] = rows]
      /\ left' = [left EXCEPT ![d] = @ \ {u}]
      /\ asking' = [asking EXCEPT ![d] = None]
      /\ pc' = [pc EXCEPT ![d] = IF left[d] # {u} THEN "rules"
                               ELSE IF rows = {} THEN "done" ELSE "deliver"]
      /\ UNCHANGED <<sel, tried, stale>>
    BY DEF Decide, Goto
<1> HIDE DEF rows
<1>3. /\ approved' \in [Dispatches -> SUBSET Rows] /\ approved'[d] = rows
      /\ \A e \in Dispatches : e # d => approved'[e] = approved[e]
    BY <1>1, <1>2 DEF TaskOK
<1>4. /\ left' \in [Dispatches -> SUBSET Users] /\ left'[d] = left[d] \ {u}
      /\ \A e \in Dispatches : e # d => left'[e] = left[e]
    BY <1>2 DEF TaskOK
<1>5. /\ asking' \in [Dispatches -> Users \cup {None}]
      /\ \A e \in Dispatches : e # d => asking'[e] = asking[e]
    BY <1>2 DEF TaskOK
<1>6. /\ pc' \in [Dispatches -> Steps]
      /\ pc'[d] = IF left[d] # {u} THEN "rules" ELSE IF rows = {} THEN "done" ELSE "deliver"
      /\ \A e \in Dispatches : e # d => pc'[e] = pc[e]
    BY <1>2 DEF TaskOK, Steps
<1>7. \A e \in Dispatches : approved'[e] \subseteq sel[e] /\ tried[e] \subseteq approved'[e]
    BY <1>1, <1>3 DEF TaskOK
<1>8. TaskOK'
    BY <1>2, <1>3, <1>4, <1>5, <1>6, <1>7 DEF TaskOK
<1>9. Else(d)
    BY <1>2, <1>3, <1>4, <1>5, <1>6 DEF Else
<1>10. approved'[d] = approved[d] \cup {r \in sel[d] : ok /\ r.user = u}
    BY <1>3 DEF rows
<1> QED BY <1>2, <1>3, <1>4, <1>6, <1>8, <1>9, <1>10 DEF Decided

\* A step that only moves on, perhaps to ask user u for the cooldown.
Moved(d, from, to) ==
    /\ TaskOK' /\ Else(d)
    /\ UNCHANGED <<sel, left, approved, tried, stale>>
    /\ pc[d] = from /\ pc'[d] = to

LEMMA GotoDoes ==
    ASSUME TaskOK, NEW d \in Dispatches, NEW to \in Steps, Goto(d, to),
           UNCHANGED <<sel, left, approved, tried, stale>>,
           \/ UNCHANGED asking
           \/ \E u \in Users : asking' = [asking EXCEPT ![d] = u]
    PROVE  Moved(d, pc[d], to)
<1>1. /\ pc' \in [Dispatches -> Steps] /\ pc'[d] = to
      /\ \A e \in Dispatches : e # d => pc'[e] = pc[e]
    BY DEF Goto, TaskOK
<1>2. /\ asking' \in [Dispatches -> Users \cup {None}]
      /\ \A e \in Dispatches : e # d => asking'[e] = asking[e]
    BY DEF TaskOK
<1> QED BY <1>1, <1>2 DEF Moved, TaskOK, Else

Still == UNCHANGED <<tables, gone, minute, changes>>

LEMMA StartDoes ==
    ASSUME TaskOK, NEW d \in Dispatches, Start(d)
    PROVE  Still /\ UNCHANGED <<asking, cleared>> /\ Moved(d, "new", "list")
<1>1. /\ Goto(d, "list") /\ pc[d] = "new"
      /\ UNCHANGED <<sel, left, asking, approved, tried, stale, cleared>>
    BY DEF Start
<1> QED BY <1>1, GotoDoes DEF Start, Still, Steps

LEMMA ListFailsDoes ==
    ASSUME TaskOK, NEW d \in Dispatches, ListFails(d)
    PROVE  Still /\ UNCHANGED <<asking, cleared>> /\ Moved(d, "list", "failed")
<1>1. /\ Goto(d, "failed") /\ pc[d] = "list"
      /\ UNCHANGED <<sel, left, asking, approved, tried, stale, cleared>>
    BY DEF ListFails
<1> QED BY <1>1, GotoDoes DEF ListFails, Still, Steps

LEMMA DeliverFailsDoes ==
    ASSUME TaskOK, NEW d \in Dispatches, DeliverFails(d)
    PROVE  Still /\ UNCHANGED <<asking, cleared>> /\ Moved(d, "deliver", "failed")
<1>1. Goto(d, "failed") /\ pc[d] = "deliver"
      /\ UNCHANGED <<sel, left, asking, approved, tried, stale, cleared>>
    BY DEF DeliverFails
<1> QED BY <1>1, GotoDoes DEF DeliverFails, Still, Steps

\* The device rows of the users who may and want to see the camera of d.
Listed(d) == {[token |-> t, user |-> owner[t], gen |-> gen[t]] :
                t \in {t \in Registered : /\ Wants(owner[t], CamOf[d])
                                          /\ MaySee(owner[t], CamOf[d])}}

LEMMA ListedAreRows ==
    ASSUME TablesOK, NEW d \in Dispatches
    PROVE  /\ Listed(d) \in SUBSET Rows
           /\ {r.user : r \in Listed(d)} \in SUBSET Users
<1>1. \A t \in Registered : owner[t] \in Users /\ t \in Tokens /\ gen[t] \in Nat
    BY DEF TablesOK, Registered
<1>2. \A r \in Listed(d) : r \in Rows
    BY <1>1 DEF Listed, Rows
<1>3. \A r \in Rows : r.user \in Users
    BY DEF Rows
<1> QED BY <1>2, <1>3

LEMMA ListDevicesDoes ==
    ASSUME TablesOK, TaskOK, NEW d \in Dispatches, Stages, ListDevices(d)
    PROVE  /\ Still /\ UNCHANGED <<asking, approved, tried, stale, cleared>>
           /\ TaskOK' /\ Else(d)
           /\ pc[d] = "list" /\ pc'[d] \in {"done", "rules"}
           /\ sel'[d] = Listed(d) /\ left'[d] = {r.user : r \in Listed(d)}
           /\ pc'[d] = "done" => Listed(d) = {}
           /\ approved'[d] = {}
<1> DEFINE rows == Listed(d)
           us == {r.user : r \in Listed(d)}
<1>1. /\ pc[d] = "list"
      /\ sel' = [sel EXCEPT ![d] = rows]
      /\ left' = [left EXCEPT ![d] = us]
      /\ pc' = [pc EXCEPT ![d] = IF rows = {} THEN "done" ELSE "rules"]
      /\ UNCHANGED <<tables, gone, minute, changes, asking, approved, tried, stale, cleared>>
    BY DEF ListDevices, Listed, Goto
<1>2. rows \in SUBSET Rows /\ us \in SUBSET Users
    BY ListedAreRows
<1>3. sel[d] = {} /\ approved[d] = {} /\ tried[d] = {} /\ stale[d] = {}
    BY <1>1 DEF Stages, TaskOK
<1> HIDE DEF rows, us
<1>4. /\ sel' \in [Dispatches -> SUBSET Rows] /\ sel'[d] = rows
      /\ \A e \in Dispatches : e # d => sel'[e] = sel[e]
    BY <1>1, <1>2 DEF TaskOK
<1>5. /\ left' \in [Dispatches -> SUBSET Users] /\ left'[d] = us
      /\ \A e \in Dispatches : e # d => left'[e] = left[e]
    BY <1>1, <1>2 DEF TaskOK
<1>6. /\ pc' \in [Dispatches -> Steps] /\ pc'[d] \in {"done", "rules"}
      /\ \A e \in Dispatches : e # d => pc'[e] = pc[e]
      /\ pc'[d] = "done" => rows = {}
    BY <1>1 DEF TaskOK, Steps
<1>7. \A e \in Dispatches : approved[e] \subseteq sel'[e]
    BY <1>3, <1>4 DEF TaskOK
<1>8. TaskOK' /\ Else(d)
    BY <1>1, <1>4, <1>5, <1>6, <1>7 DEF TaskOK, Else
<1> QED BY <1>1, <1>3, <1>4, <1>5, <1>6, <1>8 DEF rows, us, Still

\* Store.Allows: the filters decide, unless they let the event pass and there
\* is a cooldown to look at.
LEMMA AskRuleDoes ==
    ASSUME TaskOK, NEW d \in Dispatches, AskRule(d)
    PROVE  /\ Still /\ UNCHANGED cleared /\ pc[d] = "rules"
           /\ \E u \in left[d] :
                \/ /\ Passes(d, u) /\ Get(u).cooldown > 0
                   /\ Moved(d, "rules", "cooldown") /\ asking'[d] = u
                \/ /\ ~ (Passes(d, u) /\ Get(u).cooldown > 0)
                   /\ Decided(d, u, Passes(d, u))
<1>1. PICK u \in left[d] :
        \/ /\ Passes(d, u) /\ Get(u).cooldown > 0
           /\ asking' = [asking EXCEPT ![d] = u]
           /\ Goto(d, "cooldown")
           /\ UNCHANGED <<sel, left, approved, tried, stale>>
        \/ /\ ~ (Passes(d, u) /\ Get(u).cooldown > 0)
           /\ Decide(d, u, Passes(d, u))
    BY DEF AskRule
<1>2. pc[d] = "rules" /\ Still /\ UNCHANGED cleared
    BY DEF AskRule, Still
<1>3. CASE /\ Passes(d, u) /\ Get(u).cooldown > 0
           /\ asking' = [asking EXCEPT ![d] = u]
           /\ Goto(d, "cooldown")
           /\ UNCHANGED <<sel, left, approved, tried, stale>>
    <2>1. u \in Users /\ "cooldown" \in Steps
        BY DEF TaskOK, Steps
    <2>2. Moved(d, "rules", "cooldown")
        BY <1>2, <1>3, <2>1, GotoDoes
    <2>3. asking'[d] = u
        BY <1>3 DEF TaskOK
    <2> QED BY <1>2, <1>3, <2>2, <2>3
<1>4. CASE /\ ~ (Passes(d, u) /\ Get(u).cooldown > 0)
           /\ Decide(d, u, Passes(d, u))
    <2>1. Decided(d, u, Passes(d, u))
        BY <1>4, DecideDoes
    <2> QED BY <1>2, <1>4, <2>1
<1> QED BY <1>1, <1>3, <1>4

LEMMA RuleUnreadDoes ==
    ASSUME TaskOK, NEW d \in Dispatches, NEW u \in Users, RuleUnread(d, u)
    PROVE  /\ Still /\ UNCHANGED cleared /\ pc[d] = "rules" /\ u \in left[d]
           /\ Decided(d, u, TRUE)
<1>1. Decide(d, u, TRUE)
    BY DEF RuleUnread
<1>2. Decided(d, u, TRUE)
    BY <1>1, DecideDoes
<1> QED BY <1>2 DEF RuleUnread, Still

LEMMA ReadCooldownDoes ==
    ASSUME TaskOK, NEW d \in Dispatches, ReadCooldown(d)
    PROVE  /\ Still /\ UNCHANGED cleared /\ pc[d] = "cooldown"
           /\ \/ Decided(d, asking[d], FALSE)
              \/ /\ <<asking[d], CamOf[d]>> \notin cooling
                 /\ Moved(d, "cooldown", "record") /\ UNCHANGED asking
              \/ Decided(d, asking[d], TRUE)
<1>1. Still /\ UNCHANGED cleared /\ pc[d] = "cooldown"
    BY DEF ReadCooldown, Still
<1>2. CASE Decide(d, asking[d], FALSE)
    BY <1>1, <1>2, DecideDoes
<1>3. CASE <<asking[d], CamOf[d]>> \notin cooling /\ Goto(d, "record")
           /\ UNCHANGED <<sel, left, asking, approved, tried, stale>>
    <2>1. "record" \in Steps
        BY DEF Steps
    <2>2. Moved(d, "cooldown", "record")
        BY <1>1, <1>3, <2>1, GotoDoes
    <2> QED BY <1>1, <1>3, <2>2
<1>4. CASE Decide(d, asking[d], TRUE)
    BY <1>1, <1>4, DecideDoes
<1> QED BY <1>2, <1>3, <1>4 DEF ReadCooldown

LEMMA RecordCooldownDoes ==
    ASSUME TaskOK, NEW d \in Dispatches, RecordCooldown(d)
    PROVE  /\ UNCHANGED <<users, owner, gen, scope, muted, camMuted, rule, gone,
                          minute, changes>>
           /\ pc[d] = "record"
           /\ Decided(d, asking[d], TRUE)
           /\ \/ /\ cooling' = cooling \cup {<<asking[d], CamOf[d]>>}
                 /\ cleared' = cleared \cup {<<asking[d], CamOf[d], d>>}
              \/ UNCHANGED <<cooling, cleared>>
<1>1. Decide(d, asking[d], TRUE)
    BY DEF RecordCooldown
<1>2. Decided(d, asking[d], TRUE)
    BY <1>1, DecideDoes
<1> QED BY <1>2 DEF RecordCooldown

LEMMA DeliverDoes ==
    ASSUME TaskOK, NEW d \in Dispatches, Deliver(d)
    PROVE  /\ Still /\ UNCHANGED <<sel, left, asking, approved, cleared>>
           /\ TaskOK' /\ Else(d)
           /\ pc[d] = "deliver" /\ pc'[d] \in {"deliver", "done", "prune"}
           /\ pc'[d] # "deliver" => tried'[d] = approved[d]
           /\ \A r \in stale'[d] \ stale[d] : r.token \in gone
<1>1. PICK p \in Platforms(d) :
        /\ tried' = [tried EXCEPT ![d] = @ \cup Bucket(d, p)]
        /\ \E refused \in SUBSET {r \in Bucket(d, p) : r.token \in gone} :
            stale' = [stale EXCEPT ![d] = @ \cup refused]
    BY DEF Deliver
<1>2. PICK refused \in SUBSET {r \in Bucket(d, p) : r.token \in gone} :
        stale' = [stale EXCEPT ![d] = @ \cup refused]
    BY <1>1
<1>3. Bucket(d, p) \subseteq approved[d]
    BY DEF Bucket, Waiting
<1> DEFINE b == Bucket(d, p)
<1>4. b \subseteq approved[d] /\ refused \subseteq b /\ \A r \in refused : r.token \in gone
    BY <1>3
<1> HIDE DEF b
<1>5. /\ tried' \in [Dispatches -> SUBSET Rows] /\ tried'[d] = tried[d] \cup b
      /\ \A e \in Dispatches : e # d => tried'[e] = tried[e]
    <2>1. tried' = [tried EXCEPT ![d] = @ \cup b]
        BY <1>1 DEF b
    <2> QED BY <1>4, <2>1 DEF TaskOK
<1>6. /\ stale' \in [Dispatches -> SUBSET Rows] /\ stale'[d] = stale[d] \cup refused
      /\ \A e \in Dispatches : e # d => stale'[e] = stale[e]
    BY <1>2, <1>4 DEF TaskOK
<1>7. /\ pc[d] = "deliver"
      /\ pc' = [pc EXCEPT ![d] = IF tried'[d] # approved[d] THEN "deliver"
                               ELSE IF stale'[d] = {} THEN "done" ELSE "prune"]
      /\ UNCHANGED <<tables, gone, minute, changes, sel, left, asking, approved, cleared>>
    BY DEF Deliver, Goto
<1>8. /\ pc' \in [Dispatches -> Steps] /\ pc'[d] \in {"deliver", "done", "prune"}
      /\ pc'[d] # "deliver" => tried'[d] = approved[d]
      /\ \A e \in Dispatches : e # d => pc'[e] = pc[e]
    BY <1>7 DEF TaskOK, Steps
<1>9. \A e \in Dispatches : tried'[e] \subseteq approved[e] /\ stale'[e] \subseteq tried'[e]
    BY <1>4, <1>5, <1>6 DEF TaskOK
<1>10. TaskOK' /\ Else(d)
    BY <1>5, <1>6, <1>7, <1>8, <1>9 DEF TaskOK, Else
<1>11. \A r \in stale'[d] \ stale[d] : r.token \in gone
    BY <1>4, <1>6
<1> QED BY <1>7, <1>8, <1>10, <1>11 DEF Still

LEMMA PruneDoes ==
    ASSUME TaskOK, TablesOK, NEW d \in Dispatches, Prune(d)
    PROVE  /\ UNCHANGED <<users, gen, scope, muted, camMuted, rule, cooling, gone,
                          minute, changes, sel, left, asking, approved, tried, cleared>>
           /\ TaskOK' /\ Else(d)
           /\ pc[d] = "prune" /\ pc'[d] \in {"done", "prune"}
           /\ stale'[d] \subseteq stale[d]
           /\ \E r \in stale[d] :
                \/ owner' = owner
                \/ gen[r.token] = r.gen /\ owner' = [owner EXCEPT ![r.token] = None]
<1>1. PICK r \in stale[d] :
        /\ stale' = [stale EXCEPT ![d] = @ \ {r}]
        /\ \/ owner' = owner
           \/ gen[r.token] = r.gen /\ owner' = [owner EXCEPT ![r.token] = None]
    BY DEF Prune
<1>2. /\ pc[d] = "prune"
      /\ pc' = [pc EXCEPT ![d] = IF stale'[d] = {} THEN "done" ELSE "prune"]
      /\ UNCHANGED <<users, gen, scope, muted, camMuted, rule, cooling, gone,
                     minute, changes, sel, left, asking, approved, tried, cleared>>
    BY DEF Prune, Goto
<1>3. /\ stale' \in [Dispatches -> SUBSET Rows] /\ stale'[d] = stale[d] \ {r}
      /\ \A e \in Dispatches : e # d => stale'[e] = stale[e]
    BY <1>1 DEF TaskOK
<1>4. /\ pc' \in [Dispatches -> Steps] /\ pc'[d] \in {"done", "prune"}
      /\ \A e \in Dispatches : e # d => pc'[e] = pc[e]
    BY <1>2 DEF TaskOK, Steps
<1>5. \A e \in Dispatches : stale'[e] \subseteq tried[e]
    BY <1>3 DEF TaskOK
<1>6. TaskOK' /\ Else(d)
    BY <1>2, <1>3, <1>4, <1>5 DEF TaskOK, Else
<1> QED BY <1>1, <1>2, <1>3, <1>4, <1>6

-----------------------------------------------------------------------------
(* Types.                                                                  *)

\* The apps, the admin and the clock keep the tables' types.
LEMMA ChangeTypes ==
    ASSUME TablesOK, Change
    PROVE  TablesOK'
<1> USE PushAssumption
<1>1. changes' \in 0 .. MaxChanges
    BY DEF TablesOK, Change
<1>2. ASSUME NEW u \in Users, NEW t \in Tokens, RegisterDevice(u, t)
      PROVE  TablesOK'
    BY <1>1, <1>2 DEF TablesOK, RegisterDevice
<1>3. ASSUME NEW u \in Users, SetMute(u)
      PROVE  TablesOK'
    BY <1>1, <1>3 DEF TablesOK, SetMute
<1>4. ASSUME NEW u \in Users, DeleteUser(u)
      PROVE  TablesOK'
    <2>1. {} \in Scopes
        OBVIOUS
    <2> QED BY <1>1, <1>4, <2>1 DEF TablesOK, DeleteUser
<1>5. ASSUME NEW u \in Users, NEW c \in Cameras, SetCameraMute(u, c)
      PROVE  TablesOK'
    BY <1>1, <1>5 DEF TablesOK, SetCameraMute
<1>6. ASSUME NEW u \in Users, NEW cams \in Scopes, SetUserCameras(u, cams)
      PROVE  TablesOK'
    BY <1>1, <1>6 DEF TablesOK, SetUserCameras
<1>7. ASSUME NEW u \in Users, NEW r \in RulesSent, PutNotificationRules(u, r)
      PROVE  TablesOK'
    <2>1. normalized(r) \in Stored
        <3>1. r \in Requested
            OBVIOUS
        <3> QED BY <3>1, NormalizedIsStored
    <2>2. rule' \in [Users -> Stored \cup {None}]
        BY <1>7, <2>1 DEF TablesOK, PutNotificationRules, Set
    <2> QED BY <1>1, <1>7, <2>2 DEF TablesOK, PutNotificationRules
<1>8. ASSUME NEW t \in Tokens, Uninstall(t)
      PROVE  TablesOK'
    BY <1>1, <1>8 DEF TablesOK, Uninstall, tables
<1>9. ASSUME NextMinute
      PROVE  TablesOK'
    <2>1. minute' \in Minutes
        <3>1. Day \in Nat /\ Day > 0 /\ minute \in Int /\ 0 <= minute /\ minute < Day
            BY NotifRulesAssumption DEF TablesOK, Minutes
        <3>2. (minute + 1) % Day \in 0 .. Day - 1
            BY <3>1
        <3> QED BY <1>9, <3>2 DEF NextMinute, Minutes
    <2> QED BY <1>1, <1>9, <2>1 DEF TablesOK, NextMinute, tables
<1> QED BY <1>2, <1>3, <1>4, <1>5, <1>6, <1>7, <1>8, <1>9 DEF Change

\* What Remember keeps, and what it adds.
LEMMA Remembers ==
    ASSUME HistoryOK, NEW unread, Remember(unread)
    PROVE  /\ ever' \in [Dispatches -> SUBSET (Users \X Tokens)]
           /\ always' \in [Dispatches -> SUBSET (Users \X Tokens)]
           /\ chosen' \in [Dispatches -> SUBSET Users]
           /\ \A d \in Dispatches :
                /\ ever[d] \subseteq ever'[d] /\ chosen[d] \subseteq chosen'[d]
                /\ d \in Working \cup Working' =>
                     /\ Entitled(CamOf[d])' \subseteq ever'[d]
                     /\ Choosers(d)' \subseteq chosen'[d]
                     /\ \A u \in Users : <<d, u>> \in unread => u \in chosen'[d]
                     /\ always'[d] \subseteq Unfiltered(d)'
                /\ d \in Working \/ d \notin Working' => always'[d] \subseteq always[d]
<1>1. \A c : Entitled(c)' \subseteq Users \X Tokens
    BY DEF Entitled
<1>2. \A d : Unfiltered(d)' \subseteq Users \X Tokens
    BY <1>1 DEF Unfiltered
<1>3. \A d : Choosers(d)' \subseteq Users
    BY DEF Choosers
<1>4. /\ ever' \in [Dispatches -> SUBSET (Users \X Tokens)]
      /\ \A d \in Dispatches :
           /\ ever[d] \subseteq ever'[d]
           /\ d \in Working \cup Working' => Entitled(CamOf[d])' \subseteq ever'[d]
    BY <1>1 DEF Remember, HistoryOK
<1>5. /\ always' \in [Dispatches -> SUBSET (Users \X Tokens)]
      /\ \A d \in Dispatches :
           /\ d \in Working \cup Working' => always'[d] \subseteq Unfiltered(d)'
           /\ d \in Working \/ d \notin Working' => always'[d] \subseteq always[d]
    BY <1>2 DEF Remember, HistoryOK
<1>6. /\ chosen' \in [Dispatches -> SUBSET Users]
      /\ \A d \in Dispatches :
           /\ chosen[d] \subseteq chosen'[d]
           /\ d \in Working \cup Working' =>
                /\ Choosers(d)' \subseteq chosen'[d]
                /\ \A u \in Users : <<d, u>> \in unread => u \in chosen'[d]
    BY <1>3 DEF Remember, HistoryOK
<1> QED BY <1>4, <1>5, <1>6

\* Dispatches at work together are remembered as such.
LEMMA RemembersRaces ==
    ASSUME NEW unread, Remember(unread)
    PROVE  /\ raced \subseteq raced'
           /\ \A c, d \in Working' : {c, d} \in raced'
BY DEF Remember

\* So is that the push service did not know a token, as long as its row stays.
LEMMA RemembersDead ==
    ASSUME NEW unread, Remember(unread)
    PROVE  /\ gone' \subseteq dead'
           /\ \A t \in dead : gen'[t] = gen[t] => t \in dead'
BY DEF Remember

\* The step of a dispatch, with or without reading a rule.
Work(d) == Dispatch(d) \/ \E u \in Users : RuleUnread(d, u)

LEMMA WorkTypes ==
    ASSUME Types, Stages, NEW d \in Dispatches, Work(d)
    PROVE  TaskOK' /\ TablesOK' /\ Else(d)
           /\ cleared' \subseteq Users \X Cameras \X Dispatches
<1> USE DEF Types
<1>0. cleared \subseteq Users \X Cameras \X Dispatches
    BY DEF HistoryOK
<1>a. Still => TablesOK'
    BY DEF Still, tables, TablesOK
<1>b. UNCHANGED cleared => cleared' \subseteq Users \X Cameras \X Dispatches
    BY <1>0
<1>1. CASE Start(d)
    BY <1>1, <1>a, <1>b, StartDoes DEF Moved
<1>2. CASE ListDevices(d)
    BY <1>2, <1>a, <1>b, ListDevicesDoes
<1>3. CASE ListFails(d)
    BY <1>3, <1>a, <1>b, ListFailsDoes DEF Moved
<1>4. CASE AskRule(d)
    BY <1>4, <1>a, <1>b, AskRuleDoes DEF Moved, Decided
<1>5. CASE ReadCooldown(d)
    BY <1>5, <1>a, <1>b, ReadCooldownDoes DEF Moved, Decided
<1>6. CASE RecordCooldown(d)
    <2>1. asking[d] \in Users /\ CamOf[d] \in Cameras
        BY <1>6, RecordCooldownDoes, PushAssumption DEF Stages, TaskOK
    <2>2. cooling' \subseteq Users \X Cameras
          /\ cleared' \subseteq Users \X Cameras \X Dispatches
        <3>1. \/ /\ cooling' = cooling \cup {<<asking[d], CamOf[d]>>}
                 /\ cleared' = cleared \cup {<<asking[d], CamOf[d], d>>}
              \/ UNCHANGED <<cooling, cleared>>
            BY <1>6, RecordCooldownDoes
        <3>2. cooling \subseteq Users \X Cameras
            BY DEF TablesOK
        <3>3. /\ <<asking[d], CamOf[d]>> \in Users \X Cameras
              /\ <<asking[d], CamOf[d], d>> \in Users \X Cameras \X Dispatches
            BY <2>1
        <3> QED BY <1>0, <3>1, <3>2, <3>3
    <2>3. TablesOK'
        BY <1>6, <2>2, RecordCooldownDoes DEF TablesOK
    <2> QED BY <1>6, <2>2, <2>3, RecordCooldownDoes DEF Decided
<1>7. CASE Deliver(d)
    BY <1>7, <1>a, <1>b, DeliverDoes
<1>8. CASE DeliverFails(d)
    BY <1>8, <1>a, <1>b, DeliverFailsDoes DEF Moved
<1>9. CASE Prune(d)
    <2>1. owner' \in [Tokens -> Users \cup {None}]
        BY <1>9, PruneDoes DEF TablesOK
    <2>2. TablesOK'
        BY <1>9, <2>1, PruneDoes DEF TablesOK
    <2> QED BY <1>9, <1>b, <2>2, PruneDoes
<1>10. CASE \E u \in Users : RuleUnread(d, u)
    BY <1>10, <1>a, <1>b, RuleUnreadDoes DEF Decided
<1> QED BY <1>1, <1>2, <1>3, <1>4, <1>5, <1>6, <1>7, <1>8, <1>9, <1>10 DEF Work, Dispatch

\* The steps outside the dispatches.
Outside == Change \/ \E u \in Users, c \in Cameras : CooldownOver(u, c)

LEMMA OutsideDoes ==
    ASSUME Types, Outside
    PROVE  /\ UNCHANGED task /\ TaskOK' /\ TablesOK'
           /\ cleared' \subseteq cleared
           /\ \A t \in Tokens : gen[t] <= gen'[t]
<1> USE DEF Types
<1>1. CASE Change
    <2>1. UNCHANGED task /\ cleared' \subseteq cleared
        BY <1>1 DEF Change
    <2>2. \A t \in Tokens : gen[t] <= gen'[t]
        <3>1. \A t \in Tokens : gen[t] \in Nat
            BY DEF TablesOK
        <3>2. ASSUME NEW u \in Users, NEW t \in Tokens, RegisterDevice(u, t)
              PROVE  \A x \in Tokens : gen[x] <= gen'[x]
            BY <3>1, <3>2 DEF RegisterDevice, TablesOK
        <3>3. CASE UNCHANGED gen
            BY <3>1, <3>3
        <3> QED BY <1>1, <3>2, <3>3
                DEF Change, SetMute, DeleteUser, SetCameraMute, SetUserCameras,
                    PutNotificationRules, Uninstall, NextMinute, tables
    <2>3. TaskOK'
        BY <2>1 DEF task, TaskOK
    <2> QED BY <1>1, <2>1, <2>2, <2>3, ChangeTypes
<1>2. CASE \E u \in Users, c \in Cameras : CooldownOver(u, c)
    <2>1. /\ UNCHANGED <<users, owner, gen, scope, muted, camMuted, rule, gone,
                         minute, changes, task>>
          /\ cooling' \subseteq cooling /\ cleared' \subseteq cleared
        BY <1>2 DEF CooldownOver
    <2>4. \A t \in Tokens : gen[t] <= gen'[t]
        BY <2>1 DEF TablesOK
    <2>2. TablesOK'
        BY <2>1 DEF TablesOK
    <2>3. TaskOK'
        BY <2>1 DEF task, TaskOK
    <2> QED BY <2>1, <2>2, <2>3, <2>4
<1> QED BY <1>1, <1>2 DEF Outside

-----------------------------------------------------------------------------
(* What a dispatch holds.                                                  *)

LEMMA StagesWork ==
    ASSUME Types, Stages, NEW d \in Dispatches, Work(d)
    PROVE  Stages'
<1> USE DEF Types
<1>0. TaskOK' /\ Else(d)
    BY WorkTypes
<1> SUFFICES ( /\ pc'[d] \in {"new", "list"} => sel'[d] = {} /\ left'[d] = {}
               /\ pc'[d] \in {"cooldown", "record"} => asking'[d] \in left'[d]
               /\ pc'[d] \in {"deliver", "prune", "done"} => left'[d] = {}
               /\ pc'[d] \in {"prune", "done"} => approved'[d] \subseteq tried'[d] )
    BY <1>0 DEF Stages, Else
<1>1. CASE Start(d)
    BY <1>1, StartDoes DEF Moved, Stages
<1>2. CASE ListDevices(d)
    BY <1>2, ListDevicesDoes
<1>3. CASE ListFails(d)
    BY <1>3, ListFailsDoes DEF Moved, Stages
<1>4. CASE AskRule(d)
    BY <1>4, AskRuleDoes DEF Moved, Decided
<1>5. CASE ReadCooldown(d)
    BY <1>5, ReadCooldownDoes DEF Moved, Decided, Stages
<1>6. CASE RecordCooldown(d)
    BY <1>6, RecordCooldownDoes DEF Decided
<1>7. CASE Deliver(d)
    BY <1>7, DeliverDoes DEF Stages
<1>8. CASE DeliverFails(d)
    BY <1>8, DeliverFailsDoes DEF Moved
<1>9. CASE Prune(d)
    BY <1>9, PruneDoes DEF Stages
<1>10. CASE \E u \in Users : RuleUnread(d, u)
    BY <1>10, RuleUnreadDoes DEF Decided
<1> QED BY <1>1, <1>2, <1>3, <1>4, <1>5, <1>6, <1>7, <1>8, <1>9, <1>10 DEF Work, Dispatch

\* The query selects the devices of those who are entitled, and all of them.
LEMMA ListedAreEntitled ==
    ASSUME TablesOK, NEW d \in Dispatches
    PROVE  /\ \A r \in Listed(d) : <<r.user, r.token>> \in Entitled(CamOf[d])
           /\ \A p \in Entitled(CamOf[d]) : \E r \in Listed(d) :
                r.user = p[1] /\ r.token = p[2]
<1> DEFINE T == {t \in Registered : Wants(owner[t], CamOf[d]) /\ MaySee(owner[t], CamOf[d])}
           row(t) == [token |-> t, user |-> owner[t], gen |-> gen[t]]
<1>1. ASSUME NEW t \in T
      PROVE  <<owner[t], t>> \in Entitled(CamOf[d])
    <2>1. t \in Tokens /\ owner[t] \in Users
        BY DEF TablesOK, Registered
    <2>2. ~ Silenced(owner[t], CamOf[d]) /\ ~ Excluded(owner[t], CamOf[d])
        BY DEF Wants, MaySee, Silenced, Excluded
    <2> QED BY <2>1, <2>2 DEF Entitled
<1>2. ASSUME NEW p \in Entitled(CamOf[d])
      PROVE  p[2] \in T /\ p[1] = owner[p[2]]
    <2>1. p[2] \in Tokens /\ p[1] \in Users /\ p[1] = owner[p[2]]
        BY DEF Entitled
    <2>2. p[2] \in Registered
        BY <2>1, NoneIsApart DEF Registered
    <2>3. Wants(p[1], CamOf[d]) /\ MaySee(p[1], CamOf[d])
        BY DEF Entitled, Wants, MaySee, Silenced, Excluded
    <2> QED BY <2>1, <2>2, <2>3
<1>3. Listed(d) = {row(t) : t \in T}
    BY DEF Listed
<1> HIDE DEF T
<1>4. \A t : row(t).user = owner[t] /\ row(t).token = t
    OBVIOUS
<1>5. ASSUME NEW r \in Listed(d)
      PROVE  <<r.user, r.token>> \in Entitled(CamOf[d])
    <2>1. PICK t \in T : r = row(t)
        BY <1>3
    <2> QED BY <1>1, <1>4, <2>1
<1>6. ASSUME NEW p \in Entitled(CamOf[d])
      PROVE  \E r \in Listed(d) : r.user = p[1] /\ r.token = p[2]
    <2>1. row(p[2]) \in Listed(d)
        BY <1>2, <1>3
    <2>2. row(p[2]).user = p[1] /\ row(p[2]).token = p[2]
        BY <1>2, <1>4
    <2> QED BY <2>1, <2>2
<1> QED BY <1>5, <1>6

\* The rules asked are stored ones, and let pass what their users chose.
LEMMA PassesTheChosen ==
    ASSUME TablesOK, NEW d \in Dispatches, NEW u \in Users
    PROVE  Passes(d, u) <=> u \in Choosers(d)
<1>1. Get(u) \in Stored
    BY DefaultIsStored DEF TablesOK, Get
<1>2. EventOf[d] \in Events /\ minute \in Minutes
    BY PushAssumption DEF TablesOK
<1> QED BY <1>1, <1>2, StaticAllowsTheChosen DEF Passes, Choosers

\* Who is entitled depends on the tables and the clock alone.
LEMMA StillTheSame ==
    ASSUME UNCHANGED <<owner, scope, muted, camMuted, rule, minute>>, NEW d
    PROVE  /\ Entitled(CamOf[d])' = Entitled(CamOf[d])
           /\ Choosers(d)' = Choosers(d)
           /\ Unfiltered(d)' = Unfiltered(d)
<1>1. Entitled(CamOf[d])' = Entitled(CamOf[d])
    BY DEF Entitled, Silenced, Excluded
<1>2. \A u : Get(u)' = Get(u)
    BY DEF Get
<1>3. Choosers(d)' = Choosers(d)
    BY <1>2 DEF Choosers
<1>4. Unfiltered(d)' = Unfiltered(d)
    BY <1>1, <1>2, <1>3 DEF Unfiltered
<1> QED BY <1>1, <1>3, <1>4

\* A dispatch's step, remembered.
Recorded(d, unread) ==
    /\ Remember(unread)
    /\ \/ Dispatch(d)
       \/ \E u \in Users : RuleUnread(d, u) /\ unread = {<<d, u>>}

LEMMA GroundsWork ==
    ASSUME Types, Stages, Grounds, NEW d \in Dispatches, NEW unread, Recorded(d, unread)
    PROVE  Grounds'
<1> USE DEF Types
<1>0. Work(d) /\ Remember(unread)
    BY DEF Recorded, Work
<1>a. TaskOK' /\ Else(d)
    BY <1>0, WorkTypes
<1>b. \A e \in Dispatches : ever[e] \subseteq ever'[e] /\ chosen[e] \subseteq chosen'[e]
    BY <1>0, Remembers
<1>c. d \in Working => /\ Entitled(CamOf[d])' \subseteq ever'[d]
                       /\ Choosers(d)' \subseteq chosen'[d]
                       /\ \A u \in Users : <<d, u>> \in unread => u \in chosen'[d]
    BY <1>0, Remembers
<1>d. Still => Choosers(d)' = Choosers(d) /\ Entitled(CamOf[d])' = Entitled(CamOf[d])
    BY StillTheSame DEF Still, tables
<1> SUFFICES ( /\ \A r \in sel'[d] : <<r.user, r.token>> \in ever'[d]
               /\ \A r \in approved'[d] : r.user \in chosen'[d]
               /\ pc'[d] \in {"cooldown", "record"} => asking'[d] \in chosen'[d] )
    BY <1>a, <1>b DEF Grounds, Else
<1>e. ASSUME NEW u, NEW ok, Decided(d, u, ok), ok => u \in chosen'[d]
      PROVE  /\ \A r \in sel'[d] : <<r.user, r.token>> \in ever'[d]
             /\ \A r \in approved'[d] : r.user \in chosen'[d]
             /\ pc'[d] \in {"cooldown", "record"} => asking'[d] \in chosen'[d]
    BY <1>b, <1>e DEF Decided, Grounds
<1>1. CASE Start(d)
    BY <1>1, <1>b, StartDoes DEF Moved, Grounds
<1>2. CASE ListDevices(d)
    <2>1. d \in Working
        BY <1>2, ListDevicesDoes DEF Working
    <2> QED BY <1>2, <1>c, <1>d, <2>1, ListDevicesDoes, ListedAreEntitled
<1>3. CASE ListFails(d)
    BY <1>3, <1>b, ListFailsDoes DEF Moved, Grounds
<1>4. CASE AskRule(d)
    <2>1. d \in Working /\ Still
        BY <1>4, AskRuleDoes DEF Working
    <2>2. PICK u \in left[d] :
             \/ Passes(d, u) /\ Moved(d, "rules", "cooldown") /\ asking'[d] = u
             \/ Decided(d, u, Passes(d, u))
        BY <1>4, AskRuleDoes
    <2>3. u \in Users
        BY DEF TaskOK
    <2>4. Passes(d, u) => u \in chosen'[d]
        BY <1>c, <1>d, <2>1, <2>3, PassesTheChosen
    <2>5. CASE Passes(d, u) /\ Moved(d, "rules", "cooldown") /\ asking'[d] = u
        BY <1>b, <2>4, <2>5 DEF Moved, Grounds
    <2>6. CASE Decided(d, u, Passes(d, u))
        BY <1>e, <2>4, <2>6
    <2> QED BY <2>2, <2>5, <2>6
<1>5. CASE ReadCooldown(d)
    <2>1. asking[d] \in chosen'[d]
        BY <1>5, <1>b, ReadCooldownDoes DEF Grounds
    <2>2. CASE Moved(d, "cooldown", "record") /\ UNCHANGED asking
        BY <1>b, <2>1, <2>2 DEF Moved, Grounds
    <2> QED BY <1>5, <1>e, <2>1, <2>2, ReadCooldownDoes
<1>6. CASE RecordCooldown(d)
    <2>1. asking[d] \in chosen'[d]
        BY <1>6, <1>b, RecordCooldownDoes DEF Grounds
    <2> QED BY <1>6, <1>e, <2>1, RecordCooldownDoes
<1>7. CASE Deliver(d)
    BY <1>7, <1>b, DeliverDoes DEF Grounds
<1>8. CASE DeliverFails(d)
    BY <1>8, <1>b, DeliverFailsDoes DEF Moved, Grounds
<1>9. CASE Prune(d)
    BY <1>9, <1>b, PruneDoes DEF Grounds
<1>10. CASE \E u \in Users : RuleUnread(d, u) /\ unread = {<<d, u>>}
    <2>1. PICK u \in Users : RuleUnread(d, u) /\ unread = {<<d, u>>}
        BY <1>10
    <2>2. d \in Working /\ Decided(d, u, TRUE)
        BY <2>1, RuleUnreadDoes DEF Working
    <2>3. u \in chosen'[d]
        BY <1>c, <2>1, <2>2
    <2> QED BY <1>e, <2>2, <2>3
<1> QED BY <1>1, <1>2, <1>3, <1>4, <1>5, <1>6, <1>7, <1>8, <1>9, <1>10
        DEF Recorded, Dispatch

\* The entry for dispatch d of what OnTheWay says about everyone selected.
Held(d) ==
    \A p \in always[d] : \E r \in sel[d] :
        /\ r.user = p[1] /\ r.token = p[2]
        /\ r.user \in left[d] \/ r \in approved[d]

Holding == {"rules", "cooldown", "record", "deliver", "prune", "done"}

LEMMA OnTheWayWork ==
    ASSUME Types, Stages, OnTheWay, NEW d \in Dispatches, NEW unread, Recorded(d, unread)
    PROVE  OnTheWay'
<1> USE DEF Types
<1>0. Work(d) /\ Remember(unread)
    BY DEF Recorded, Work
<1>a. TaskOK' /\ Else(d)
    BY <1>0, WorkTypes
<1>b. \A e \in Dispatches :
        /\ e \in Working \cup Working' => always'[e] \subseteq Unfiltered(e)'
        /\ e \in Working \/ e \notin Working' => always'[e] \subseteq always[e]
    BY <1>0, Remembers
<1>c. \A e \in Dispatches : e # d => /\ e \in Working <=> e \in Working'
                                     /\ always'[e] \subseteq always[e]
    BY <1>a, <1>b DEF Else, Working
<1>d. Still => Unfiltered(d)' = Unfiltered(d)
    BY StillTheSame DEF Still, tables
<1> SUFFICES ( /\ pc'[d] \in {"cooldown", "record"} => \A p \in always'[d] : p[1] # asking'[d]
               /\ pc'[d] \in Holding => Held(d)' )
    <2>1. ASSUME NEW e \in Dispatches
          PROVE  e \in Working' => always'[e] \subseteq Unfiltered(e)'
        BY <1>b
    <2>2. ASSUME NEW e \in Dispatches, e # d
          PROVE  /\ pc'[e] \in {"cooldown", "record"} => \A p \in always'[e] : p[1] # asking'[e]
                 /\ pc'[e] \in Holding => Held(e)'
        BY <1>a, <1>c, <2>2 DEF OnTheWay, Else, Held, Holding
    <2> QED BY <2>1, <2>2 DEF OnTheWay, Held, Holding
<1>e. ASSUME NEW u, NEW ok, Decided(d, u, ok), d \in Working, pc[d] \in Holding,
             ok \/ \A p \in always'[d] : p[1] # u
      PROVE  /\ pc'[d] \in {"cooldown", "record"} => \A p \in always'[d] : p[1] # asking'[d]
             /\ pc'[d] \in Holding => Held(d)'
    <2>1. pc'[d] \notin {"cooldown", "record"}
        BY <1>e DEF Decided
    <2>2. ASSUME NEW p \in always'[d]
          PROVE  \E r \in sel'[d] : /\ r.user = p[1] /\ r.token = p[2]
                                    /\ r.user \in left'[d] \/ r \in approved'[d]
        <3>1. PICK r \in sel[d] : /\ r.user = p[1] /\ r.token = p[2]
                                  /\ r.user \in left[d] \/ r \in approved[d]
            BY <1>b, <1>e DEF OnTheWay, Holding
        <3>2. r.user \in left'[d] \/ r \in approved'[d]
            BY <1>e, <3>1 DEF Decided
        <3> QED BY <1>e, <3>1, <3>2 DEF Decided
    <2> QED BY <2>1, <2>2 DEF Held
<1>f. ASSUME UNCHANGED <<sel, left, approved>>, d \in Working, pc[d] \in Holding,
             pc'[d] \notin {"cooldown", "record"}
      PROVE  /\ pc'[d] \in {"cooldown", "record"} => \A p \in always'[d] : p[1] # asking'[d]
             /\ pc'[d] \in Holding => Held(d)'
    BY <1>b, <1>f DEF OnTheWay, Held, Holding
<1>1. CASE Start(d)
    BY <1>1, StartDoes DEF Moved, Holding
<1>2. CASE ListDevices(d)
    <2>1. d \in Working /\ Still /\ sel'[d] = Listed(d)
          /\ left'[d] = {r.user : r \in Listed(d)} /\ pc'[d] \in {"done", "rules"}
        BY <1>2, ListDevicesDoes DEF Working
    <2>2. always'[d] \subseteq Entitled(CamOf[d])
        BY <1>b, <1>d, <2>1 DEF Unfiltered
    <2> QED BY <2>1, <2>2, ListedAreEntitled DEF Held
<1>3. CASE ListFails(d)
    BY <1>3, ListFailsDoes DEF Moved, Holding
<1>4. CASE AskRule(d)
    <2>1. d \in Working /\ Still /\ pc[d] = "rules"
        BY <1>4, AskRuleDoes DEF Working
    <2>2. PICK u \in left[d] :
             \/ /\ Passes(d, u) /\ Get(u).cooldown > 0
                /\ Moved(d, "rules", "cooldown") /\ asking'[d] = u
             \/ /\ ~ (Passes(d, u) /\ Get(u).cooldown > 0)
                /\ Decided(d, u, Passes(d, u))
        BY <1>4, AskRuleDoes
    <2>3. u \in Users
        BY DEF TaskOK
    <2>4. \A p \in always'[d] : p \in Unfiltered(d)
        BY <1>b, <1>d, <2>1
    <2>5. CASE /\ Passes(d, u) /\ Get(u).cooldown > 0
               /\ Moved(d, "rules", "cooldown") /\ asking'[d] = u
        <3>1. \A p \in Unfiltered(d) : p[1] # u
            <4>1. Get(u).cooldown # 0
                <5>1. Get(u) \in Stored
                    BY <2>3, DefaultIsStored DEF TablesOK, Get
                <5>2. Get(u).cooldown \in Nat
                    BY <5>1 DEF Stored
                <5> QED BY <2>5, <5>2
            <4> QED BY <4>1 DEF Unfiltered
        <3>2. Held(d)'
            BY <1>b, <2>1, <2>5 DEF Moved, OnTheWay, Held
        <3> QED BY <2>4, <2>5, <3>1, <3>2 DEF Moved
    <2>6. CASE Decided(d, u, Passes(d, u))
        <3>1. ~ Passes(d, u) => \A p \in always'[d] : p[1] # u
            BY <2>3, <2>4, PassesTheChosen DEF Unfiltered
        <3>2. pc[d] \in Holding
            BY <2>1 DEF Holding
        <3> QED BY <1>e, <2>1, <2>6, <3>1, <3>2
    <2> QED BY <2>2, <2>5, <2>6
<1>5. CASE ReadCooldown(d)
    <2>1. d \in Working /\ pc[d] = "cooldown" /\ pc[d] \in Holding
        BY <1>5, ReadCooldownDoes DEF Working, Holding
    <2>2. \A p \in always'[d] : p[1] # asking[d]
        BY <1>b, <2>1 DEF OnTheWay
    <2>3. CASE Moved(d, "cooldown", "record") /\ UNCHANGED asking
        BY <1>b, <2>1, <2>2, <2>3 DEF Moved, OnTheWay, Held
    <2> QED BY <1>5, <1>e, <2>1, <2>2, <2>3, ReadCooldownDoes
<1>6. CASE RecordCooldown(d)
    <2>1. d \in Working /\ pc[d] \in Holding /\ Decided(d, asking[d], TRUE)
        BY <1>6, RecordCooldownDoes DEF Working, Holding
    <2> QED BY <1>e, <2>1
<1>7. CASE Deliver(d)
    <2>1. /\ d \in Working /\ pc[d] \in Holding /\ UNCHANGED <<sel, left, approved>>
          /\ pc'[d] \notin {"cooldown", "record"}
        BY <1>7, DeliverDoes DEF Working, Holding
    <2> QED BY <1>f, <2>1
<1>8. CASE DeliverFails(d)
    BY <1>8, DeliverFailsDoes DEF Moved, Holding
<1>9. CASE Prune(d)
    <2>1. /\ d \in Working /\ pc[d] \in Holding /\ UNCHANGED <<sel, left, approved>>
          /\ pc'[d] \notin {"cooldown", "record"}
        BY <1>9, PruneDoes DEF Working, Holding
    <2> QED BY <1>f, <2>1
<1>10. CASE \E u \in Users : RuleUnread(d, u)
    <2>1. PICK u \in Users : RuleUnread(d, u)
        BY <1>10
    <2>2. d \in Working /\ pc[d] \in Holding /\ Decided(d, u, TRUE)
        BY <2>1, RuleUnreadDoes DEF Working, Holding
    <2> QED BY <1>e, <2>2
<1> QED BY <1>1, <1>2, <1>3, <1>4, <1>5, <1>6, <1>7, <1>8, <1>9, <1>10
        DEF Recorded, Dispatch

LEMMA ReportedWork ==
    ASSUME Types, Stages, Reported, NEW d \in Dispatches, Work(d),
           NEW unread, Remember(unread)
    PROVE  Reported'
<1> USE DEF Types
<1>0. TaskOK' /\ Else(d)
    BY WorkTypes
<1>a. Listed(d) \subseteq Rows /\ \A r \in Listed(d) : r.gen = gen[r.token]
    <2>1. \A r \in Listed(d) : r.gen = gen[r.token]
        BY DEF Listed
    <2> QED BY <2>1, ListedAreRows
<1>b. /\ \A r \in sel'[d] : r \in sel[d] \/ r \in Listed(d)
      /\ \A r \in stale'[d] : r \in stale[d] \/ r.token \in gone
      /\ UNCHANGED <<gen, gone>>
    <2>1. CASE Start(d)
        BY <2>1, StartDoes DEF Moved, Still, tables
    <2>2. CASE ListDevices(d)
        BY <2>2, ListDevicesDoes DEF Still, tables
    <2>3. CASE ListFails(d)
        BY <2>3, ListFailsDoes DEF Moved, Still, tables
    <2>4. CASE AskRule(d)
        BY <2>4, AskRuleDoes DEF Moved, Decided, Still, tables
    <2>5. CASE ReadCooldown(d)
        BY <2>5, ReadCooldownDoes DEF Moved, Decided, Still, tables
    <2>6. CASE RecordCooldown(d)
        BY <2>6, RecordCooldownDoes DEF Decided
    <2>7. CASE Deliver(d)
        BY <2>7, DeliverDoes DEF Still, tables
    <2>8. CASE DeliverFails(d)
        BY <2>8, DeliverFailsDoes DEF Moved, Still, tables
    <2>9. CASE Prune(d)
        BY <2>9, PruneDoes
    <2>10. CASE \E u \in Users : RuleUnread(d, u)
        BY <2>10, RuleUnreadDoes DEF Decided, Still, tables
    <2> QED BY <2>1, <2>2, <2>3, <2>4, <2>5, <2>6, <2>7, <2>8, <2>9, <2>10
            DEF Work, Dispatch
<1>c. gone' \subseteq dead' /\ dead \subseteq dead'
    BY <1>b, RemembersDead
<1>1. \A r \in sel'[d] : r.gen <= gen'[r.token]
    <2>1. \A r \in Listed(d) : r.gen <= gen[r.token]
        <3>1. \A r \in Listed(d) : r.gen \in Nat
            BY <1>a DEF Rows
        <3> QED BY <1>a, <3>1
    <2> QED BY <1>b, <2>1 DEF Reported
<1>2. \A r \in stale'[d] : r.gen = gen'[r.token] => r.token \in dead'
    BY <1>b, <1>c DEF Reported
<1>3. \A e \in Dispatches : e # d =>
        /\ \A r \in sel'[e] : r.gen <= gen'[r.token]
        /\ \A r \in stale'[e] : r.gen = gen'[r.token] => r.token \in dead'
    BY <1>0, <1>b, <1>c DEF Reported, Else
<1> QED BY <1>1, <1>2, <1>3, <1>c DEF Reported

LEMMA WindowsWork ==
    ASSUME Types, Stages, Windows, CooldownHolds, NEW d \in Dispatches, NEW unread,
           Recorded(d, unread)
    PROVE  Windows' /\ CooldownHolds'
<1> USE DEF Types
<1>0. Work(d) /\ Remember(unread)
    BY DEF Recorded, Work
<1>a. TaskOK' /\ Else(d)
    BY <1>0, WorkTypes
<1>b. raced \subseteq raced' /\ \A b, c \in Working' : {b, c} \in raced'
    BY <1>0, RemembersRaces
<1>e. ASSUME UNCHANGED <<cooling, cleared>>,
             pc'[d] = "record" => <<asking'[d], CamOf[d]>> \notin cooling
      PROVE  Windows' /\ CooldownHolds'
    <2>1. CooldownHolds'
        BY <1>b, <1>e DEF CooldownHolds
    <2>2. \A k \in cleared' : <<k[1], k[2]>> \in cooling'
        BY <1>e DEF Windows
    <2>3. ASSUME NEW e \in Dispatches, NEW k \in cleared', pc'[e] = "record",
                 k[1] = asking'[e], k[2] = CamOf[e]
          PROVE  k[3] = e \/ {k[3], e} \in raced'
        <3>1. e # d
            BY <1>e, <2>2, <2>3
        <3>2. pc[e] = "record" /\ asking'[e] = asking[e] /\ k \in cleared
            BY <1>a, <1>e, <2>3, <3>1 DEF Else
        <3> QED BY <1>b, <2>3, <3>2 DEF Windows
    <2> QED BY <1>b, <2>1, <2>2, <2>3 DEF Windows
<1>1. CASE Start(d)
    BY <1>1, <1>e, StartDoes DEF Moved, Still, tables
<1>2. CASE ListDevices(d)
    BY <1>2, <1>e, ListDevicesDoes DEF Still, tables
<1>3. CASE ListFails(d)
    BY <1>3, <1>e, ListFailsDoes DEF Moved, Still, tables
<1>4. CASE AskRule(d)
    BY <1>4, <1>e, AskRuleDoes DEF Moved, Decided, Still, tables
<1>5. CASE ReadCooldown(d)
    BY <1>5, <1>e, ReadCooldownDoes DEF Moved, Decided, Still, tables
<1>6. CASE RecordCooldown(d)
    <2>1. pc[d] = "record" /\ pc'[d] # "record" /\ d \in Working
        BY <1>6, RecordCooldownDoes DEF Decided, Working
    <2>2. CASE UNCHANGED <<cooling, cleared>>
        BY <1>e, <2>1, <2>2
    <2>3. CASE /\ cooling' = cooling \cup {<<asking[d], CamOf[d]>>}
               /\ cleared' = cleared \cup {<<asking[d], CamOf[d], d>>}
        <3> DEFINE new == <<asking[d], CamOf[d], d>>
        <3>1. new[1] = asking[d] /\ new[2] = CamOf[d] /\ new[3] = d
            OBVIOUS
        <3>2. cleared' = cleared \cup {new}
            BY <2>3
        <3> HIDE DEF new
        <3>3. \A k \in cleared : k = <<k[1], k[2], k[3]>>
            BY DEF HistoryOK
        <3>4. ASSUME NEW k \in cleared, k[1] = new[1], k[2] = new[2]
              PROVE  k = new \/ {k[3], new[3]} \in raced'
            <4>1. k[3] = d \/ {k[3], d} \in raced
                BY <2>1, <3>1, <3>4 DEF Windows
            <4>2. k[3] = d => k = new
                BY <3>1, <3>3, <3>4 DEF new
            <4> QED BY <1>b, <3>1, <4>1, <4>2
        <3>5. CooldownHolds'
            <4>1. ASSUME NEW k \in cleared', NEW l \in cleared', k[1] = l[1], k[2] = l[2]
                  PROVE  k = l \/ {k[3], l[3]} \in raced'
                <5>1. CASE k \in cleared /\ l \in cleared
                    BY <1>b, <4>1, <5>1 DEF CooldownHolds
                <5>2. CASE k \in cleared /\ l = new
                    BY <3>4, <4>1, <5>2
                <5>3. CASE k = new /\ l \in cleared
                    BY <3>4, <4>1, <5>3
                <5>4. CASE k = new /\ l = new
                    BY <5>4
                <5> QED BY <3>2, <5>1, <5>2, <5>3, <5>4
            <4> QED BY <4>1 DEF CooldownHolds
        <3>6. \A k \in cleared' : <<k[1], k[2]>> \in cooling'
            BY <2>3, <3>1, <3>2 DEF Windows
        <3>7. ASSUME NEW e \in Dispatches, NEW k \in cleared', pc'[e] = "record",
                     k[1] = asking'[e], k[2] = CamOf[e]
              PROVE  k[3] = e \/ {k[3], e} \in raced'
            <4>1. e # d
                BY <2>1, <3>7
            <4>2. pc[e] = "record" /\ asking'[e] = asking[e] /\ e \in Working
                BY <1>a, <3>7, <4>1 DEF Else, Working
            <4>3. CASE k \in cleared
                BY <1>b, <3>7, <4>2, <4>3 DEF Windows
            <4>4. CASE k = new
                BY <1>b, <2>1, <3>1, <4>1, <4>2, <4>4 DEF Windows
            <4> QED BY <3>2, <4>3, <4>4
        <3> QED BY <1>b, <3>5, <3>6, <3>7 DEF Windows
    <2> QED BY <1>6, <2>2, <2>3, RecordCooldownDoes
<1>7. CASE Deliver(d)
    BY <1>7, <1>e, DeliverDoes DEF Still, tables
<1>8. CASE DeliverFails(d)
    BY <1>8, <1>e, DeliverFailsDoes DEF Moved, Still, tables
<1>9. CASE Prune(d)
    BY <1>9, <1>e, PruneDoes
<1>10. CASE \E u \in Users : RuleUnread(d, u)
    BY <1>10, <1>e, RuleUnreadDoes DEF Decided, Still, tables
<1> QED BY <1>1, <1>2, <1>3, <1>4, <1>5, <1>6, <1>7, <1>8, <1>9, <1>10
        DEF Recorded, Dispatch

-----------------------------------------------------------------------------
(* The apps, the admin and the clock, and the invariant.                   *)

\* What is left of the entries of a window is in the table.
LEMMA OutsideWindows ==
    ASSUME Types, Windows, Outside
    PROVE  \A k \in cleared' : <<k[1], k[2]>> \in cooling'
<1>1. \A k \in cleared : <<k[1], k[2]>> \in cooling
    BY DEF Windows
<1>2. CASE Change
    <2>1. cleared' = {k \in cleared : k[1] \in users'}
        BY <1>2 DEF Change
    <2>2. CASE UNCHANGED cooling
        BY <1>1, <2>1, <2>2
    <2>3. CASE \E u \in Users : DeleteUser(u)
        <3>1. PICK u \in Users : DeleteUser(u)
            BY <2>3
        <3>2. cooling' = cooling \ ({u} \X Cameras) /\ users' = users \ {u}
            BY <3>1 DEF DeleteUser
        <3>3. ASSUME NEW k \in cleared'
              PROVE  <<k[1], k[2]>> \in cooling'
            <4>1. k \in cleared /\ k[1] # u
                BY <2>1, <3>2
            <4>2. <<k[1], k[2]>> \notin {u} \X Cameras
                BY <4>1
            <4> QED BY <1>1, <3>2, <4>1, <4>2
        <3> QED BY <3>3
    <2> QED BY <1>2, <2>2, <2>3
            DEF Change, RegisterDevice, SetMute, SetCameraMute, SetUserCameras,
                PutNotificationRules, Uninstall, NextMinute, tables
<1>3. ASSUME NEW u \in Users, NEW c \in Cameras, CooldownOver(u, c)
      PROVE  \A k \in cleared' : <<k[1], k[2]>> \in cooling'
    <2>1. /\ cooling' = cooling \ {<<u, c>>}
          /\ cleared' = {k \in cleared : k[1] # u \/ k[2] # c}
        BY <1>3 DEF CooldownOver
    <2>2. ASSUME NEW k \in cleared'
          PROVE  <<k[1], k[2]>> \in cooling'
        <3>1. k \in cleared /\ (k[1] # u \/ k[2] # c)
            BY <2>1
        <3>2. <<k[1], k[2]>> # <<u, c>>
            BY <3>1
        <3> QED BY <1>1, <2>1, <3>1, <3>2
    <2> QED BY <2>2
<1> QED BY <1>2, <1>3 DEF Outside

LEMMA OutsideIInv ==
    ASSUME IInv, Outside, NEW unread, Remember(unread)
    PROVE  IInv'
<1> USE DEF IInv, Types
<1>1. UNCHANGED task /\ TaskOK' /\ TablesOK' /\ cleared' \subseteq cleared
    BY OutsideDoes
<1>2. /\ UNCHANGED <<pc, sel, left, asking, approved, tried, stale>>
      /\ Working' = Working
    BY <1>1 DEF task, Working
<1>3. HistoryOK'
    BY <1>1, Remembers DEF HistoryOK
<1>4. Stages'
    BY <1>2 DEF Stages
<1>5. Grounds'
    <2>1. \A d \in Dispatches : ever[d] \subseteq ever'[d] /\ chosen[d] \subseteq chosen'[d]
        BY Remembers
    <2> QED BY <1>2, <2>1 DEF Grounds
<1>6. OnTheWay'
    <2>1. \A d \in Dispatches : /\ d \in Working => always'[d] \subseteq Unfiltered(d)'
                                /\ always'[d] \subseteq always[d]
        BY <1>2, Remembers
    <2> QED BY <1>2, <2>1 DEF OnTheWay
<1>7. Reported'
    <2>1. gone' \subseteq dead' /\ \A t \in dead : gen'[t] = gen[t] => t \in dead'
        BY RemembersDead
    <2>2. \A t \in Tokens : gen[t] \in Nat /\ gen'[t] \in Nat /\ gen[t] <= gen'[t]
        BY <1>1, OutsideDoes DEF TablesOK
    <2>3. ASSUME NEW d \in Dispatches, NEW r \in sel[d]
          PROVE  /\ r.gen <= gen'[r.token]
                 /\ r \in stale[d] /\ r.gen = gen'[r.token] => r.token \in dead'
        <3>1. r.token \in Tokens /\ r.gen \in Nat
            BY DEF TaskOK, Rows
        <3>2. r.gen <= gen[r.token]
            BY DEF Reported
        <3>3. r.gen <= gen'[r.token] /\ (r.gen = gen'[r.token] => r.gen = gen[r.token])
            BY <2>2, <3>1, <3>2
        <3>4. r \in stale[d] /\ r.gen = gen[r.token] => r.token \in dead
            BY DEF Reported
        <3> QED BY <2>1, <3>3, <3>4
    <2>4. \A d \in Dispatches : stale[d] \subseteq sel[d]
        BY DEF TaskOK
    <2> QED BY <1>2, <2>1, <2>3, <2>4 DEF Reported
<1>8. raced \subseteq raced' /\ \A c, d \in Working' : {c, d} \in raced'
    BY RemembersRaces
<1>9. CooldownHolds'
    BY <1>1, <1>8 DEF CooldownHolds
<1>10. Windows'
    BY <1>1, <1>2, <1>8, OutsideWindows DEF Windows
<1> QED BY <1>1, <1>3, <1>4, <1>5, <1>6, <1>7, <1>9, <1>10

LEMMA WorkIInv ==
    ASSUME IInv, NEW d \in Dispatches, NEW unread, Recorded(d, unread)
    PROVE  IInv'
<1> USE DEF IInv, Types
<1>1. Work(d) /\ Remember(unread)
    BY DEF Recorded, Work
<1>2. TaskOK' /\ TablesOK' /\ cleared' \subseteq Users \X Cameras \X Dispatches
    BY <1>1, WorkTypes
<1>3. HistoryOK'
    BY <1>1, <1>2, Remembers DEF HistoryOK
<1>4. Stages' /\ Reported'
    BY <1>1, StagesWork, ReportedWork
<1>5. Grounds' /\ OnTheWay'
    BY GroundsWork, OnTheWayWork
<1>6. Windows' /\ CooldownHolds'
    BY WindowsWork
<1> QED BY <1>2, <1>3, <1>4, <1>5, <1>6

\* A step of the system is one outside the dispatches or one of a dispatch.
LEMMA NextIs ==
    ASSUME Next
    PROVE  \E unread : \/ Outside /\ Remember(unread)
                       \/ \E d \in Dispatches : Recorded(d, unread)
BY Zenon DEF Next, Outside, Recorded

LEMMA NextIInv ==
    ASSUME IInv, [Next]_vars
    PROVE  IInv'
<1>1. CASE Next
    BY <1>1, NextIs, OutsideIInv, WorkIInv
<1>2. CASE UNCHANGED vars
    <2>1. /\ UNCHANGED <<users, owner, gen, scope, muted, camMuted, rule, cooling, gone,
                         minute, changes, pc, sel, left, asking, approved, tried, stale>>
          /\ UNCHANGED <<ever, always, chosen, cleared, raced, dead>>
        BY <1>2 DEF vars, tables, task
    <2>2. \A d : Unfiltered(d)' = Unfiltered(d)
        BY <2>1, StillTheSame
    <2>3. TablesOK' /\ TaskOK' /\ HistoryOK'
        BY <2>1 DEF IInv, Types, TablesOK, TaskOK, HistoryOK
    <2>4. Stages' /\ Grounds' /\ Reported' /\ CooldownHolds'
        BY <2>1 DEF IInv, Stages, Grounds, Reported, CooldownHolds
    <2>5. Working' = Working
        BY <2>1 DEF Working
    <2>6. OnTheWay' /\ Windows'
        BY <2>1, <2>2, <2>5 DEF IInv, OnTheWay, Windows
    <2> QED BY <2>3, <2>4, <2>6 DEF IInv, Types
<1> QED BY <1>1, <1>2

\* IInv is inductive.
THEOREM Invariance == Spec => []IInv
<1>1. Init => IInv
    BY InitIInv
<1>2. IInv /\ [Next]_vars => IInv'
    BY NextIInv
<1> QED BY <1>1, <1>2, PTL DEF Spec

-----------------------------------------------------------------------------
(* The results.                                                            *)

\* The tables and what the dispatches hold have their types.
THEOREM TypeCorrect == Spec => []TypeOK
<1>1. IInv => TypeOK
    BY TypesAreTypeOK DEF IInv
<1> QED BY <1>1, Invariance, PTL

\* SendToAll: whoever is pushed to was entitled at some moment of the dispatch,
\* and at some moment the rule they set chose the event or could not be read.
THEOREM PushedWereEntitled == Spec => []NobodyElseIsPushed
<1>1. IInv => NobodyElseIsPushed
    BY DEF IInv, Types, TaskOK, Grounds, NobodyElseIsPushed
<1> QED BY <1>1, Invariance, PTL

\* Allows fails open: a dispatch that comes to its end has handed over every
\* device whose user wanted the push all along.
THEOREM WhoWantsItIsPushed == Spec => []NobodyIsForgotten
<1>1. IInv => NobodyIsForgotten
    BY DEF IInv, Stages, OnTheWay, NobodyIsForgotten
<1> QED BY <1>1, Invariance, PTL

\* touchCooldown: two events read one window as over and are recorded in it only if
\* their dispatches were at work at one time.
THEOREM CooldownsHoldSerially == Spec => []CooldownHolds
<1>1. IInv => CooldownHolds
    BY DEF IInv
<1> QED BY <1>1, Invariance, PTL

\* The pruning in SendToAll: a device row only goes with its user, or because the
\* push service did not know its token at some time since the row was inserted.
THEOREM ReachableDevicesStay == Spec => DevicesAreKept
<1> DEFINE Kept == \A t \in Tokens : owner[t] # None /\ owner'[t] = None =>
                     t \in dead \/ owner[t] \notin users'
<1>1. IInv /\ [Next]_vars => [Kept]_vars
    <2> SUFFICES ASSUME IInv, Next PROVE Kept
        OBVIOUS
    <2>1. CASE Outside
        <3>1. ASSUME NEW u \in Users, NEW t \in Tokens, RegisterDevice(u, t)
              PROVE  Kept
            BY <3>1, NoneIsApart DEF RegisterDevice, IInv, Types, TablesOK
        <3>2. ASSUME NEW u \in Users, DeleteUser(u)
              PROVE  Kept
            BY <3>2 DEF DeleteUser
        <3>3. CASE UNCHANGED owner
            BY <3>3
        <3> QED BY <2>1, <3>1, <3>2, <3>3
                DEF Outside, Change, CooldownOver, SetMute, SetCameraMute, SetUserCameras,
                    PutNotificationRules, Uninstall, NextMinute, tables
    <2>2. ASSUME NEW d \in Dispatches, Prune(d)
          PROVE  Kept
        <3>1. PICK r \in stale[d] :
                \/ owner' = owner
                \/ gen[r.token] = r.gen /\ owner' = [owner EXCEPT ![r.token] = None]
            BY <2>2, PruneDoes DEF IInv, Types
        <3>2. gen[r.token] = r.gen => r.token \in dead
            BY DEF IInv, Reported
        <3> QED BY <3>1, <3>2 DEF IInv, Types, TablesOK
    <2>3. ASSUME NEW d \in Dispatches, Work(d), ~ Prune(d)
          PROVE  UNCHANGED owner
        BY <2>3 DEF Work, Dispatch, Start, ListDevices, ListFails, AskRule, ReadCooldown,
                    RecordCooldown, Deliver, DeliverFails, RuleUnread, tables
    <2> QED BY <2>1, <2>2, <2>3, NextIs DEF Recorded, Work
<1> QED BY <1>1, Invariance, PTL DEF Spec, DevicesAreKept
=============================================================================
