---------------------------- MODULE IngestProofs ----------------------------
(***************************************************************************)
(* Proofs about module Ingest, for any events, versions, handlers and any  *)
(* number of losses and stops.                                             *)
(*                                                                         *)
(* IInv says what a handler at work stands for: a message that was         *)
(* published and heard, and past its work one that was upserted or given   *)
(* up (Handling); and it counts the pushes done or yet to come of an event *)
(* against the deliveries of its first message (Counted).                  *)
(***************************************************************************)
EXTENDS Ingest, FiniteSetTheorems, TLAPS

Handling ==
    \A h \in Handlers :
        /\ handler[h].step # "idle" =>
             routed /\ handler[h].msg \in Published /\ handler[h].msg \notin unheard
        /\ handler[h].step = "warm" => row[Event(h)] # 0
        /\ handler[h].step = "push" => Version(h) = 1
        /\ handler[h].step \in {"warm", "push", "ack"} =>
             handler[h].msg \in applied \cup dropped

\* Handlers that push or may yet push an event.
Telling(e) ==
    {h \in Handlers : /\ handler[h].step \in {"start", "upsert", "warm", "push"}
                      /\ handler[h].msg = <<e, 1>>}

Told(e) == pushed[e] + Cardinality(Telling(e))

\* While the first message waits for its delivery, or for another after one that
\* reached no handler, one delivery less counts.
Counted ==
    \A e \in Events :
        /\ Told(e) <= 1 + again[e]
        /\ <<e, 1>> \in owed \cup unheard \/ published[e] = 0 => Told(e) <= again[e]

IInv == TypeOK /\ Handling /\ NothingIsLost /\ Counted

-----------------------------------------------------------------------------
(* Types and what handlers stand for.                                      *)

LEMMA InitIInv == Init => IInv
<1> USE IngestAssumption
<1> SUFFICES ASSUME Init PROVE IInv
    OBVIOUS
<1>1. Published = {}
    BY DEF Init, Published, Messages
<1>2. TypeOK
    BY <1>1 DEF Init, TypeOK, Idle
<1>3. Handling /\ NothingIsLost
    BY <1>1 DEF Init, Handling, NothingIsLost, Idle
<1>4. \A e \in Events : Telling(e) = {}
    BY DEF Init, Telling, Idle
<1>5. Counted
    <2>1. \A e \in Events : Told(e) = 0 /\ again[e] = 0
        BY <1>4, FS_EmptySet DEF Init, Told
    <2> QED BY <2>1 DEF Init, Counted
<1> QED BY <1>2, <1>3, <1>5 DEF IInv

\* A message is an event and a version.
LEMMA Parts ==
    ASSUME TypeOK, NEW m \in Published
    PROVE  /\ m \in Messages /\ m = <<m[1], m[2]>>
           /\ m[1] \in Events /\ m[2] \in 1 .. Last
           /\ m[2] <= published[m[1]]
BY DEF Published, Messages

LEMMA PublishTypes ==
    ASSUME IInv, NEW e \in Events, Publish(e)
    PROVE  TypeOK' /\ Handling' /\ NothingIsLost'
<1> USE IngestAssumption
<1> DEFINE n == published[e] + 1
<1>1. /\ n \in 1 .. Last /\ published' = [published EXCEPT ![e] = n]
      /\ owed' = owed \cup {<<e, n>>}
    BY DEF IInv, TypeOK, Publish
<1>2. <<e, n>> \notin flying /\ <<e, n>> \in Messages
    BY <1>1 DEF IInv, TypeOK, Published, Messages
<1>3. Published' = Published \cup {<<e, n>>}
    BY <1>1 DEF IInv, TypeOK, Published, Messages
<1> HIDE DEF n
<1>4. TypeOK'
    BY <1>1, <1>2, <1>3 DEF IInv, TypeOK, Publish, tables, prewarm, history, bounds
<1>5. Handling' /\ NothingIsLost'
    BY <1>1, <1>3 DEF IInv, Handling, NothingIsLost, Publish, tables, history, Event, Version
<1> QED BY <1>4, <1>5

LEMMA DeliverTypes ==
    ASSUME IInv, NEW m \in Messages, Deliver(m)
    PROVE  TypeOK' /\ Handling' /\ NothingIsLost'
<1>1. Published' = Published /\ m \in Published /\ m \notin unheard
    BY DEF Published, Deliver, IInv, TypeOK
<1>2. connected /\ gateway # "off"
    BY DEF IInv, TypeOK, Deliver
<1>3. CASE routed
    <2>1. PICK h \in Free :
            handler' = [handler EXCEPT ![h] = [step |-> "start", msg |-> m, fresh |-> TRUE]]
        BY <1>3 DEF Deliver
    <2>2. h \in Handlers /\ unheard' = unheard
        BY <1>3, <2>1 DEF Free, Deliver
    <2>3. TypeOK'
        BY <1>1, <1>2, <2>1, <2>2 DEF IInv, TypeOK, Deliver, tables, prewarm, bounds
    <2>4. Handling'
        BY <1>1, <1>3, <2>1, <2>2 DEF IInv, TypeOK, Handling, Deliver, tables, Event, Version
    <2>5. NothingIsLost'
        BY <1>1 DEF IInv, NothingIsLost, Deliver
    <2> QED BY <2>3, <2>4, <2>5
<1>4. CASE ~ routed
    <2>1. handler' = handler /\ unheard' = unheard \cup {m}
        BY <1>4 DEF Deliver
    <2>2. TypeOK'
        BY <1>1, <1>2, <2>1 DEF IInv, TypeOK, Deliver, tables, prewarm, bounds
    <2>3. Handling'
        BY <1>1, <1>4, <2>1 DEF IInv, Handling, Deliver, tables, Event, Version
    <2>4. NothingIsLost'
        BY <1>1 DEF IInv, NothingIsLost, Deliver
    <2> QED BY <2>2, <2>3, <2>4
<1> QED BY <1>3, <1>4

\* A step of a handler leaves what is published alone, and its own record a
\* record.
LEMMA HandlerStepTypes ==
    ASSUME IInv, NEW h \in Handlers, HandlerStep(h)
    PROVE  TypeOK' /\ Handling' /\ NothingIsLost'
<1> USE IngestAssumption DEF broker, tables, prewarm, history, bounds
<1>1. Published' = Published
    BY DEF Published, HandlerStep, Handle, Upsert, UpsertFails, GoPrewarm, SendToAll, Ack
<1>2. /\ handler[h] \in [step : {"idle", "start", "upsert", "warm", "push", "ack"},
                         msg : Messages \cup {None}, fresh : BOOLEAN]
      /\ handler[h].step # "idle" /\ gateway # "off"
    BY DEF IInv, TypeOK, HandlerStep, Handle, Upsert, UpsertFails, GoPrewarm, SendToAll, Ack, Idle
<1>3. handler[h].msg \in Published /\ handler[h].msg \notin unheard /\ routed
    BY <1>2 DEF IInv, Handling
<1>4. /\ handler[h].msg = <<Event(h), Version(h)>>
      /\ Event(h) \in Events /\ Version(h) \in 1 .. Last
    BY <1>3, Parts DEF IInv, Event, Version
<1>5. CASE Handle(h)
    <2>1. TypeOK'
        BY <1>1, <1>2, <1>3, <1>5 DEF IInv, TypeOK, Handle, Go
    <2>2. Handling' /\ NothingIsLost'
        BY <1>1, <1>2, <1>3, <1>5
        DEF IInv, TypeOK, Handling, NothingIsLost, Handle, Go, Event, Version
    <2> QED BY <2>1, <2>2
<1>6. CASE Upsert(h)
    <2>1. TypeOK'
        BY <1>1, <1>2, <1>3, <1>4, <1>6 DEF IInv, TypeOK, Upsert, Go, PushOrAck
    <2>2. Handling' /\ NothingIsLost'
        BY <1>1, <1>2, <1>3, <1>4, <1>6
        DEF IInv, TypeOK, Handling, NothingIsLost, Upsert, Go, Event, Version,
            PushOrAck, Created
    <2> QED BY <2>1, <2>2
<1>7. CASE UpsertFails(h)
    <2>1. TypeOK'
        BY <1>1, <1>2, <1>3, <1>7 DEF IInv, TypeOK, UpsertFails, Go
    <2>2. Handling' /\ NothingIsLost'
        BY <1>1, <1>2, <1>3, <1>7
        DEF IInv, TypeOK, Handling, NothingIsLost, UpsertFails, Go, Event, Version
    <2> QED BY <2>1, <2>2
<1>8. CASE SendToAll(h)
    <2>1. TypeOK'
        BY <1>1, <1>2, <1>3, <1>4, <1>8 DEF IInv, TypeOK, SendToAll, Go
    <2>2. Handling' /\ NothingIsLost'
        BY <1>1, <1>2, <1>3, <1>8
        DEF IInv, TypeOK, Handling, NothingIsLost, SendToAll, Go, Event, Version
    <2> QED BY <2>1, <2>2
<1>9. CASE Ack(h)
    <2>1. TypeOK'
        BY <1>1, <1>2, <1>3, <1>9 DEF IInv, TypeOK, Ack, Idle
    <2>2. Handling'
        BY <1>1, <1>9 DEF IInv, TypeOK, Handling, Ack, Idle, Event, Version
    <2>3. handler[h].msg \in applied \cup dropped
        BY <1>9 DEF IInv, Handling, Ack
    <2>4. NothingIsLost'
        BY <1>1, <1>9, <2>3 DEF IInv, NothingIsLost, Ack
    <2> QED BY <2>1, <2>2, <2>4
<1>10. CASE GoPrewarm(h)
    <2>1. row[Event(h)] # 0
        BY <1>10 DEF IInv, Handling, GoPrewarm
    <2>2. TypeOK'
        BY <1>1, <1>2, <1>3, <1>4, <1>10, <2>1 DEF IInv, TypeOK, GoPrewarm, Go, PushOrAck
    <2>3. Handling' /\ NothingIsLost'
        BY <1>1, <1>2, <1>3, <1>10
        DEF IInv, TypeOK, Handling, NothingIsLost, GoPrewarm, Go, Event, Version,
            PushOrAck, Created
    <2> QED BY <2>2, <2>3
<1> QED BY <1>5, <1>6, <1>7, <1>8, <1>9, <1>10 DEF HandlerStep

\* The end of a connection owes again what was in flight, and loses nothing.
LEMMA EndTypes ==
    ASSUME IInv, EndOfConnection, UNCHANGED dropped,
           gateway' \in {"on", "stopping", "off"},
           handler' \in [Handlers -> [step : {"idle", "start", "upsert", "warm", "push", "ack"},
                                      msg : Messages \cup {None}, fresh : BOOLEAN]],
           \A h \in Handlers :
             \/ handler'[h] = Idle
             \/ /\ gateway' # "off" /\ handler'[h].step = handler[h].step
                /\ handler'[h].msg = handler[h].msg /\ routed' = routed,
           routed' \in BOOLEAN, warming' \subseteq warming, cut' \subseteq cut \cup warming,
           gateway' = "off" => ~ routed' /\ warming' = {},
           losses' \in 0 .. MaxLosses, stops' \in 0 .. MaxStops
    PROVE  TypeOK' /\ Handling' /\ NothingIsLost'
<1>1. Published' = Published
    BY DEF Published, EndOfConnection
<1>2. again' \in [Events -> Nat]
    BY DEF EndOfConnection, IInv, TypeOK
<1>3. TypeOK'
    BY <1>1, <1>2 DEF IInv, TypeOK, EndOfConnection, tables
<1>4. Handling'
    BY <1>1 DEF IInv, Handling, EndOfConnection, tables, Idle, Event, Version
<1>5. NothingIsLost'
    BY <1>1 DEF IInv, NothingIsLost, EndOfConnection
<1> QED BY <1>3, <1>4, <1>5

\* What the process and people do to a gateway that keeps its connection.
LEMMA OtherTypes ==
    ASSUME IInv, \/ Connect \/ Subscribe \/ Stop \/ Start
                 \/ \E e \in Events : PrewarmEnds(e) \/ SetEventKeep(e)
    PROVE  TypeOK' /\ Handling' /\ NothingIsLost'
<1> USE IngestAssumption DEF broker, tables, prewarm, history, bounds
<1>1. UNCHANGED <<published, owed, flying, handler, row, applied, dropped, again,
                  unheard, cut, pushed>>
    BY DEF Connect, Subscribe, Stop, Start, PrewarmEnds, SetEventKeep
<1>2. Published' = Published
    BY <1>1 DEF Published
<1>3. /\ keep' \cup warming' \cup prewarmed' \subseteq {e \in Events : row'[e] # 0}
      /\ warming' \subseteq warming
    BY <1>1 DEF IInv, TypeOK, Connect, Subscribe, Stop, Start, PrewarmEnds, SetEventKeep
<1>4. /\ gateway' \in {"on", "stopping", "off"} /\ connected' \in BOOLEAN
      /\ connected' => gateway' # "off"
      /\ routed' \in BOOLEAN /\ (routed => routed')
      /\ gateway' = "off" => ~ routed' /\ warming' = {} /\ \A h \in Handlers : handler[h] = Idle
      /\ losses' \in 0 .. MaxLosses /\ stops' \in 0 .. MaxStops
    <2>1. CASE Connect
        BY <2>1 DEF IInv, TypeOK, Connect
    <2>2. CASE Subscribe
        BY <2>2 DEF IInv, TypeOK, Subscribe
    <2>3. CASE Stop
        BY <2>3 DEF IInv, TypeOK, Stop
    <2>4. CASE Start
        BY <2>4 DEF IInv, TypeOK, Start
    <2>5. CASE \E e \in Events : PrewarmEnds(e)
        BY <2>5 DEF IInv, TypeOK, PrewarmEnds
    <2>6. CASE \E e \in Events : SetEventKeep(e)
        BY <2>6 DEF IInv, TypeOK, SetEventKeep
    <2> QED BY <2>1, <2>2, <2>3, <2>4, <2>5, <2>6
<1>5. TypeOK'
    BY <1>1, <1>2, <1>3, <1>4 DEF IInv, TypeOK
<1>6. Handling' /\ NothingIsLost'
    BY <1>1, <1>2, <1>4 DEF IInv, Handling, NothingIsLost, Event, Version
<1> QED BY <1>5, <1>6

LEMMA TypesNext ==
    ASSUME IInv, Next
    PROVE  TypeOK' /\ Handling' /\ NothingIsLost'
<1> USE IngestAssumption
<1>1. ASSUME ConnectionLost PROVE TypeOK' /\ Handling' /\ NothingIsLost'
    <2>1. /\ EndOfConnection /\ dropped' = dropped
          /\ gateway' # "off" /\ gateway' \in {"on", "stopping", "off"}
          /\ UNCHANGED <<routed, warming, cut>> /\ routed' \in BOOLEAN
          /\ losses' \in 0 .. MaxLosses /\ stops' \in 0 .. MaxStops
        BY <1>1 DEF ConnectionLost, IInv, TypeOK
    <2>2. /\ handler' \in [Handlers -> [step : {"idle", "start", "upsert", "warm", "push", "ack"},
                                      msg : Messages \cup {None}, fresh : BOOLEAN]]
          /\ \A h \in Handlers : /\ handler'[h].step = handler[h].step
                                  /\ handler'[h].msg = handler[h].msg
        BY <1>1 DEF ConnectionLost, IInv, TypeOK
    <2> QED BY <2>1, <2>2, EndTypes
<1>2. ASSUME Exit \/ Crash PROVE TypeOK' /\ Handling' /\ NothingIsLost'
    <2>1. /\ EndOfConnection /\ gateway' = "off" /\ dropped' = dropped
          /\ handler' = [h \in Handlers |-> Idle]
          /\ routed' = FALSE /\ warming' = {} /\ cut' \subseteq cut \cup warming
          /\ losses' \in 0 .. MaxLosses /\ stops' \in 0 .. MaxStops
        <3>1. Halt /\ dropped' = dropped
            BY <1>2 DEF Exit, Crash
        <3>2. losses' \in 0 .. MaxLosses /\ stops' \in 0 .. MaxStops
            BY <1>2 DEF Exit, Crash, bounds, IInv, TypeOK
        <3>3. cut' \subseteq cut \cup warming
            BY <3>1 DEF Halt
        <3> QED BY <3>1, <3>2, <3>3 DEF Halt
    <2>2. handler' \in [Handlers -> [step : {"idle", "start", "upsert", "warm", "push", "ack"},
                                     msg : Messages \cup {None}, fresh : BOOLEAN]]
        BY <2>1 DEF Idle
    <2>3. \A h \in Handlers :
             \/ handler'[h] = Idle
             \/ /\ gateway' # "off" /\ handler'[h].step = handler[h].step
                /\ handler'[h].msg = handler[h].msg /\ routed' = routed
        BY <2>1
    <2>4. /\ UNCHANGED dropped /\ gateway' \in {"on", "stopping", "off"}
          /\ routed' \in BOOLEAN /\ warming' \subseteq warming
          /\ gateway' = "off" => ~ routed' /\ warming' = {}
        BY <2>1
    <2> QED BY <2>1, <2>2, <2>3, <2>4, EndTypes
<1> QED BY <1>1, <1>2, PublishTypes, DeliverTypes, HandlerStepTypes, OtherTypes DEF Next

-----------------------------------------------------------------------------
(* Counting pushes.                                                        *)

LEMMA TellingIsFinite ==
    ASSUME NEW e
    PROVE  /\ IsFiniteSet(Telling(e)) /\ Cardinality(Telling(e)) \in Nat
           /\ IsFiniteSet(Telling(e)') /\ Cardinality(Telling(e)') \in Nat
<1>1. Telling(e) \in SUBSET Handlers /\ Telling(e)' \in SUBSET Handlers
    BY DEF Telling
<1>2. \A S \in SUBSET Handlers : IsFiniteSet(S) /\ Cardinality(S) \in Nat
    BY IngestAssumption, FS_Subset, FS_CardinalityType
<1> QED BY <1>1, <1>2

\* A handler that works on the first message of an event tells no other.
LEMMA StartTelling ==
    ASSUME IInv, NEW m \in Messages, Deliver(m), routed, NEW e \in Events
    PROVE  Told(e)' <= Told(e) + (IF m = <<e, 1>> THEN 1 ELSE 0)
<1>1. PICK h \in Free :
        handler' = [handler EXCEPT ![h] = [step |-> "start", msg |-> m, fresh |-> TRUE]]
    BY DEF Deliver
<1>2. h \in Handlers
    BY <1>1 DEF Free
<1>3. Telling(e)' \subseteq IF m = <<e, 1>> THEN Telling(e) \cup {h} ELSE Telling(e)
    BY <1>1, <1>2 DEF Telling, IInv, TypeOK
<1>4. IsFiniteSet(Telling(e)) /\ Cardinality(Telling(e)) \in Nat /\ Cardinality(Telling(e)') \in Nat
    BY TellingIsFinite
<1>5. Cardinality(Telling(e)') <= Cardinality(Telling(e)) + (IF m = <<e, 1>> THEN 1 ELSE 0)
    <2> DEFINE T == Telling(e)
               N == Telling(e)'
    <2>1. IsFiniteSet(T) /\ Cardinality(T) \in Nat /\ Cardinality(N) \in Nat
        BY <1>4
    <2>2. N \subseteq IF m = <<e, 1>> THEN T \cup {h} ELSE T
        BY <1>3
    <2> HIDE DEF T, N
    <2>3. /\ IsFiniteSet(T \cup {h})
          /\ Cardinality(T \cup {h}) = IF h \in T THEN Cardinality(T) ELSE Cardinality(T) + 1
        BY <2>1, FS_AddElement, Zenon
    <2>4. CASE m = <<e, 1>>
        <3>1. Cardinality(N) <= Cardinality(T \cup {h}) /\ Cardinality(T \cup {h}) \in Nat
            BY <2>2, <2>3, <2>4, FS_Subset, FS_CardinalityType
        <3> QED BY <2>1, <2>3, <2>4, <3>1 DEF T, N
    <2>5. CASE m # <<e, 1>>
        <3>1. Cardinality(N) <= Cardinality(T)
            BY <2>1, <2>2, <2>5, FS_Subset
        <3> QED BY <2>1, <2>5, <3>1 DEF T, N
    <2> QED BY <2>4, <2>5
<1>6. pushed' = pushed /\ pushed[e] \in Nat
    BY DEF Deliver, IInv, TypeOK
<1> QED BY <1>4, <1>5, <1>6 DEF Told

\* A step that gives no handler new work and pushes nothing.
LEMMA NoMoreTold ==
    ASSUME IInv, NEW e \in Events, Telling(e)' \subseteq Telling(e), pushed'[e] = pushed[e]
    PROVE  Told(e)' <= Told(e)
<1>1. /\ IsFiniteSet(Telling(e)) /\ Cardinality(Telling(e)) \in Nat
      /\ Cardinality(Telling(e)') \in Nat
    BY TellingIsFinite
<1>2. Cardinality(Telling(e)') <= Cardinality(Telling(e))
    BY <1>1, FS_Subset
<1>3. pushed[e] \in Nat
    BY DEF IInv, TypeOK
<1> QED BY <1>1, <1>2, <1>3 DEF Told

\* The push that is done is one less to come.
LEMMA HandlerTold ==
    ASSUME IInv, NEW h \in Handlers, HandlerStep(h), NEW e \in Events
    PROVE  Told(e)' <= Told(e)
<1> USE DEF broker, tables, prewarm, history, bounds
<1>1. CASE pushed'[e] = pushed[e]
    <2>1. Telling(e)' \subseteq Telling(e)
        BY DEF Telling, HandlerStep, Handle, Upsert, UpsertFails, GoPrewarm, SendToAll, Ack, Go, Idle,
               PushOrAck, IInv, TypeOK
    <2> QED BY <1>1, <2>1, NoMoreTold
<1>2. CASE pushed'[e] # pushed[e]
    <2>1. /\ handler[h].step = "push" /\ pushed' = [pushed EXCEPT ![Event(h)] = @ + 1]
          /\ Go(h, "ack")
        BY <1>2 DEF HandlerStep, Handle, Upsert, UpsertFails, GoPrewarm, SendToAll, Ack
    <2>2. Event(h) = e /\ pushed'[e] = pushed[e] + 1 /\ pushed[e] \in Nat
        BY <1>2, <2>1 DEF IInv, TypeOK
    <2>3. handler[h].msg = <<e, 1>>
        <3>1. handler[h].msg \in Published /\ Version(h) = 1
            BY <2>1 DEF IInv, Handling
        <3> QED BY <2>2, <3>1, Parts DEF IInv, Event, Version
    <2>4. h \in Telling(e) /\ Telling(e)' \subseteq Telling(e) \ {h}
        BY <2>1, <2>3 DEF Telling, Go, IInv, TypeOK
    <2>5. /\ IsFiniteSet(Telling(e)) /\ Cardinality(Telling(e)) \in Nat
          /\ Cardinality(Telling(e)') \in Nat
        BY TellingIsFinite
    <2>6. /\ IsFiniteSet(Telling(e) \ {h})
          /\ Cardinality(Telling(e) \ {h}) = Cardinality(Telling(e)) - 1
        BY <2>4, <2>5, FS_RemoveElement
    <2>7. Cardinality(Telling(e)') <= Cardinality(Telling(e)) - 1
        BY <2>4, <2>6, FS_Subset
    <2> QED BY <2>2, <2>5, <2>7 DEF Told
<1> QED BY <1>1, <1>2

LEMMA CountedNext ==
    ASSUME IInv, Next
    PROVE  Counted'
<1> USE DEF broker, tables, prewarm, history, bounds
<1> SUFFICES ASSUME NEW e \in Events
             PROVE  /\ Told(e)' <= 1 + again'[e]
                    /\ <<e, 1>> \in owed' \cup unheard' \/ published'[e] = 0 => Told(e)' <= again'[e]
    BY DEF Counted
<1> DEFINE m1 == <<e, 1>>
<1>0. /\ pushed[e] \in Nat /\ again[e] \in Nat /\ Told(e) \in Nat
      /\ Told(e) <= 1 + again[e]
      /\ m1 \in owed \cup unheard \/ published[e] = 0 => Told(e) <= again[e]
      /\ m1 \in flying => m1 \notin owed /\ published[e] # 0
      /\ unheard \subseteq flying
      /\ m1 \in owed => published[e] # 0
    <2>1. pushed[e] \in Nat /\ again[e] \in Nat /\ owed \cap flying = {}
          /\ unheard \subseteq flying
        BY DEF IInv, TypeOK
    <2>2. Told(e) \in Nat
        BY <2>1, TellingIsFinite DEF Told
    <2>3. m1 \in owed \cup flying => published[e] # 0
        BY IngestAssumption DEF IInv, TypeOK, Published, Messages
    <2> QED BY <2>1, <2>2, <2>3 DEF IInv, Counted
<1>t. Told(e)' \in Nat
    <2>1. pushed'[e] \in Nat
        BY TypesNext DEF TypeOK
    <2> QED BY <2>1, TellingIsFinite DEF Told
<1>1. ASSUME NEW x \in Events, Publish(x)
      PROVE  /\ Told(e)' <= 1 + again'[e]
             /\ m1 \in owed' \cup unheard' \/ published'[e] = 0 => Told(e)' <= again'[e]
    <2>1. Told(e)' = Told(e) /\ again' = again /\ unheard' = unheard
        BY <1>1 DEF Publish, Told, Telling
    <2>2. m1 \in owed' \/ published'[e] = 0 => m1 \in owed \/ published[e] = 0
        BY <1>1 DEF Publish, IInv, TypeOK
    <2> QED BY <1>0, <2>1, <2>2
<1>2. ASSUME NEW m \in Messages, Deliver(m)
      PROVE  /\ Told(e)' <= 1 + again'[e]
             /\ m1 \in owed' \cup unheard' \/ published'[e] = 0 => Told(e)' <= again'[e]
    <2>1. /\ again' = again /\ published' = published /\ owed' = owed \ {m} /\ m \in owed
        BY <1>2 DEF Deliver
    <2>2. m = m1 => published[e] # 0
        BY <1>0, <2>1
    <2>3. CASE routed
        <3>1. Told(e)' <= Told(e) + (IF m = m1 THEN 1 ELSE 0) /\ unheard' = unheard
            BY <1>2, <2>3, StartTelling DEF Deliver
        <3> QED BY <1>0, <1>t, <2>1, <2>2, <3>1
    <2>4. CASE ~ routed
        <3>1. Told(e)' = Told(e) /\ unheard' = unheard \cup {m}
            BY <1>2, <2>4 DEF Deliver, Told, Telling
        <3> QED BY <1>0, <2>1, <2>2, <3>1
    <2> QED BY <2>3, <2>4
<1>3. ASSUME NEW h \in Handlers, HandlerStep(h)
      PROVE  /\ Told(e)' <= 1 + again'[e]
             /\ m1 \in owed' \cup unheard' \/ published'[e] = 0 => Told(e)' <= again'[e]
    <2>1. UNCHANGED <<again, published, owed, unheard>>
        BY <1>3 DEF HandlerStep, Handle, Upsert, UpsertFails, GoPrewarm, SendToAll, Ack
    <2>2. Told(e)' <= Told(e)
        BY <1>3, HandlerTold
    <2> QED BY <1>0, <1>t, <2>1, <2>2
<1>4. ASSUME ConnectionLost \/ Exit \/ Crash
      PROVE  /\ Told(e)' <= 1 + again'[e]
             /\ m1 \in owed' \cup unheard' \/ published'[e] = 0 => Told(e)' <= again'[e]
    <2>1. /\ EndOfConnection
          /\ \A h \in Handlers : handler'[h] = Idle \/
               (handler'[h].step = handler[h].step /\ handler'[h].msg = handler[h].msg)
        BY <1>4 DEF ConnectionLost, Exit, Crash, Halt, IInv, TypeOK
    <2>2. pushed' = pushed /\ published' = published /\ owed' = owed \cup flying
          /\ unheard' = {}
          /\ again'[e] = again[e] + IF m1 \in flying \ unheard THEN 1 ELSE 0
        BY <2>1 DEF EndOfConnection
    <2>3. Telling(e)' \subseteq Telling(e)
        BY <2>1 DEF Telling, Idle
    <2>4. Told(e)' <= Told(e)
        BY <2>2, <2>3, NoMoreTold
    <2> QED BY <1>0, <1>t, <2>2, <2>4
<1>5. ASSUME \/ Connect \/ Subscribe \/ Stop \/ Start
             \/ \E x \in Events : PrewarmEnds(x) \/ SetEventKeep(x)
      PROVE  /\ Told(e)' <= 1 + again'[e]
             /\ m1 \in owed' \cup unheard' \/ published'[e] = 0 => Told(e)' <= again'[e]
    <2>1. UNCHANGED <<pushed, handler, again, published, owed, unheard>>
        BY <1>5 DEF Connect, Subscribe, Stop, Start, PrewarmEnds, SetEventKeep
    <2> QED BY <1>0, <2>1 DEF Told, Telling
<1> QED BY <1>1, <1>2, <1>3, <1>4, <1>5 DEF Next

-----------------------------------------------------------------------------
(* The theorems.                                                           *)

LEMMA StutterIInv == IInv /\ UNCHANGED vars => IInv'
<1> SUFFICES ASSUME IInv, UNCHANGED vars PROVE IInv'
    OBVIOUS
<1> USE DEF IInv, vars, broker, tables, prewarm, history, bounds
<1>1. Published' = Published
    BY DEF Published
<1>2. TypeOK' /\ Handling' /\ NothingIsLost'
    BY <1>1 DEF TypeOK, Handling, Event, Version, NothingIsLost
<1>3. \A e : Told(e)' = Told(e)
    BY DEF Told, Telling
<1> QED BY <1>2, <1>3 DEF Counted

LEMMA NextIInv == IInv /\ [Next]_vars => IInv'
BY TypesNext, CountedNext, StutterIInv DEF IInv

\* The inductive invariant: what handlers stand for, and how many pushes are to
\* come.
THEOREM Invariance == Spec => []IInv
BY InitIInv, NextIInv, PTL DEF Spec

\* Broker, gateway and tables keep their types.
THEOREM TypeCorrect == Spec => []TypeOK
<1>1. IInv => TypeOK
    BY DEF IInv
<1> QED BY <1>1, Invariance, PTL

\* Subscriber.handle and eventDispatcher: no message is acknowledged that was
\* not upserted, failed upserts and orderly stops apart.
THEOREM WhatIsAckedIsStored == Spec => []NothingIsLost
<1>1. IInv => NothingIsLost
    BY DEF IInv
<1> QED BY <1>1, Invariance, PTL

\* Store.Upsert's "created": an event is pushed at most once for each delivery
\* of its first message.
THEOREM ToldOnce == Spec => []ToldOncePerDelivery
<1>1. IInv => ToldOncePerDelivery
    <2> SUFFICES ASSUME IInv, NEW e \in Events PROVE pushed[e] <= 1 + again[e]
        BY DEF ToldOncePerDelivery
    <2>1. Told(e) <= 1 + again[e] /\ pushed[e] \in Nat /\ again[e] \in Nat
        BY DEF IInv, Counted, TypeOK
    <2>2. Cardinality(Telling(e)) \in Nat
        BY TellingIsFinite
    <2> QED BY <2>1, <2>2 DEF Told
<1> QED BY <1>1, Invariance, PTL
=============================================================================
