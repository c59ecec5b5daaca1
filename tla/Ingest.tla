------------------------------- MODULE Ingest -------------------------------
(***************************************************************************)
(* From Frigate's MQTT messages to rows and pushes: Subscriber             *)
(* (internal/mqtt/subscriber.go), eventDispatcher (cmd/gateway/main.go)    *)
(* and Store.Upsert (internal/events/store.go).                            *)
(*                                                                         *)
(* The subscription has QoS 1 and a session that outlives connections: the *)
(* broker delivers a message until it is acknowledged.  Messages are       *)
(* handled at the same time and in no particular order                     *)
(* (SetOrderMatters(false)); a message is acknowledged when its handler    *)
(* returns.  Connections break, and the gateway crashes or is stopped.     *)
(*                                                                         *)
(* The client knows what to do with a message from its first Subscribe on: *)
(* that adds the only route.  A gateway that starts connects first, and    *)
(* what the broker delivers in between reaches no handler and is not       *)
(* acknowledged: it waits for the connection to break.                     *)
(*                                                                         *)
(* An event has versions 1 ("new") to Last ("end"), one message each.      *)
(* SendToAll and the prewarm are taken up where they are called; Push and  *)
(* Clips model what becomes of them.  A prewarm is a goroutine of its own  *)
(* and ends with the process.                                              *)
(***************************************************************************)
EXTENDS Naturals, FiniteSets

CONSTANTS
    Events,
    Last,           \* the version that ends an event; the first begins it
    Handlers,       \* bound: messages handled at a time
    MaxLosses,      \* bound: broken connections, crashes and upserts that fail on a
                    \* gateway that runs
    MaxStops,       \* bound: orderly stops of the gateway
    None

ASSUME IngestAssumption ==
    /\ Last \in Nat /\ Last > 1
    /\ MaxLosses \in Nat /\ MaxStops \in Nat
    /\ None \notin Events \X (1 .. Last)
    /\ IsFiniteSet(Handlers)

Messages == Events \X (1 .. Last)

VARIABLES       \* Frigate and the broker
    published,  \* the last version published of an event
    owed,       \* messages the session has yet to deliver
    flying      \* messages delivered on this connection, not acknowledged

VARIABLES       \* the gateway
    gateway,    \* "on", "stopping" (its context is cancelled) or "off"
    connected,
    routed,     \* this process has subscribed: messages have a handler
    handler,    \* [step, msg, fresh]: fresh, it came over this connection
    row,        \* events: the version a row holds, 0 where there is none
    keep,       \* events.keep_clip
    pushed,     \* calls of SendToAll for an event
    warming,    \* events whose prewarm is at work
    prewarmed   \* events whose prewarm came to its end

VARIABLES       \* history and bounds
    applied,    \* messages upserted
    dropped,    \* messages whose handler gave up on them or on their push
    again,      \* times an event's first message was handled, or about to be, but
                \* not acknowledged
    unheard,    \* messages delivered on this connection that had no handler
    cut,        \* events whose prewarm ended with the process, their last message
                \* acknowledged
    losses, stops

broker == <<published, owed, flying>>
tables == <<row, keep>>
prewarm == <<warming, prewarmed>>
history == <<again, unheard, cut>>
bounds == <<losses, stops>>
vars == <<broker, gateway, connected, routed, handler, tables, pushed, prewarm,
          applied, dropped, history, bounds>>

Idle == [step |-> "idle", msg |-> None, fresh |-> FALSE]

Published == {m \in Messages : m[2] <= published[m[1]]}

TypeOK ==
    /\ published \in [Events -> 0 .. Last]
    /\ owed \cup flying \cup applied \cup dropped \subseteq Published
    /\ owed \cap flying = {}
    /\ gateway \in {"on", "stopping", "off"}
    /\ connected \in BOOLEAN
    /\ connected => gateway # "off"
    /\ routed \in BOOLEAN
    /\ unheard \subseteq flying
    /\ handler \in [Handlers -> [step : {"idle", "start", "upsert", "warm", "push", "ack"},
                                 msg : Messages \cup {None}, fresh : BOOLEAN]]
    /\ gateway = "off" => /\ ~ routed /\ warming = {}
                          /\ \A h \in Handlers : handler[h] = Idle
    /\ row \in [Events -> 0 .. Last]
    /\ \A e \in Events : row[e] # 0 => <<e, row[e]>> \in applied
    /\ keep \cup warming \cup prewarmed \cup cut \subseteq {e \in Events : row[e] # 0}
    /\ pushed \in [Events -> Nat] /\ again \in [Events -> Nat]
    /\ losses \in 0 .. MaxLosses /\ stops \in 0 .. MaxStops

Init ==
    /\ published = [e \in Events |-> 0]
    /\ owed = {} /\ flying = {}
    /\ gateway = "on" /\ connected = TRUE /\ routed = TRUE
    /\ handler = [h \in Handlers |-> Idle]
    /\ row = [e \in Events |-> 0] /\ keep = {}
    /\ pushed = [e \in Events |-> 0] /\ warming = {} /\ prewarmed = {}
    /\ applied = {} /\ dropped = {}
    /\ again = [e \in Events |-> 0] /\ unheard = {} /\ cut = {}
    /\ losses = 0 /\ stops = 0

-----------------------------------------------------------------------------
(* Frigate and the broker.                                                 *)

Publish(e) ==
    /\ published[e] < Last
    /\ published' = [published EXCEPT ![e] = @ + 1]
    /\ owed' = owed \cup {<<e, published'[e]>>}
    /\ UNCHANGED <<flying, gateway, connected, routed, handler, tables, pushed, prewarm,
                   applied, dropped, history, bounds>>

\* The client starts a goroutine per message; which one is all the same.
Free == LET idle == {h \in Handlers : handler[h].step = "idle"} IN
        IF idle = {} THEN {} ELSE {CHOOSE h \in idle : TRUE}

\* To a handler, or before this process has subscribed to none: that message counts
\* as in flight until the connection ends.
Deliver(m) ==
    /\ connected /\ m \in owed
    /\ owed' = owed \ {m}
    /\ flying' = flying \cup {m}
    /\ \/ /\ routed
          /\ \E h \in Free :
               handler' = [handler EXCEPT ![h] = [step |-> "start", msg |-> m, fresh |-> TRUE]]
          /\ UNCHANGED unheard
       \/ /\ ~ routed
          /\ unheard' = unheard \cup {m}
          /\ UNCHANGED handler
    /\ UNCHANGED <<published, gateway, connected, routed, tables, pushed, prewarm,
                   applied, dropped, again, cut, bounds>>

\* What is not acknowledged by the end of the connection is owed again.
EndOfConnection ==
    /\ connected' = FALSE
    /\ owed' = owed \cup flying /\ flying' = {}
    /\ again' = [e \in Events |-> again[e] + IF <<e, 1>> \in flying \ unheard THEN 1 ELSE 0]
    /\ unheard' = {}
    /\ UNCHANGED <<published, tables, pushed, prewarmed, applied>>

\* The handlers at work go on, and the client keeps its route.
ConnectionLost ==
    /\ connected /\ losses < MaxLosses
    /\ losses' = losses + 1
    /\ EndOfConnection
    /\ handler' = [h \in Handlers |-> [handler[h] EXCEPT !.fresh = FALSE]]
    /\ UNCHANGED <<gateway, routed, warming, dropped, cut, stops>>

\* The client connects; the broker knows the session and its subscription, and may
\* deliver at once.
Connect ==
    /\ gateway = "on" /\ ~ connected
    /\ connected' = TRUE
    /\ UNCHANGED <<broker, gateway, routed, handler, tables, pushed, prewarm, applied,
                   dropped, history, bounds>>

\* OnConnect, in a goroutine of its own, subscribes: the first time it gives the
\* client its route, later it changes nothing here.  It fails when the connection is
\* lost before; that is logged, and the next connection's OnConnect subscribes.
Subscribe ==
    /\ connected /\ ~ routed
    /\ routed' = TRUE
    /\ UNCHANGED <<broker, gateway, connected, handler, tables, pushed, prewarm, applied,
                   dropped, history, bounds>>

-----------------------------------------------------------------------------
(* The handler of a message.                                               *)

Event(h) == handler[h].msg[1]
Version(h) == handler[h].msg[2]
Go(h, step) == handler' = [handler EXCEPT ![h].step = step]

\* Mutant: acknowledged on arrival.
M_Handle(h) ==
    /\ handler[h].step = "start"
    /\ flying' = flying \ {handler[h].msg}
    /\ \/ gateway = "on" /\ Go(h, "upsert") /\ UNCHANGED dropped
       \/ /\ gateway = "stopping" /\ Go(h, "ack")
          /\ dropped' = dropped \cup {handler[h].msg}
    /\ UNCHANGED <<published, owed, gateway, connected, routed, tables, pushed, prewarm,
                   applied, history, bounds>>

\* Subscriber.handle: on a gateway that stops the handler returns, and the message
\* counts as handled.
Handle(h) ==
    /\ handler[h].step = "start"
    /\ \/ gateway = "on" /\ Go(h, "upsert") /\ UNCHANGED dropped
       \/ /\ gateway = "stopping" /\ Go(h, "ack")
          /\ dropped' = dropped \cup {handler[h].msg}
    /\ UNCHANGED <<broker, gateway, connected, routed, tables, pushed, prewarm,
                   applied, history, bounds>>

\* Mutant: "created" when there was no row.
M_Created(h) == Version(h) = 1 /\ row[Event(h)] = 0

\* Mutant: "created" whenever a row was written.
M_Created_Any(h) == TRUE

\* Upsert reports the phase "new" and a row written, inserted or updated.
Created(h) == Version(h) = 1

\* Mutant: only a message that created the event goes on to the rest.
M_Prewarms(h) == Version(h) = Last /\ Created(h)

\* The end of an event with a clip: its clip is prewarmed.
Prewarms(h) == Version(h) = Last

PushOrAck(h) == IF Created(h) THEN "push" ELSE "ack"

\* INSERT .. ON CONFLICT DO UPDATE: whichever version comes last stays, older or
\* not; keep_clip is left alone.
Upsert(h) ==
    /\ handler[h].step = "upsert"
    /\ row' = [row EXCEPT ![Event(h)] = Version(h)]
    /\ applied' = applied \cup {handler[h].msg}
    /\ Go(h, IF Prewarms(h) THEN "warm" ELSE PushOrAck(h))
    /\ UNCHANGED <<broker, gateway, connected, routed, keep, pushed, prewarm, dropped,
                   history, bounds>>

\* The statement fails, as it does once the context is cancelled: logged, and the
\* message counts as handled.
UpsertFails(h) ==
    /\ handler[h].step = "upsert"
    /\ \/ gateway = "stopping" /\ UNCHANGED losses
       \/ gateway = "on" /\ losses < MaxLosses /\ losses' = losses + 1
    /\ dropped' = dropped \cup {handler[h].msg}
    /\ Go(h, "ack")
    /\ UNCHANGED <<broker, gateway, connected, routed, tables, pushed, prewarm, applied,
                   history, stops>>

\* go prewarmClip; the handler does not wait for it.
GoPrewarm(h) ==
    /\ handler[h].step = "warm"
    /\ warming' = warming \cup {Event(h)}
    /\ Go(h, PushOrAck(h))
    /\ UNCHANGED <<broker, gateway, connected, routed, tables, pushed, prewarmed, applied,
                   dropped, history, bounds>>

SendToAll(h) ==
    /\ handler[h].step = "push"
    /\ \/ /\ pushed' = [pushed EXCEPT ![Event(h)] = @ + 1]
          /\ UNCHANGED dropped
       \/ /\ gateway = "stopping"   \* its first query fails
          /\ dropped' = dropped \cup {handler[h].msg}
          /\ UNCHANGED pushed
    /\ Go(h, "ack")
    /\ UNCHANGED <<broker, gateway, connected, routed, tables, prewarm, applied, history,
                   bounds>>

\* The handler has returned.  The acknowledgement of a message that came over an
\* earlier connection may or may not reach the broker.
Ack(h) ==
    /\ handler[h].step = "ack"
    /\ \/ connected /\ flying' = flying \ {handler[h].msg}
       \/ ~ (connected /\ handler[h].fresh) /\ UNCHANGED flying
    /\ handler' = [handler EXCEPT ![h] = Idle]
    /\ UNCHANGED <<published, owed, gateway, connected, routed, tables, pushed, prewarm,
                   applied, dropped, history, bounds>>

HandlerStep(h) ==
    Handle(h) \/ Upsert(h) \/ UpsertFails(h) \/ GoPrewarm(h) \/ SendToAll(h) \/ Ack(h)

\* prewarmClip returns, with the clip or without.  Its context has five minutes and
\* is not the one a stop cancels.
PrewarmEnds(e) ==
    /\ e \in warming
    /\ warming' = warming \ {e}
    /\ prewarmed' = prewarmed \cup {e}
    /\ UNCHANGED <<broker, gateway, connected, routed, handler, tables, pushed, applied,
                   dropped, history, bounds>>

-----------------------------------------------------------------------------
(* The process, and the people.                                            *)

\* A signal cancels the root context; the HTTP server has ten seconds to shut
\* down, and Subscriber.Stop disconnects after that.
Stop ==
    /\ gateway = "on" /\ stops < MaxStops
    /\ stops' = stops + 1
    /\ gateway' = "stopping"
    /\ UNCHANGED <<broker, connected, routed, handler, tables, pushed, prewarm, applied,
                   dropped, history, losses>>

\* Goroutines and the client's route end with the process.
Halt ==
    /\ gateway' = "off" /\ routed' = FALSE
    /\ handler' = [h \in Handlers |-> Idle]
    /\ warming' = {}
    /\ cut' = cut \cup {e \in warming : <<e, Last>> \notin owed \cup flying}
    /\ EndOfConnection

Exit ==
    /\ gateway = "stopping"
    /\ Halt
    /\ UNCHANGED <<dropped, bounds>>

Crash ==
    /\ gateway = "on" /\ losses < MaxLosses
    /\ losses' = losses + 1
    /\ Halt
    /\ UNCHANGED <<dropped, stops>>

Start ==
    /\ gateway = "off"
    /\ gateway' = "on"
    /\ UNCHANGED <<broker, connected, routed, handler, tables, pushed, prewarm, applied,
                   dropped, history, bounds>>

\* Mutant: an insert when there is no row.
M_SetEventKeep(e) ==
    /\ gateway # "off"
    /\ keep' \in {keep \cup {e}, keep \ {e}} /\ keep' # keep
    /\ UNCHANGED <<broker, gateway, connected, routed, handler, row, pushed, prewarm,
                   applied, dropped, history, bounds>>

\* SetKeepClip: an update, which changes nothing when there is no row.
SetEventKeep(e) ==
    /\ gateway # "off" /\ row[e] # 0
    /\ keep' \in {keep \cup {e}, keep \ {e}} /\ keep' # keep
    /\ UNCHANGED <<broker, gateway, connected, routed, handler, row, pushed, prewarm,
                   applied, dropped, history, bounds>>

Next ==
    \/ \E e \in Events : Publish(e) \/ PrewarmEnds(e) \/ SetEventKeep(e)
    \/ \E m \in Messages : Deliver(m)
    \/ \E h \in Handlers : HandlerStep(h)
    \/ ConnectionLost \/ Connect \/ Subscribe \/ Stop \/ Exit \/ Crash \/ Start

Spec == Init /\ [][Next]_vars

\* The broker delivers, goroutines run, the client reconnects by itself, a prewarm has
\* five minutes and the gateway is started again.  Nothing makes Frigate publish, and
\* nothing fails for ever.
FairSpec ==
    /\ Spec
    /\ \A m \in Messages : WF_vars(Deliver(m))
    /\ \A h \in Handlers : WF_vars(HandlerStep(h))
    /\ \A e \in Events : WF_vars(PrewarmEnds(e))
    /\ WF_vars(Connect) /\ WF_vars(Subscribe) /\ WF_vars(Exit) /\ WF_vars(Start)

-----------------------------------------------------------------------------
(* Properties.                                                             *)

\* QoS 1 with the acknowledgement after the handler: a message is owed, in flight
\* or upserted, unless an upsert failed or the gateway was being stopped.
NothingIsLost == Published \subseteq owed \cup flying \cup applied \cup dropped

\* Upsert reports "created" for the phase "new" only: however many versions come
\* in and in whatever order, people are told once, and once more at most for each
\* time the first message had been given to a handler and was not acknowledged.
ToldOncePerDelivery == \A e \in Events : pushed[e] <= 1 + again[e]

\* A crash between the upsert and the push does not cost the push: the message is
\* delivered again, and "created" then too.  What can: a stop or a failed upsert, and
\* a connection that lasts for ever on which the message came before the gateway had
\* subscribed.
EveryEventIsTold ==
    \A e \in Events :
        published[e] > 0 ~> pushed[e] > 0 \/ <<e, 1>> \in dropped \cup unheard

\* So does the end of an event reach the prewarm, with one exception more: a process
\* that ends during the prewarm, the message acknowledged, takes it along.
EveryClipIsPrewarmed ==
    \A e \in Events :
        published[e] = Last ~>
            e \in prewarmed \cup cut \/ <<e, Last>> \in dropped \cup unheard
=============================================================================
