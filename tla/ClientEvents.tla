----------------------------- MODULE ClientEvents -----------------------------
(***************************************************************************)
(* The subscriptions of a client (packages/client/src/client.ts and its    *)
(* template): handlers for all rooms and for one, switched on and off, and *)
(* the events that are dispatched to them.                                 *)
(***************************************************************************)
EXTENDS Integers, FiniteSets

CONSTANTS
    EventTopics,    \* topics
    Rooms,          \* rooms
    HandlersOf,     \* handlers an application has for each topic
    Nobody,         \* no handler
    MaxSteps        \* bound on what the application does

EventsConstants == Nobody \notin HandlersOf /\ MaxSteps \in Nat

Everywhere == "everywhere"   \* no room
Places == Rooms \cup {Everywhere}

VARIABLES
    handler,    \* handlers by place and topic: globalHandlers, roomHandlers
    enabled,    \* globalEnabled, roomEnabled; "unset" where there is no entry
    steps,      \* how much has happened
    heard,      \* who heard the last event, at which place
    event,      \* the last event
    wanted      \* history: the handlers given last that were not switched off since

eventVars == <<handler, enabled, steps, heard, event, wanted>>

NoEvent == [topic |-> "none", room |-> Everywhere]

EventsInit ==
    /\ handler = [p \in Places |-> [t \in EventTopics |-> Nobody]]
    /\ enabled = [p \in Places |-> [t \in EventTopics |-> "unset"]]
    /\ steps = 0 /\ heard = {} /\ event = NoEvent
    /\ wanted = [p \in Places |-> [t \in EventTopics |-> Nobody]]

More == steps < MaxSteps /\ steps' = steps + 1

(* Mutant: a new handler does not switch the topic on. *)
RegisterQuietly(p, given) ==
    /\ More /\ given # {}
    /\ \E h \in HandlersOf :
        /\ handler' = [handler EXCEPT ![p] = [t \in EventTopics |-> IF t \in given THEN h ELSE @[t]]]
        /\ wanted'  = [wanted EXCEPT ![p] = [t \in EventTopics |-> IF t \in given THEN h ELSE @[t]]]
    /\ heard' = {} /\ event' = NoEvent /\ UNCHANGED enabled

(* api(handlers), api.room(id)(handlers): handlers of the topics in given
   take the place of those before and are switched on.                     *)
Register(p, given) ==
    /\ More /\ given # {}
    /\ \E h \in HandlersOf :
        /\ handler' = [handler EXCEPT ![p] = [t \in EventTopics |-> IF t \in given THEN h ELSE @[t]]]
        /\ wanted'  = [wanted EXCEPT ![p] = [t \in EventTopics |-> IF t \in given THEN h ELSE @[t]]]
    /\ enabled' = [enabled EXCEPT ![p] = [t \in EventTopics |-> IF t \in given THEN "on" ELSE @[t]]]
    /\ heard' = {} /\ event' = NoEvent

(* api.topic.on(), api.topic.off(), and the same of a room. *)
Toggle(p, t, on) ==
    /\ More
    /\ enabled' = [enabled EXCEPT ![p][t] = IF on THEN "on" ELSE "off"]
    /\ wanted'  = [wanted EXCEPT ![p][t] = IF on THEN handler[p][t] ELSE Nobody]
    /\ heard' = {} /\ event' = NoEvent /\ UNCHANGED handler

(* emitEvent: the handler of the event's room, then the one for all rooms. *)
Hears(p, t) == handler[p][t] # Nobody /\ enabled[p][t] # "off"

Dispatch(t, room) ==
    /\ event' = [topic |-> t, room |-> room]
    /\ heard' = {[at |-> p, by |-> handler[p][t]] : p \in {q \in {room, Everywhere} : Hears(q, t)}}
    /\ UNCHANGED <<handler, enabled, steps, wanted>>

EventsNext ==
    \/ \E p \in Places, given \in SUBSET EventTopics : Register(p, given)
    \/ \E p \in Places, t \in EventTopics, on \in BOOLEAN : Toggle(p, t, on)
    \/ \E t \in EventTopics, room \in Places : Dispatch(t, room)

EventsTypeOK ==
    /\ handler \in [Places -> [EventTopics -> HandlersOf \cup {Nobody}]]
    /\ enabled \in [Places -> [EventTopics -> {"unset", "on", "off"}]]

(* An event is heard by the newest handler of its topic for its room and by
   the newest for all rooms, by each unless it was switched off after it was
   given, and by nobody else.                                              *)
EventsAreHeard ==
    event # NoEvent =>
        heard = {[at |-> p, by |-> wanted[p][event.topic]] :
                    p \in {q \in {event.room, Everywhere} : wanted[q][event.topic] # Nobody}}
=============================================================================
