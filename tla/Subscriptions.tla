---------------------------- MODULE Subscriptions ----------------------------
(***************************************************************************)
(* Subscriptions to the events of a seed node.  The event loop publishes   *)
(* each event before it handles it, to one subscriber after the other, and *)
(* keeps the subscriptions in two indices.  Of the events, only what they  *)
(* do to the subscriptions is modelled; SeedNode has the rest.             *)
(***************************************************************************)
EXTENDS Naturals, Sequences, FiniteSets

CONSTANTS
  PeerEventID,     \* EventID of the events about peers
  SubscriptionID,
  Channel,         \* notification channels of the subscribers
  Bounded,         \* channels of bounded capacity
  Capacity,        \* their capacity
  Backlog          \* bound: events in a queue beyond which producers pause

EventID == PeerEventID \cup {"Terminate"}

ASSUME ChannelAssumption ==
  /\ Bounded \subseteq Channel
  /\ Capacity \in Nat \ {0}
  /\ Backlog \in Nat \ {0}

VARIABLES
  events,            \* SeedNode::receiver
  loop,              \* where SeedNode::run is
  event,             \* the event at hand
  to_notify,         \* subscriptions still to get it
  by_event_id,       \* Subscriptions::by_event_id
  subscription_ids,  \* Subscriptions::subscription_ids
  channel,           \* what each subscriber has still to read
  dropped            \* channels whose receiver was dropped

vars == <<events, loop, event, to_notify, by_event_id, subscription_ids, channel, dropped>>

Subscribe(id, event_ids, ch) ==
  [type |-> "Subscribe", id |-> id, event_ids |-> event_ids, notify |-> ch]
Unsubscribe(ids) == [type |-> "Unsubscribe", ids |-> ids]
Occurs(event_id) == [type |-> "Occurs", event_id |-> event_id]

Event ==
  [type : {"Subscribe"}, id : SubscriptionID, event_ids : SUBSET EventID, notify : Channel]
  \cup [type : {"Unsubscribe"}, ids : SUBSET SubscriptionID]
  \cup [type : {"Occurs"}, event_id : EventID]

\* A map of subscriptions to channels, and one of event ids to such maps.
Subscribers == UNION {[ids -> Channel] : ids \in SUBSET SubscriptionID}
Index       == UNION {[event_ids -> Subscribers] : event_ids \in SUBSET EventID}

Nobody == [id \in {} |-> {}]

\* Whom an event of id event_id is for.
SubscribersOf(by, event_id) == IF event_id \in DOMAIN by THEN by[event_id] ELSE Nobody

\* HashMap::insert of a channel for subscription id.
Insert(subs, id, ch) ==
  [i \in DOMAIN subs \cup {id} |-> IF i = id THEN ch ELSE subs[i]]

\* Mutation: a new map for the event id, whether or not there is one.
AddedAfresh(by, id, event_ids, ch) ==
  [e \in DOMAIN by \cup event_ids |->
     IF e \in event_ids THEN Insert(Nobody, id, ch) ELSE by[e]]

\* The loop of Subscriptions::add over the event ids.
Added(by, id, event_ids, ch) ==
  [e \in DOMAIN by \cup event_ids |->
     IF e \in event_ids THEN Insert(SubscribersOf(by, e), id, ch) ELSE by[e]]

\* Mutation: maps that become empty stay.
RemovedKeepingEmpty(by, ids) ==
  [e \in DOMAIN by |-> [i \in DOMAIN by[e] \ ids |-> by[e][i]]]

\* Subscriptions::remove for each of ids: maps that become empty are removed.
Removed(by, ids) ==
  [e \in {k \in DOMAIN by : DOMAIN by[k] \ ids # {}} |->
     [i \in DOMAIN by[e] \ ids |-> by[e][i]]]

\* try_send succeeds.
Accepts(ch) ==
  /\ ch \notin dropped
  /\ ch \in Bounded => Len(channel[ch]) < Capacity

Init ==
  /\ events = << >>
  /\ loop = "running"
  /\ event = Unsubscribe({})
  /\ to_notify = {}
  /\ by_event_id = [e \in {} |-> Nobody]
  /\ subscription_ids = {}
  /\ channel = [ch \in Channel |-> << >>]
  /\ dropped = {}

-----------------------------------------------------------------------------
(* The event loop                                                          *)

\* Mutation: event ids are taken for subscriptions.
TakeEventForIds ==
  /\ loop = "running"
  /\ events # << >>
  /\ event' = Head(events)
  /\ events' = Tail(events)
  /\ loop' = "publishing"
  /\ to_notify' = DOMAIN by_event_id
  /\ UNCHANGED <<by_event_id, subscription_ids, channel, dropped>>

\* Take an event; it is published if it has an id.
TakeEvent ==
  /\ loop = "running"
  /\ events # << >>
  /\ event' = Head(events)
  /\ events' = Tail(events)
  /\ loop' = "publishing"
  /\ to_notify' = IF Head(events).type = "Occurs"
                  THEN DOMAIN SubscribersOf(by_event_id, Head(events).event_id) ELSE {}
  /\ UNCHANGED <<by_event_id, subscription_ids, channel, dropped>>

\* One turn of the loop of publish, in the order of the hash map.
Notify(id) ==
  LET ch == by_event_id[event.event_id][id] IN
  /\ loop = "publishing"
  /\ id \in to_notify
  /\ Accepts(ch)
  /\ to_notify' = to_notify \ {id}
  /\ channel' = [channel EXCEPT ![ch] = Append(@, event.event_id)]
  /\ UNCHANGED <<events, loop, event, by_event_id, subscription_ids, dropped>>

\* A channel that is full or has lost its receiver: the error ends run.
NotifyFails(id) ==
  /\ loop = "publishing"
  /\ id \in to_notify
  /\ ~Accepts(by_event_id[event.event_id][id])
  /\ loop' = "failed"
  /\ UNCHANGED <<events, event, to_notify, by_event_id, subscription_ids, channel, dropped>>

\* Everyone is notified: the event can be handled.
Published(type) ==
  /\ loop = "publishing"
  /\ to_notify = {}
  /\ event.type = type

\* A second subscription with an id in use is refused.
HandleSubscribe ==
  /\ Published("Subscribe")
  /\ IF event.id \in subscription_ids
     THEN UNCHANGED <<by_event_id, subscription_ids>>
     ELSE /\ by_event_id' = Added(by_event_id, event.id, event.event_ids, event.notify)
          /\ subscription_ids' = subscription_ids \cup {event.id}
  /\ loop' = "running"
  /\ UNCHANGED <<events, event, to_notify, channel, dropped>>

\* Ids that are not in use are skipped.
HandleUnsubscribe ==
  LET ids == event.ids \cap subscription_ids IN
  /\ Published("Unsubscribe")
  /\ by_event_id' = IF ids = {} THEN by_event_id ELSE Removed(by_event_id, ids)
  /\ subscription_ids' = subscription_ids \ ids
  /\ loop' = "running"
  /\ UNCHANGED <<events, event, to_notify, channel, dropped>>

\* Terminate ends run; what other events do is not about subscriptions.
HandleOther ==
  /\ Published("Occurs")
  /\ loop' = IF event.event_id = "Terminate" THEN "stopped" ELSE "running"
  /\ UNCHANGED <<events, event, to_notify, by_event_id, subscription_ids, channel, dropped>>

LoopStep ==
  \/ TakeEvent
  \/ \E id \in SubscriptionID : Notify(id) \/ NotifyFails(id)
  \/ HandleSubscribe \/ HandleUnsubscribe \/ HandleOther

-----------------------------------------------------------------------------
(* Whoever sends events, and the subscribers                               *)

SendEvent(ev) ==
  /\ Len(events) < Backlog
  /\ \A ch \in Channel : Len(channel[ch]) < Backlog
  /\ events' = Append(events, ev)
  /\ UNCHANGED <<loop, event, to_notify, by_event_id, subscription_ids, channel, dropped>>

Receive(ch) ==
  /\ channel[ch] # << >>
  /\ channel' = [channel EXCEPT ![ch] = Tail(@)]
  /\ UNCHANGED <<events, loop, event, to_notify, by_event_id, subscription_ids, dropped>>

DropReceiver(ch) ==
  /\ ch \notin dropped
  /\ dropped' = dropped \cup {ch}
  /\ channel' = [channel EXCEPT ![ch] = << >>]
  /\ UNCHANGED <<events, loop, event, to_notify, by_event_id, subscription_ids>>

Next ==
  \/ LoopStep
  \/ \E ev \in Event : SendEvent(ev)
  \/ \E ch \in Channel : Receive(ch) \/ DropReceiver(ch)

Spec == Init /\ [][Next]_vars

-----------------------------------------------------------------------------
(* Properties.                                                             *)

TypeOK ==
  /\ events \in Seq(Event)
  /\ loop \in {"running", "publishing", "stopped", "failed"}
  /\ event \in Event
  /\ to_notify \in SUBSET SubscriptionID
  /\ by_event_id \in Index
  /\ subscription_ids \in SUBSET SubscriptionID
  /\ channel \in [Channel -> Seq(EventID)]
  /\ dropped \in SUBSET Channel

\* The two indices agree: no event id is kept without a subscriber, every
\* subscriber found by event id is a subscription that exists, and the event at
\* hand is only still to be sent to such (pubsub.rs:69-84, 110-130).
IndicesAgree ==
  /\ \A e \in DOMAIN by_event_id :
       /\ DOMAIN by_event_id[e] # {}
       /\ DOMAIN by_event_id[e] \subseteq subscription_ids
  /\ to_notify # {} =>
       /\ event.type = "Occurs"
       /\ to_notify \subseteq DOMAIN SubscribersOf(by_event_id, event.event_id)

\* The registrations the index stands for, and the deliveries still due.
Registered ==
  {r \in SubscriptionID \X EventID \X Channel :
     /\ r[1] \in DOMAIN SubscribersOf(by_event_id, r[2])
     /\ by_event_id[r[2]][r[1]] = r[3]}

Owed ==
  {o \in SubscriptionID \X Channel :
     o[1] \in to_notify /\ by_event_id[event.event_id][o[1]] = o[2]}

Registry == INSTANCE SubscriptionRegistry
              WITH registered <- Registered, used <- subscription_ids, owed <- Owed

\* The indices and the loop of publish implement a plain set of registrations:
\* an event goes once to everyone registered for it when it was taken, nobody
\* else gets anything, an unsubscribed channel is never sent to again
\* (pubsub.rs:69-130, seed_node.rs:105-175).
ImplementsRegistry == Registry!Spec
=============================================================================
