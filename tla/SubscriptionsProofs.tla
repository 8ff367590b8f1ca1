-------------------------- MODULE SubscriptionsProofs --------------------------
(***************************************************************************)
(* The subscriptions of a seed node implement SubscriptionRegistry, for    *)
(* any set of event ids, subscriptions and channels and any capacity.      *)
(***************************************************************************)
EXTENDS Subscriptions, SequenceTheorems, TLAPS

-----------------------------------------------------------------------------
(* The types of the two levels of maps.                                    *)

LEMMA SubscribersType ==
  ASSUME NEW f \in Subscribers
  PROVE  DOMAIN f \subseteq SubscriptionID /\ f \in [DOMAIN f -> Channel]
<1>1. PICK ids \in SUBSET SubscriptionID : f \in [ids -> Channel]
  BY DEF Subscribers
<1> QED
  BY <1>1

LEMMA SubscribersIntro ==
  ASSUME NEW ids, ids \subseteq SubscriptionID, NEW f \in [ids -> Channel]
  PROVE  f \in Subscribers
BY DEF Subscribers

LEMMA IndexType ==
  ASSUME NEW by \in Index
  PROVE  DOMAIN by \subseteq EventID /\ by \in [DOMAIN by -> Subscribers]
<1>1. PICK event_ids \in SUBSET EventID : by \in [event_ids -> Subscribers]
  BY DEF Index
<1> QED
  BY <1>1

LEMMA IndexIntro ==
  ASSUME NEW event_ids, event_ids \subseteq EventID, NEW by \in [event_ids -> Subscribers]
  PROVE  by \in Index
BY DEF Index

LEMMA NobodyType == Nobody \in Subscribers /\ DOMAIN Nobody = {}
<1>1. Nobody \in [{} -> Channel] /\ DOMAIN Nobody = {}
  BY DEF Nobody
<1> QED
  BY <1>1, SubscribersIntro

\* An event id has subscribers whether or not it is in the index.
LEMMA SubscribersOfType ==
  ASSUME NEW by \in Index, NEW e PROVE SubscribersOf(by, e) \in Subscribers
BY IndexType, NobodyType DEF SubscribersOf

-----------------------------------------------------------------------------
(* What add and remove_all do to the index.                                *)

LEMMA InsertType ==
  ASSUME NEW subs \in Subscribers, NEW id \in SubscriptionID, NEW ch \in Channel
  PROVE  Insert(subs, id, ch) \in Subscribers
<1>1. subs \in [DOMAIN subs -> Channel] /\ DOMAIN subs \cup {id} \subseteq SubscriptionID
  BY SubscribersType
<1>2. Insert(subs, id, ch) \in [DOMAIN subs \cup {id} -> Channel]
  BY <1>1 DEF Insert
<1> QED
  BY <1>1, <1>2, SubscribersIntro

LEMMA AddedType ==
  ASSUME NEW by \in Index, NEW id \in SubscriptionID,
         NEW event_ids \in SUBSET EventID, NEW ch \in Channel
  PROVE  Added(by, id, event_ids, ch) \in Index
<1> DEFINE dom == DOMAIN by \cup event_ids
<1>1. dom \subseteq EventID /\ by \in [DOMAIN by -> Subscribers]
  BY IndexType
<1>2. \A e \in dom : Insert(SubscribersOf(by, e), id, ch) \in Subscribers
  BY SubscribersOfType, InsertType
<1>3. Added(by, id, event_ids, ch) \in [dom -> Subscribers]
  BY <1>1, <1>2 DEF Added
<1> QED
  BY <1>1, <1>3, IndexIntro

LEMMA RemovedType ==
  ASSUME NEW by \in Index, NEW ids
  PROVE  Removed(by, ids) \in Index
<1> DEFINE dom == {e \in DOMAIN by : DOMAIN by[e] \ ids # {}}
<1>1. dom \subseteq EventID /\ by \in [DOMAIN by -> Subscribers]
  BY IndexType
<1>2. ASSUME NEW e \in dom
      PROVE  [i \in DOMAIN by[e] \ ids |-> by[e][i]] \in Subscribers
  <2>1. by[e] \in Subscribers
    BY <1>1
  <2>2. DOMAIN by[e] \ ids \subseteq SubscriptionID /\ by[e] \in [DOMAIN by[e] -> Channel]
    BY <2>1, SubscribersType
  <2>3. [i \in DOMAIN by[e] \ ids |-> by[e][i]] \in [DOMAIN by[e] \ ids -> Channel]
    BY <2>2
  <2> QED
    BY <2>2, <2>3, SubscribersIntro
<1>3. Removed(by, ids) \in [dom -> Subscribers]
  BY <1>1, <1>2 DEF Removed
<1> QED
  BY <1>1, <1>3, IndexIntro

\* Who subscribes to what after add.
LEMMA AddedSubscribers ==
  ASSUME NEW by \in Index, NEW id \in SubscriptionID,
         NEW event_ids \in SUBSET EventID, NEW ch \in Channel, NEW e
  PROVE  SubscribersOf(Added(by, id, event_ids, ch), e) =
           IF e \in event_ids THEN Insert(SubscribersOf(by, e), id, ch)
                              ELSE SubscribersOf(by, e)
BY DEF Added, SubscribersOf

LEMMA InsertDomain ==
  ASSUME NEW subs, NEW id, NEW ch
  PROVE  /\ DOMAIN Insert(subs, id, ch) = DOMAIN subs \cup {id}
         /\ Insert(subs, id, ch)[id] = ch
         /\ \A i \in DOMAIN subs \ {id} : Insert(subs, id, ch)[i] = subs[i]
BY DEF Insert

\* Who subscribes to what after remove_all.
LEMMA RemovedSubscribers ==
  ASSUME NEW by \in Index, NEW ids, NEW e
  PROVE  /\ DOMAIN SubscribersOf(Removed(by, ids), e) = DOMAIN SubscribersOf(by, e) \ ids
         /\ \A i \in DOMAIN SubscribersOf(by, e) \ ids :
              SubscribersOf(Removed(by, ids), e)[i] = SubscribersOf(by, e)[i]
<1> DEFINE dom == {k \in DOMAIN by : DOMAIN by[k] \ ids # {}}
<1>1. DOMAIN Removed(by, ids) = dom
  BY DEF Removed
<1>2. CASE e \in dom
  <2>1. SubscribersOf(Removed(by, ids), e) = [i \in DOMAIN by[e] \ ids |-> by[e][i]]
    BY <1>1, <1>2 DEF Removed, SubscribersOf
  <2>2. SubscribersOf(by, e) = by[e]
    BY <1>2 DEF SubscribersOf
  <2> QED
    BY <2>1, <2>2
<1>3. CASE e \notin dom
  <2>1. SubscribersOf(Removed(by, ids), e) = Nobody
    BY <1>1, <1>3 DEF SubscribersOf
  <2>2. DOMAIN SubscribersOf(by, e) \ ids = {}
    BY <1>3, NobodyType DEF SubscribersOf
  <2> QED
    BY <2>1, <2>2, NobodyType
<1> QED
  BY <1>2, <1>3

-----------------------------------------------------------------------------
(* The invariant: the indices agree, and the loop goes back to its queue    *)
(* only when nobody is left to be notified.                                *)

RegistryInv ==
  /\ TypeOK
  /\ IndicesAgree
  /\ loop = "running" => to_notify = {}

\* The fields of an event of each type.
LEMMA EventFields ==
  ASSUME NEW ev \in Event
  PROVE  /\ ev.type = "Subscribe" => /\ ev.id \in SubscriptionID
                                     /\ ev.event_ids \in SUBSET EventID
                                     /\ ev.notify \in Channel
         /\ ev.type = "Unsubscribe" => ev.ids \in SUBSET SubscriptionID
         /\ ev.type = "Occurs" => ev.event_id \in EventID
         /\ ev.type \in {"Subscribe", "Unsubscribe", "Occurs"}
BY DEF Event

\* IndicesAgree, by event id whether or not it is in the index.
LEMMA SubscribersExist ==
  ASSUME RegistryInv, NEW e
  PROVE  DOMAIN SubscribersOf(by_event_id, e) \subseteq subscription_ids
BY NobodyType DEF RegistryInv, IndicesAgree, SubscribersOf

LEMMA InitInv == Init => RegistryInv
<1> SUFFICES ASSUME Init PROVE RegistryInv
  OBVIOUS
<1>1. by_event_id \in Index /\ DOMAIN by_event_id = {}
  <2>1. by_event_id \in [{} -> Subscribers] /\ DOMAIN by_event_id = {}
    BY DEF Init
  <2> QED
    BY <2>1, IndexIntro
<1>2. event \in Event
  BY DEF Init, Event, Unsubscribe
<1>3. events \in Seq(Event) /\ channel \in [Channel -> Seq(EventID)]
  BY DEF Init
<1> QED
  BY <1>1, <1>2, <1>3 DEF Init, RegistryInv, TypeOK, IndicesAgree

LEMMA TakeEventInv == RegistryInv /\ TakeEvent => RegistryInv'
<1> SUFFICES ASSUME RegistryInv, TakeEvent PROVE RegistryInv'
  OBVIOUS
<1>1. Head(events) \in Event /\ Tail(events) \in Seq(Event)
  BY DEF RegistryInv, TypeOK, TakeEvent
<1>2. SubscribersOf(by_event_id, Head(events).event_id) \in Subscribers
  BY SubscribersOfType DEF RegistryInv, TypeOK
<1>3. to_notify' \in SUBSET SubscriptionID
  BY <1>2, SubscribersType DEF TakeEvent
<1>4. TypeOK'
  BY <1>1, <1>3 DEF RegistryInv, TypeOK, TakeEvent
<1>5. SubscribersOf(by_event_id', Head(events).event_id)
        = SubscribersOf(by_event_id, Head(events).event_id)
  BY DEF TakeEvent
<1>6. IndicesAgree'
  BY <1>5 DEF RegistryInv, IndicesAgree, TakeEvent, SubscribersOf
<1> QED
  BY <1>4, <1>6 DEF RegistryInv, TakeEvent

LEMMA NotifyInv ==
  ASSUME RegistryInv, NEW id \in SubscriptionID, Notify(id)
  PROVE  RegistryInv'
<1> DEFINE ch == by_event_id[event.event_id][id]
<1>1. event.type = "Occurs" /\ event.event_id \in EventID
  BY EventFields DEF RegistryInv, TypeOK, IndicesAgree, Notify
<1>2. channel' = [channel EXCEPT ![ch] = Append(@, event.event_id)]
  BY DEF Notify
<1>3. channel' \in [Channel -> Seq(EventID)]
  <2>1. channel \in [Channel -> Seq(EventID)]
    BY DEF RegistryInv, TypeOK
  <2>2. \A c \in Channel : Append(channel[c], event.event_id) \in Seq(EventID)
    BY <1>1, <2>1, AppendProperties
  <2> QED
    BY <1>2, <2>1, <2>2
<1>4. TypeOK'
  BY <1>3 DEF RegistryInv, TypeOK, Notify
<1>5. IndicesAgree'
  BY DEF RegistryInv, IndicesAgree, Notify, SubscribersOf
<1> QED
  BY <1>4, <1>5 DEF RegistryInv, Notify

LEMMA HandleSubscribeInv == RegistryInv /\ HandleSubscribe => RegistryInv'
<1> SUFFICES ASSUME RegistryInv, HandleSubscribe PROVE RegistryInv'
  OBVIOUS
<1>1. CASE event.id \in subscription_ids
  BY <1>1 DEF RegistryInv, TypeOK, IndicesAgree, HandleSubscribe, Published, SubscribersOf
<1>2. CASE event.id \notin subscription_ids
  <2>1. /\ event.id \in SubscriptionID
        /\ event.event_ids \in SUBSET EventID
        /\ event.notify \in Channel
    BY EventFields DEF RegistryInv, TypeOK, HandleSubscribe, Published
  <2>2. /\ by_event_id' = Added(by_event_id, event.id, event.event_ids, event.notify)
        /\ subscription_ids' = subscription_ids \cup {event.id}
        /\ to_notify' = {} /\ to_notify = {}
        /\ loop' = "running"
        /\ UNCHANGED <<events, event, channel, dropped>>
    BY <1>2 DEF HandleSubscribe, Published
  <2>3. by_event_id \in Index
    BY DEF RegistryInv, TypeOK
  <2>4. by_event_id' \in Index
    BY <2>1, <2>2, <2>3, AddedType
  <2>5. TypeOK'
    BY <2>1, <2>2, <2>4 DEF RegistryInv, TypeOK
  <2>6. ASSUME NEW e \in DOMAIN by_event_id'
        PROVE  /\ DOMAIN by_event_id'[e] # {}
               /\ DOMAIN by_event_id'[e] \subseteq subscription_ids'
    <3>1. e \in DOMAIN by_event_id \cup event.event_ids
      BY <2>2, <2>6 DEF Added
    <3>2. CASE e \in event.event_ids
      <4>1. by_event_id'[e] = Insert(SubscribersOf(by_event_id, e), event.id, event.notify)
        BY <2>2, <3>1, <3>2 DEF Added
      <4>2. DOMAIN by_event_id'[e] = DOMAIN SubscribersOf(by_event_id, e) \cup {event.id}
        BY <4>1 DEF Insert
      <4>3. DOMAIN SubscribersOf(by_event_id, e) \subseteq subscription_ids
        BY SubscribersExist
      <4> QED
        BY <4>2, <4>3, <2>2
    <3>3. CASE e \notin event.event_ids
      <4>1. by_event_id'[e] = by_event_id[e] /\ e \in DOMAIN by_event_id
        BY <2>2, <3>1, <3>3 DEF Added
      <4> QED
        BY <4>1, <2>2 DEF RegistryInv, IndicesAgree
    <3> QED
      BY <3>2, <3>3
  <2> QED
    BY <2>2, <2>5, <2>6 DEF RegistryInv, IndicesAgree
<1> QED
  BY <1>1, <1>2

LEMMA HandleUnsubscribeInv == RegistryInv /\ HandleUnsubscribe => RegistryInv'
<1> SUFFICES ASSUME RegistryInv, HandleUnsubscribe PROVE RegistryInv'
  OBVIOUS
<1> DEFINE ids == event.ids \cap subscription_ids
<1>1. /\ by_event_id' = IF ids = {} THEN by_event_id ELSE Removed(by_event_id, ids)
      /\ subscription_ids' = subscription_ids \ ids
      /\ to_notify' = {} /\ to_notify = {}
      /\ loop' = "running"
      /\ UNCHANGED <<events, event, channel, dropped>>
  BY DEF HandleUnsubscribe, Published
<1>2. by_event_id \in Index
  BY DEF RegistryInv, TypeOK
<1>3. by_event_id' \in Index
  BY <1>1, <1>2, RemovedType
<1>4. TypeOK'
  BY <1>1, <1>3 DEF RegistryInv, TypeOK
<1>5. ASSUME NEW e \in DOMAIN by_event_id'
      PROVE  /\ DOMAIN by_event_id'[e] # {}
             /\ DOMAIN by_event_id'[e] \subseteq subscription_ids'
  <2>1. CASE ids = {}
    BY <1>1, <1>5, <2>1 DEF RegistryInv, IndicesAgree
  <2>2. CASE ids # {}
    <3>1. /\ e \in DOMAIN by_event_id /\ DOMAIN by_event_id[e] \ ids # {}
          /\ DOMAIN by_event_id'[e] = DOMAIN by_event_id[e] \ ids
      BY <1>1, <1>5, <2>2 DEF Removed
    <3> QED
      BY <3>1, <1>1 DEF RegistryInv, IndicesAgree
  <2> QED
    BY <2>1, <2>2
<1> QED
  BY <1>1, <1>4, <1>5 DEF RegistryInv, IndicesAgree

\* The steps that leave the indices and the event at hand alone.
LEMMA OtherInv ==
  ASSUME RegistryInv,
         \/ \E id \in SubscriptionID : NotifyFails(id)
         \/ HandleOther
         \/ \E ev \in Event : SendEvent(ev)
         \/ \E ch \in Channel : Receive(ch) \/ DropReceiver(ch)
         \/ UNCHANGED vars
  PROVE  RegistryInv'
<1>1. CASE \E id \in SubscriptionID : NotifyFails(id)
  BY <1>1 DEF RegistryInv, TypeOK, IndicesAgree, NotifyFails, SubscribersOf
<1>2. CASE HandleOther
  BY <1>2 DEF RegistryInv, TypeOK, IndicesAgree, HandleOther, Published, SubscribersOf
<1>3. CASE \E ev \in Event : SendEvent(ev)
  <2>1. events' \in Seq(Event)
    BY <1>3 DEF SendEvent, RegistryInv, TypeOK
  <2> QED
    BY <1>3, <2>1 DEF RegistryInv, TypeOK, IndicesAgree, SendEvent, SubscribersOf
<1>4. ASSUME NEW ch \in Channel, Receive(ch) \/ DropReceiver(ch)
      PROVE  RegistryInv'
  <2>1. channel' \in [Channel -> Seq(EventID)] /\ dropped' \in SUBSET Channel
    <3>1. channel \in [Channel -> Seq(EventID)] /\ dropped \in SUBSET Channel
      BY DEF RegistryInv, TypeOK
    <3>2. CASE Receive(ch)
      <4>1. Tail(channel[ch]) \in Seq(EventID)
        BY <3>1, <3>2, HeadTailProperties DEF Receive
      <4> QED
        BY <3>1, <3>2, <4>1 DEF Receive
    <3>3. CASE DropReceiver(ch)
      <4>1. << >> \in Seq(EventID)
        OBVIOUS
      <4> QED
        BY <3>1, <3>3, <4>1 DEF DropReceiver
    <3> QED
      BY <1>4, <3>2, <3>3
  <2>2. UNCHANGED <<events, loop, event, to_notify, by_event_id, subscription_ids>>
    BY <1>4 DEF Receive, DropReceiver
  <2> QED
    BY <2>1, <2>2 DEF RegistryInv, TypeOK, IndicesAgree, SubscribersOf
<1>5. CASE UNCHANGED vars
  BY <1>5 DEF vars, RegistryInv, TypeOK, IndicesAgree, SubscribersOf
<1> QED
  BY <1>1, <1>2, <1>3, <1>4, <1>5

LEMMA NextInv == RegistryInv /\ [Next]_vars => RegistryInv'
BY TakeEventInv, NotifyInv, HandleSubscribeInv, HandleUnsubscribeInv, OtherInv
   DEF Next, LoopStep

\* The invariant of the registry.
THEOREM RegistryInvariant == Spec => []RegistryInv
<1> QED
  BY InitInv, NextInv, PTL DEF Spec

\* Every variable keeps its type, nested maps included (pubsub.rs:51-55).
THEOREM TypeCorrect == Spec => []TypeOK
<1>1. RegistryInv => TypeOK
  BY DEF RegistryInv
<1> QED
  BY <1>1, RegistryInvariant, PTL

\* The two indices agree after any sequence of add, remove_all and publish
\* (pubsub.rs:69-130).
THEOREM IndicesAlwaysAgree == Spec => []IndicesAgree
<1>1. RegistryInv => IndicesAgree
  BY DEF RegistryInv
<1> QED
  BY <1>1, RegistryInvariant, PTL

-----------------------------------------------------------------------------
(* Refinement: one lemma per action that the registry can see.             *)

\* Registrations and deliveries due are read off three variables.
LEMMA SameRegistry ==
  ASSUME UNCHANGED <<by_event_id, to_notify, event>>
  PROVE  Registered' = Registered /\ Owed' = Owed
BY DEF Registered, Owed, SubscribersOf

LEMMA NothingOwed ==
  ASSUME to_notify = {} PROVE Owed = {}
BY DEF Owed

LEMMA RegistryInit == Init => Registry!Init
<1> SUFFICES ASSUME Init PROVE Registry!Init
  OBVIOUS
<1>1. \A e : SubscribersOf(by_event_id, e) = Nobody
  BY DEF Init, SubscribersOf
<1>2. Registered = {}
  BY <1>1, NobodyType DEF Registered
<1>3. Owed = {}
  BY NothingOwed DEF Init
<1> QED
  BY <1>2, <1>3 DEF Init, Registry!Init

LEMMA TakeEventRefines ==
  ASSUME RegistryInv, TakeEvent
  PROVE  Registry!Next \/ UNCHANGED Registry!vars
<1> DEFINE ev == Head(events)
<1>1. /\ to_notify = {} /\ Owed = {}
      /\ ev \in Event
      /\ UNCHANGED <<by_event_id, subscription_ids, channel>>
  BY NothingOwed DEF RegistryInv, TypeOK, TakeEvent
<1>2. Registered' = Registered
  BY <1>1 DEF Registered, SubscribersOf
<1>3. CASE ev.type = "Occurs"
  <2>1. ev.event_id \in EventID
    BY <1>1, <1>3, EventFields
  <2>2. to_notify' = DOMAIN SubscribersOf(by_event_id, ev.event_id) /\ event' = ev
    BY <1>3 DEF TakeEvent
  <2>3. to_notify' \subseteq SubscriptionID
    BY <2>2, SubscribersOfType, SubscribersType DEF RegistryInv, TypeOK
  <2>4. \A i \in to_notify' : by_event_id[ev.event_id] = SubscribersOf(by_event_id, ev.event_id)
    BY <2>2, NobodyType DEF SubscribersOf
  <2>5. Owed' = {<<r[1], r[3]>> : r \in {s \in Registered : s[2] = ev.event_id}}
    <3>1. ASSUME NEW o \in Owed'
          PROVE  \E r \in Registered : r[2] = ev.event_id /\ o = <<r[1], r[3]>>
      <4>1. o[1] \in SubscriptionID /\ o[2] \in Channel /\ o = <<o[1], o[2]>>
        BY <3>1 DEF Owed
      <4>2. o[1] \in to_notify' /\ by_event_id[ev.event_id][o[1]] = o[2]
        BY <3>1, <2>2, <1>1 DEF Owed
      <4>3. <<o[1], ev.event_id, o[2]>> \in Registered
        BY <4>1, <4>2, <2>1, <2>2 DEF Registered
      <4> QED
        BY <4>1, <4>3
    <3>2. ASSUME NEW r \in Registered, r[2] = ev.event_id
          PROVE  <<r[1], r[3]>> \in Owed'
      <4>1. /\ r[1] \in SubscriptionID /\ r[3] \in Channel
            /\ r[1] \in to_notify'
            /\ by_event_id[ev.event_id][r[1]] = r[3]
        BY <3>2, <2>2 DEF Registered
      <4> QED
        BY <4>1, <2>2, <1>1 DEF Owed
    <3> QED
      BY <3>1, <3>2
  <2>6. Registry!Publish(ev.event_id)
    BY <1>1, <1>2, <2>5 DEF Registry!Publish
  <2> QED
    BY <2>1, <2>6 DEF Registry!Next
<1>4. CASE ev.type # "Occurs"
  <2>1. Owed' = {}
    BY <1>4 DEF TakeEvent, Owed
  <2> QED
    BY <1>1, <1>2, <2>1 DEF Registry!vars
<1> QED
  BY <1>3, <1>4

LEMMA NotifyRefines ==
  ASSUME RegistryInv, NEW id \in SubscriptionID, Notify(id)
  PROVE  Registry!Next
<1> DEFINE e  == event.event_id
           ch == by_event_id[e][id]
<1>1. /\ id \in to_notify
      /\ to_notify' = to_notify \ {id}
      /\ channel' = [channel EXCEPT ![ch] = Append(@, e)]
      /\ UNCHANGED <<event, by_event_id, subscription_ids>>
  BY DEF Notify
<1>2. event.type = "Occurs" /\ id \in DOMAIN SubscribersOf(by_event_id, e)
  BY <1>1 DEF RegistryInv, IndicesAgree
<1>3. e \in EventID
  BY <1>2, EventFields DEF RegistryInv, TypeOK
<1>4. SubscribersOf(by_event_id, e) = by_event_id[e] /\ SubscribersOf(by_event_id, e) \in Subscribers
  BY <1>2, NobodyType, SubscribersOfType DEF SubscribersOf, RegistryInv, TypeOK
<1>5. ch \in Channel
  BY <1>2, <1>4, SubscribersType
<1>6. <<id, e, ch>> \in Registered
  BY <1>2, <1>3, <1>5 DEF Registered
<1>7. <<id, ch>> \in Owed
  BY <1>1, <1>5 DEF Owed
<1>8. Owed' = Owed \ {<<id, ch>>}
  BY <1>1 DEF Owed
<1>9. Registered' = Registered
  BY <1>1 DEF Registered, SubscribersOf
<1>10. Registry!Deliver(id, ch)
  BY <1>1, <1>3, <1>6, <1>7, <1>8, <1>9 DEF Registry!Deliver
<1> QED
  BY <1>5, <1>10 DEF Registry!Next

LEMMA HandleSubscribeRefines ==
  ASSUME RegistryInv, HandleSubscribe
  PROVE  Registry!Next \/ UNCHANGED Registry!vars
<1>1. CASE event.id \in subscription_ids
  <2>1. UNCHANGED <<by_event_id, to_notify, event, subscription_ids, channel>>
    BY <1>1 DEF HandleSubscribe
  <2> QED
    BY <2>1, SameRegistry DEF Registry!vars
<1>2. CASE event.id \notin subscription_ids
  <2> DEFINE id == event.id
             ids == event.event_ids
             ch == event.notify
  <2>1. id \in SubscriptionID /\ ids \in SUBSET EventID /\ ch \in Channel
    BY EventFields DEF RegistryInv, TypeOK, HandleSubscribe, Published
  <2>2. /\ by_event_id' = Added(by_event_id, id, ids, ch)
        /\ subscription_ids' = subscription_ids \cup {id}
        /\ to_notify = {} /\ to_notify' = {}
        /\ UNCHANGED channel
    BY <1>2 DEF HandleSubscribe, Published
  <2>3. by_event_id \in Index
    BY DEF RegistryInv, TypeOK
  <2>4. \A e : id \notin DOMAIN SubscribersOf(by_event_id, e)
    BY <1>2, SubscribersExist
  <2>5. \A e : SubscribersOf(by_event_id', e) =
                 IF e \in ids THEN Insert(SubscribersOf(by_event_id, e), id, ch)
                              ELSE SubscribersOf(by_event_id, e)
    BY <2>1, <2>2, <2>3, AddedSubscribers
  <2>6. Registered' = Registered \cup ({id} \X ids \X {ch})
    <3>1. ASSUME NEW r \in SubscriptionID \X EventID \X Channel
          PROVE  r \in Registered' <=> r \in Registered \/ r \in {id} \X ids \X {ch}
      <4>1. r \in Registered' <=> /\ r[1] \in DOMAIN SubscribersOf(by_event_id', r[2])
                                  /\ SubscribersOf(by_event_id', r[2])[r[1]] = r[3]
        BY NobodyType DEF Registered, SubscribersOf
      <4>2. r \in Registered <=> /\ r[1] \in DOMAIN SubscribersOf(by_event_id, r[2])
                                 /\ SubscribersOf(by_event_id, r[2])[r[1]] = r[3]
        BY NobodyType DEF Registered, SubscribersOf
      <4>3. r \in {id} \X ids \X {ch} <=> r[1] = id /\ r[2] \in ids /\ r[3] = ch
        OBVIOUS
      <4>4. CASE r[2] \in ids
        <5>1. SubscribersOf(by_event_id', r[2]) =
                Insert(SubscribersOf(by_event_id, r[2]), id, ch)
          BY <2>5, <4>4
        <5>2. /\ DOMAIN SubscribersOf(by_event_id', r[2])
                   = DOMAIN SubscribersOf(by_event_id, r[2]) \cup {id}
              /\ SubscribersOf(by_event_id', r[2])[id] = ch
              /\ \A i \in DOMAIN SubscribersOf(by_event_id, r[2]) \ {id} :
                   SubscribersOf(by_event_id', r[2])[i] = SubscribersOf(by_event_id, r[2])[i]
          BY <5>1 DEF Insert
        <5> QED
          BY <4>1, <4>2, <4>3, <4>4, <5>2, <2>4
      <4>5. CASE r[2] \notin ids
        <5>1. SubscribersOf(by_event_id', r[2]) = SubscribersOf(by_event_id, r[2])
          BY <2>5, <4>5
        <5> QED
          BY <4>1, <4>2, <4>3, <4>5, <5>1
      <4> QED
        BY <4>4, <4>5
    <3>2. /\ Registered' \subseteq SubscriptionID \X EventID \X Channel
          /\ Registered \subseteq SubscriptionID \X EventID \X Channel
          /\ {id} \X ids \X {ch} \subseteq SubscriptionID \X EventID \X Channel
      BY <2>1 DEF Registered
    <3> QED
      BY <3>1, <3>2
  <2>7. Owed = {} /\ Owed' = {}
    BY <2>2 DEF Owed
  <2>8. Registry!Subscribe(id, ids, ch)
    BY <1>2, <2>2, <2>6, <2>7 DEF Registry!Subscribe
  <2> QED
    BY <2>1, <2>8 DEF Registry!Next
<1> QED
  BY <1>1, <1>2

LEMMA HandleUnsubscribeRefines ==
  ASSUME RegistryInv, HandleUnsubscribe
  PROVE  Registry!Next \/ UNCHANGED Registry!vars
<1> DEFINE ids == event.ids \cap subscription_ids
<1>1. /\ by_event_id' = IF ids = {} THEN by_event_id ELSE Removed(by_event_id, ids)
      /\ subscription_ids' = subscription_ids \ ids
      /\ to_notify = {}
      /\ UNCHANGED <<to_notify, event, channel>>
  BY DEF HandleUnsubscribe, Published
<1>2. CASE ids = {}
  <2>1. UNCHANGED <<by_event_id, subscription_ids>>
    BY <1>1, <1>2
  <2> QED
    BY <1>1, <2>1, SameRegistry DEF Registry!vars
<1>3. CASE ids # {}
  <2>1. by_event_id' = Removed(by_event_id, ids)
    BY <1>1, <1>3
  <2>2. \A e : /\ DOMAIN SubscribersOf(by_event_id', e) = DOMAIN SubscribersOf(by_event_id, e) \ ids
               /\ \A i \in DOMAIN SubscribersOf(by_event_id, e) \ ids :
                    SubscribersOf(by_event_id', e)[i] = SubscribersOf(by_event_id, e)[i]
    <3>1. by_event_id \in Index
      BY DEF RegistryInv, TypeOK
    <3>2. \A e : /\ DOMAIN SubscribersOf(Removed(by_event_id, ids), e)
                      = DOMAIN SubscribersOf(by_event_id, e) \ ids
                 /\ \A i \in DOMAIN SubscribersOf(by_event_id, e) \ ids :
                      SubscribersOf(Removed(by_event_id, ids), e)[i]
                        = SubscribersOf(by_event_id, e)[i]
      BY <3>1, RemovedSubscribers, Zenon
    <3> QED
      BY <2>1, <3>2, Zenon
  <2>3. Registered' = {r \in Registered : r[1] \notin ids}
    <3>1. ASSUME NEW r \in SubscriptionID \X EventID \X Channel
          PROVE  r \in Registered' <=> r \in Registered /\ r[1] \notin ids
      <4>1. r \in Registered' <=> /\ r[1] \in DOMAIN SubscribersOf(by_event_id', r[2])
                                  /\ SubscribersOf(by_event_id', r[2])[r[1]] = r[3]
        BY NobodyType DEF Registered, SubscribersOf
      <4>2. r \in Registered <=> /\ r[1] \in DOMAIN SubscribersOf(by_event_id, r[2])
                                 /\ SubscribersOf(by_event_id, r[2])[r[1]] = r[3]
        BY NobodyType DEF Registered, SubscribersOf
      <4> QED
        BY <4>1, <4>2, <2>2
    <3>2. /\ Registered' \subseteq SubscriptionID \X EventID \X Channel
          /\ Registered \subseteq SubscriptionID \X EventID \X Channel
      BY DEF Registered
    <3> QED
      BY <3>1, <3>2
  <2>4. Owed = {} /\ Owed' = {}
    BY <1>1 DEF Owed
  <2>5. Registry!Unsubscribe(ids)
    BY <1>1, <2>3, <2>4 DEF Registry!Unsubscribe
  <2>6. ids \in SUBSET SubscriptionID
    BY DEF RegistryInv, TypeOK
  <2> QED
    BY <2>5, <2>6 DEF Registry!Next
<1> QED
  BY <1>2, <1>3

LEMMA ChannelRefines ==
  ASSUME NEW ch \in Channel, Receive(ch) \/ DropReceiver(ch)
  PROVE  Registry!Next
<1>1. Registered' = Registered /\ Owed' = Owed /\ UNCHANGED subscription_ids
  BY SameRegistry DEF Receive, DropReceiver
<1>2. Receive(ch) => Registry!Receive(ch)
  BY <1>1 DEF Receive, Registry!Receive
<1>3. DropReceiver(ch) => Registry!Drop(ch)
  BY <1>1 DEF DropReceiver, Registry!Drop
<1> QED
  BY <1>2, <1>3 DEF Registry!Next

\* The steps the registry does not see.
LEMMA OtherRefines ==
  ASSUME \/ \E id \in SubscriptionID : NotifyFails(id)
         \/ HandleOther
         \/ \E ev \in Event : SendEvent(ev)
         \/ UNCHANGED vars
  PROVE  UNCHANGED Registry!vars
<1>1. UNCHANGED <<by_event_id, to_notify, event, subscription_ids, channel>>
  BY DEF NotifyFails, HandleOther, SendEvent, vars
<1> QED
  BY <1>1, SameRegistry DEF Registry!vars

LEMMA NextRefines == RegistryInv /\ [Next]_vars => [Registry!Next]_Registry!vars
BY TakeEventRefines, NotifyRefines, HandleSubscribeRefines, HandleUnsubscribeRefines,
   ChannelRefines, OtherRefines DEF Next, LoopStep

\* The two indices and the loop of publish are a plain set of registrations, to
\* anyone who subscribes, unsubscribes or reads a channel (pubsub.rs:69-130,
\* seed_node.rs:105-175).
THEOREM RegistryImplemented == Spec => ImplementsRegistry
<1> QED
  BY RegistryInit, NextRefines, RegistryInvariant, PTL
  DEF Spec, ImplementsRegistry, Registry!Spec
=============================================================================
