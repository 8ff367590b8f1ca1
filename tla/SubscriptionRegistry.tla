------------------------- MODULE SubscriptionRegistry -------------------------
(***************************************************************************)
(* What the subscriptions of a seed node promise, without their indices: a *)
(* set of registrations, each for one event id and one subscriber, and the *)
(* rule that an event goes once to everyone registered for it when it is   *)
(* published.                                                              *)
(***************************************************************************)
EXTENDS Naturals, Sequences

CONSTANTS EventID, SubscriptionID, Channel

VARIABLES
  registered,  \* <<subscription, event id, channel>>
  used,        \* subscriptions that exist
  owed,        \* <<subscription, channel>> still to get the event at hand
  channel      \* what each channel holds

vars == <<registered, used, owed, channel>>

Init ==
  /\ registered = {}
  /\ used = {}
  /\ owed = {}
  /\ channel = [ch \in Channel |-> << >>]

\* An id names one subscription: another one of the same id is refused.
Subscribe(id, event_ids, ch) ==
  /\ owed = {}
  /\ id \notin used
  /\ used' = used \cup {id}
  /\ registered' = registered \cup ({id} \X event_ids \X {ch})
  /\ UNCHANGED <<owed, channel>>

Unsubscribe(ids) ==
  /\ owed = {}
  /\ used' = used \ ids
  /\ registered' = {r \in registered : r[1] \notin ids}
  /\ UNCHANGED <<owed, channel>>

Publish(event_id) ==
  /\ owed = {}
  /\ owed' = {<<r[1], r[3]>> : r \in {s \in registered : s[2] = event_id}}
  /\ UNCHANGED <<registered, used, channel>>

Deliver(id, ch) ==
  /\ <<id, ch>> \in owed
  /\ owed' = owed \ {<<id, ch>>}
  /\ \E event_id \in EventID :
       /\ <<id, event_id, ch>> \in registered
       /\ channel' = [channel EXCEPT ![ch] = Append(@, event_id)]
  /\ UNCHANGED <<registered, used>>

Receive(ch) ==
  /\ channel[ch] # << >>
  /\ channel' = [channel EXCEPT ![ch] = Tail(@)]
  /\ UNCHANGED <<registered, used, owed>>

\* The receiver is dropped with what it has not read.
Drop(ch) ==
  /\ channel' = [channel EXCEPT ![ch] = << >>]
  /\ UNCHANGED <<registered, used, owed>>

Next ==
  \/ \E id \in SubscriptionID, event_ids \in SUBSET EventID, ch \in Channel :
       Subscribe(id, event_ids, ch)
  \/ \E ids \in SUBSET SubscriptionID : Unsubscribe(ids)
  \/ \E event_id \in EventID : Publish(event_id)
  \/ \E id \in SubscriptionID, ch \in Channel : Deliver(id, ch)
  \/ \E ch \in Channel : Receive(ch) \/ Drop(ch)

Spec == Init /\ [][Next]_vars
=============================================================================
