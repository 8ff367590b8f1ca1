------------------------------- MODULE SeedNode -------------------------------
(***************************************************************************)
(* The event loop and the listener thread of a seed node.  The loop is the *)
(* only one to touch the node's state, and blocks wherever the code does.  *)
(* Nobody subscribes to events here, so publishing has no effect; see      *)
(* Subscriptions.                                                          *)
(***************************************************************************)
EXTENDS SeedState

\* The loop of n takes event ev.
Takes(n, ev) ==
  /\ loop[n] = "running"
  /\ events[n] # << >>
  /\ ev = Head(events[n])

Rest(n) == [events EXCEPT ![n] = Tail(@)]

\* One holder of end e drops its clone, one gains it.
Release(e, who) == [holders EXCEPT ![e] = @ \ {who}]
HandOver(e, who, whom) == [holders EXCEPT ![e] = (@ \ {who}) \cup whom]

\* The loop is done with the stream it was busy with.
Resume(n) ==
  /\ loop' = [loop EXCEPT ![n] = "running"]
  /\ current' = [current EXCEPT ![n] = NoEnd]

\* run returns and the node is dropped: its peers and the stream at hand go, from
\* whoever holds what; what is still queued stays in the channel as long as
\* somebody may send.
DropNode(n, how, held) ==
  /\ loop' = [loop EXCEPT ![n] = how]
  /\ current' = [current EXCEPT ![n] = NoEnd]
  /\ peers' = [peers EXCEPT ![n] = [id \in Id |-> NoEnd]]
  /\ holders' = [e \in End |-> IF Owner(e) = n THEN held[e] \ {"loop", "peer"} ELSE held[e]]

\* Writing a Hello to the peer at the other end of e: once that is closed the
\* kernel may still take it, or the write fails.
SaysHello(e) ==
  inbox' = IF Closed(Other(e)) THEN inbox
           ELSE [inbox EXCEPT ![Other(e)] = Append(@, "Hello")]

HelloFails(e) == Closed(Other(e)) /\ UNCHANGED inbox

\* The Hello read from e is answered.
AnswersHello(e) ==
  inbox' = [inbox EXCEPT ![e] = Tail(@),
                         ![Other(e)] = IF Closed(Other(e)) THEN @ ELSE Append(@, "Hello")]

-----------------------------------------------------------------------------
(* Listener thread                                                         *)

Accept(n) ==
  /\ listening[n]
  /\ backlog[n] # << >>
  /\ LET e == In(Head(backlog[n])) IN
     IF LoopAlive(n)
     THEN /\ backlog' = [backlog EXCEPT ![n] = Tail(@)]
          /\ holders' = HandOver(e, "backlog", {"event"})
          /\ events' = Emit(events, n, Connected(e))
          /\ UNCHANGED listening
     ELSE \* the channel is disconnected: drop the stream and stop listening
          /\ backlog' = [backlog EXCEPT ![n] = << >>]
          /\ holders' = [f \in End |-> IF Owner(f) = n THEN holders[f] \ {"backlog"}
                                                      ELSE holders[f]]
          /\ listening' = [listening EXCEPT ![n] = FALSE]
          /\ UNCHANGED events
  /\ UNCHANGED <<loop, current, peers, addr_book, inbox, opened, commands>>

-----------------------------------------------------------------------------
(* Event loop                                                              *)

\* Connection c is set up as far as the kernel of the accepting side goes.
Open(c, whom) ==
  /\ opened' = opened \cup {c}
  /\ holders' = [holders EXCEPT ![Out(c)] = {whom}, ![In(c)] = {"backlog"}]
  /\ backlog' = [backlog EXCEPT ![To[c]] = Append(@, c)]

\* Connect: dial; a refused connection, or none to be had, ends run with an error.
HandleConnect(n, c) ==
  /\ Takes(n, Connect(c))
  /\ events' = Rest(n)
  /\ \/ /\ listening[To[c]]
        /\ Open(c, "loop")
        /\ loop' = [loop EXCEPT ![n] = "greeting"]
        /\ current' = [current EXCEPT ![n] = Out(c)]
        /\ UNCHANGED peers
     \/ /\ ~listening[To[c]] \/ n \in Starved
        /\ DropNode(n, "failed", holders)
        /\ UNCHANGED <<opened, backlog>>
  /\ UNCHANGED <<addr_book, listening, inbox, commands>>

\* Mutation: the stream is queued without a Hello.
GreetSilently(n) ==
  /\ loop[n] = "greeting"
  /\ events' = [events EXCEPT ![n] = Append(@, Connected(current[n]))]
  /\ holders' = HandOver(current[n], "loop", {"event"})
  /\ Resume(n)
  /\ UNCHANGED <<peers, addr_book, listening, backlog, inbox, opened, commands>>

\* Say Hello to the peer that was dialled and queue its stream as Connected.
Greet(n) ==
  /\ loop[n] = "greeting"
  /\ LET e == current[n] IN
     \/ /\ SaysHello(e)
        /\ events' = [events EXCEPT ![n] = Append(@, Connected(e))]
        /\ holders' = HandOver(e, "loop", {"event"})
        /\ Resume(n)
        /\ UNCHANGED peers
     \/ /\ HelloFails(e)
        /\ DropNode(n, "failed", holders)
        /\ UNCHANGED events
  /\ UNCHANGED <<addr_book, listening, backlog, opened, commands>>

\* Connected: block until the peer has introduced itself.  The stream is cloned
\* to be published and again to be read; when that fails, by a panic or an error,
\* run ends.
HandleConnected(n, e) ==
  /\ Takes(n, Connected(e))
  /\ events' = Rest(n)
  /\ \/ /\ loop' = [loop EXCEPT ![n] = "reading"]
        /\ current' = [current EXCEPT ![n] = e]
        /\ holders' = HandOver(e, "event", {"loop"})
        /\ UNCHANGED peers
     \/ /\ n \in Starved
        /\ DropNode(n, "failed", HandOver(e, "event", {"loop"}))
  /\ UNCHANGED <<addr_book, listening, backlog, inbox, opened, commands>>

\* The stream at hand has a message for the loop.
Reads(n, m) ==
  /\ loop[n] = "reading"
  /\ inbox[current[n]] # << >>
  /\ m = Head(inbox[current[n]])

\* Mutation: the loop keeps reading from a stream that has ended.
NoHelloIgnored(n) ==
  /\ loop[n] = "reading"
  /\ Unreadable(current[n])
  /\ UNCHANGED vars

\* No message can be read: the loop goes on without the peer.
NoHello(n) ==
  /\ loop[n] = "reading"
  /\ Unreadable(current[n])
  /\ holders' = Release(current[n], "loop")
  /\ Resume(n)
  /\ UNCHANGED <<events, peers, addr_book, listening, backlog, inbox, opened, commands>>

\* Mutation: Hello is said back before the map of peers is looked at.
RejectAfterHello(n) ==
  LET e == current[n] IN
  /\ Reads(n, "Hello") /\ peers[n][IdOf(e)] # NoEnd
  /\ AnswersHello(e)
  /\ holders' = Release(e, "loop")
  /\ Resume(n)
  /\ UNCHANGED <<events, peers, addr_book, listening, backlog, opened, commands>>

\* The peer does not introduce itself, or is listed already, or the address of
\* the stream cannot be obtained: drop it.
Reject(n) ==
  LET e == current[n] IN
  /\ \/ Reads(n, "Other")
     \/ Reads(n, "Hello") /\ (peers[n][IdOf(e)] # NoEnd \/ n \in Starved)
  /\ inbox' = [inbox EXCEPT ![e] = Tail(@)]
  /\ holders' = Release(e, "loop")
  /\ Resume(n)
  /\ UNCHANGED <<events, peers, addr_book, listening, backlog, opened, commands>>

\* Mutation: the new stream of a listed peer takes the place of its old one.
AddPeerReplacing(n) ==
  LET e == current[n] IN
  /\ Reads(n, "Hello")
  /\ AnswersHello(e)
  /\ holders' = [f \in End |-> CASE f = e -> {"peer", "send", "recv"}
                                 [] f = peers[n][IdOf(e)] -> holders[f] \ {"peer"}
                                 [] OTHER -> holders[f]]
  /\ peers' = [peers EXCEPT ![n][IdOf(e)] = e]
  /\ addr_book' = [addr_book EXCEPT ![n] = Append(@, [id |-> IdOf(e), addr |-> LocalAddr(e)])]
  /\ events' = [events EXCEPT ![n] = Append(@, Notice)]
  /\ Resume(n)
  /\ UNCHANGED <<listening, backlog, opened, commands>>

\* A new peer introduced itself: say Hello back, start its threads, list it
\* and add an entry with the local address of the stream.
AddPeer(n) ==
  LET e == current[n] IN
  /\ Reads(n, "Hello")
  /\ peers[n][IdOf(e)] = NoEnd
  /\ AnswersHello(e)
  /\ holders' = HandOver(e, "loop", {"peer", "send", "recv"})
  /\ peers' = [peers EXCEPT ![n][IdOf(e)] = e]
  /\ addr_book' = [addr_book EXCEPT ![n] = Append(@, [id |-> IdOf(e), addr |-> LocalAddr(e)])]
  /\ events' = [events EXCEPT ![n] = Append(@, Notice)]
  /\ Resume(n)
  /\ UNCHANGED <<listening, backlog, opened, commands>>

\* Hello was said back but the streams for the threads are not to be had: the
\* peer is dropped without being listed, and the loop goes on.
AddPeerUnlisted(n) ==
  LET e == current[n] IN
  /\ Reads(n, "Hello")
  /\ peers[n][IdOf(e)] = NoEnd /\ n \in Starved
  /\ AnswersHello(e)
  /\ holders' = Release(e, "loop")
  /\ Resume(n)
  /\ UNCHANGED <<events, peers, addr_book, listening, backlog, opened, commands>>

\* Saying Hello back fails, or it is said and the stream for the RemotePeer is
\* not to be had: the error ends run.
AddPeerFails(n) ==
  LET e == current[n] IN
  /\ Reads(n, "Hello")
  /\ peers[n][IdOf(e)] = NoEnd
  /\ Closed(Other(e)) \/ n \in Starved
  /\ AnswersHello(e)
  /\ DropNode(n, "failed", holders)
  /\ UNCHANGED <<events, addr_book, listening, backlog, opened, commands>>

\* Mutation: the peer is forgotten, its stream is not dropped.
DisconnectKeepingStream(n, id) ==
  /\ Takes(n, Disconnect(id))
  /\ events' = Rest(n)
  /\ peers' = [peers EXCEPT ![n][id] = NoEnd]
  /\ UNCHANGED <<loop, current, addr_book, conn_vars, commands>>

\* Disconnect: the RemotePeer is dropped, and with it its stream and sender.
HandleDisconnect(n, id) ==
  /\ Takes(n, Disconnect(id))
  /\ events' = Rest(n)
  /\ IF peers[n][id] = NoEnd THEN UNCHANGED <<peers, holders>>
     ELSE /\ peers' = [peers EXCEPT ![n][id] = NoEnd]
          /\ holders' = Release(peers[n][id], "peer")
  /\ UNCHANGED <<loop, current, addr_book, listening, backlog, inbox, opened, commands>>

HandleNotice(n) ==
  /\ Takes(n, Notice)
  /\ events' = Rest(n)
  /\ UNCHANGED <<loop, current, peers, addr_book, conn_vars, commands>>

\* Terminate: leave the loop, drop all peers and return.
HandleTerminate(n) ==
  /\ Takes(n, Terminate)
  /\ events' = Rest(n)
  /\ DropNode(n, "stopped", holders)
  /\ UNCHANGED <<addr_book, listening, backlog, inbox, opened, commands>>

\* The last thread that could send an event is gone: the channel of a dropped
\* node is freed with the streams that are still in it.
FreeChannel(n) ==
  /\ ~LoopAlive(n) /\ ~listening[n]
  /\ events[n] # << >>
  /\ \A e \in End : Owner(e) = n => holders[e] \cap {"send", "recv"} = {}
  /\ events' = [events EXCEPT ![n] = << >>]
  /\ holders' = [e \in End |-> IF Owner(e) = n THEN holders[e] \ {"event"} ELSE holders[e]]
  /\ UNCHANGED <<loop, current, peers, addr_book, listening, backlog, inbox, opened, commands>>

LoopStep(n) ==
  \/ \E c \in Conn : HandleConnect(n, c)
  \/ Greet(n)
  \/ \E e \in End : HandleConnected(n, e)
  \/ NoHello(n) \/ Reject(n)
  \/ AddPeer(n) \/ AddPeerUnlisted(n) \/ AddPeerFails(n)
  \/ \E id \in Id : HandleDisconnect(n, id)
  \/ HandleNotice(n) \/ HandleTerminate(n)
=============================================================================
