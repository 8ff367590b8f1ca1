------------------------------ MODULE RemotePeer ------------------------------
(***************************************************************************)
(* The two threads a seed node runs for each listed peer.  Both hold a     *)
(* clone of the stream and tell the event loop, by a Disconnect with the   *)
(* id of the peer, when they end; neither knows of the other.  No part of  *)
(* the program ever gives the send thread a message to send.               *)
(***************************************************************************)
EXTENDS SeedState

\* Mutation: the thread announces its stream, not the id of its peer.
EndThreadByStream(e, who) ==
  /\ holders' = [holders EXCEPT ![e] = @ \ {who}]
  /\ events' = Emit(events, Owner(e), Disconnect(e))

\* The thread ends, drops its clone and announces that the peer is gone.
EndThread(e, who) ==
  /\ holders' = [holders EXCEPT ![e] = @ \ {who}]
  /\ events' = Emit(events, Owner(e), Disconnect(IdOf(e)))

\* remote_peer_receive_loop: a message is passed on, or ends the thread when
\* the node is gone.
Receive(e) ==
  /\ "recv" \in holders[e]
  /\ inbox[e] # << >> /\ Head(inbox[e]) # Malformed
  /\ inbox' = [inbox EXCEPT ![e] = Tail(@)]
  /\ IF LoopAlive(Owner(e))
     THEN events' = Emit(events, Owner(e), Notice) /\ UNCHANGED holders
     ELSE EndThread(e, "recv")
  /\ UNCHANGED <<loop, current, peers, addr_book, listening, backlog, opened, commands>>

\* Mutation: the thread ends without a word.
ReceiveFailsSilently(e) ==
  /\ "recv" \in holders[e]
  /\ Unreadable(e)
  /\ holders' = [holders EXCEPT ![e] = @ \ {"recv"}]
  /\ UNCHANGED <<node_vars, listening, backlog, inbox, opened, commands>>

\* remote_peer_receive_loop: the stream has ended, or what came is no message.
ReceiveFails(e) ==
  /\ "recv" \in holders[e]
  /\ Unreadable(e)
  /\ EndThread(e, "recv")
  /\ UNCHANGED <<loop, current, peers, addr_book, listening, backlog, inbox, opened, commands>>

\* remote_peer_send_loop: the RemotePeer, and its sender, was dropped.
SenderDropped(e) ==
  /\ "send" \in holders[e]
  /\ "peer" \notin holders[e]
  /\ EndThread(e, "send")
  /\ UNCHANGED <<loop, current, peers, addr_book, listening, backlog, inbox, opened, commands>>

ThreadStep(e) == Receive(e) \/ ReceiveFails(e) \/ SenderDropped(e)
=============================================================================
