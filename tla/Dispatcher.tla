------------------------------ MODULE Dispatcher ------------------------------
(***************************************************************************)
(* The networking half of a `multithreaded` node: the acceptor, the        *)
(* dispatcher task, one handshake task per accepted connection and one     *)
(* per-peer task ("sub-dispatcher") per completed handshake.               *)
(*                                                                         *)
(* The tasks share one tokio runtime and interleave only at an await, so   *)
(* what a task does between two awaits is one action.                      *)
(***************************************************************************)
EXTENDS NodeState

\* The message at the head of the dispatcher's queue is m.
DispatcherReceives(m) ==
  /\ DispatcherAlive
  /\ dispatcher_queue # << >>
  /\ m = Head(dispatcher_queue)

\* Mutation: the map of senders outlives the task.
DropDispatcherKeepingSenders(how) ==
  /\ dispatcher' = how
  /\ dispatcher_queue' = << >>
  /\ UNCHANGED <<connected_peers, task, inbox>>

\* The end of the dispatcher task drops the Dispatcher: its receiver with
\* every message still queued (and the streams they carry) and the map of
\* senders per connected peer.
DropDispatcher(how) ==
  /\ dispatcher' = how
  /\ dispatcher_queue' = << >>
  /\ connected_peers' = [p \in Peer |-> NoConn]
  /\ LET lost == {c \in Conn : task[c] \in {"queued", "completed"}} IN
     /\ task' = [c \in Conn |-> IF c \in lost THEN "done" ELSE task[c]]
     /\ inbox' = [c \in Conn |-> IF c \in lost THEN << >> ELSE inbox[c]]

\* The end of a task drops the connection it owns, what it has not yet read
\* from it, and its receiver.
EndTask(c) ==
  /\ task' = [task EXCEPT ![c] = "done"]
  /\ peer_queue' = [peer_queue EXCEPT ![c] = << >>]
  /\ inbox' = [inbox EXCEPT ![c] = << >>]

-----------------------------------------------------------------------------
(* Acceptor                                                                *)

\* Acceptor::run, one turn of the loop: an incoming connection is handed to
\* the dispatcher, or dropped when the dispatcher is gone.
Accept(c) ==
  /\ task[c] = "none"
  /\ task' = [task EXCEPT ![c] = IF DispatcherAlive THEN "queued" ELSE "done"]
  /\ SendToDispatcher(PeerHandshake(c))
  /\ UNCHANGED <<tendermint_queue, tendermint_vars, dispatcher_vars,
                 peer_queue, inbox, unread, closed>>

-----------------------------------------------------------------------------
(* Dispatcher                                                              *)

\* PeerHandshake: spawn a handshake task that owns the connection.
HandlePeerHandshake(c) ==
  /\ DispatcherReceives(PeerHandshake(c))
  /\ dispatcher_queue' = Tail(dispatcher_queue)
  /\ task' = [task EXCEPT ![c] = "greeting"]
  /\ UNCHANGED <<tendermint_queue, tendermint_vars, dispatcher_vars,
                 peer_queue, inbox, unread, closed>>

\* Mutation: the Tendermint thread is not told.
HandshakeCompletedUnannounced(c) ==
  /\ DispatcherReceives(HandshakeCompleted(c))
  /\ dispatcher_queue' = Tail(dispatcher_queue)
  /\ connected_peers' = [connected_peers EXCEPT ![PeerOf[c]] = c]
  /\ task' = [task EXCEPT ![c] = "select"]
  /\ UNCHANGED <<tendermint_queue, tendermint_vars, dispatcher, exit_ack,
                 peer_queue, inbox, unread, closed>>

\* HandshakeCompleted: a sender for the peer replaces the one it had, the
\* Tendermint thread is told, and a per-peer task takes the connection over.
HandleHandshakeCompleted(c) ==
  /\ DispatcherReceives(HandshakeCompleted(c))
  /\ dispatcher_queue' = Tail(dispatcher_queue)
  /\ connected_peers' = [connected_peers EXCEPT ![PeerOf[c]] = c]
  /\ SendToTendermint(PeerConnected(PeerOf[c]))
  /\ task' = [task EXCEPT ![c] = "select"]
  /\ UNCHANGED <<tendermint_vars, dispatcher, exit_ack,
                 peer_queue, inbox, unread, closed>>

\* Mutation: an unbounded channel.
SendReadyAlways(c) == c \in Conn

\* A send to the per-peer task of c does not block: there is room in its
\* channel, or the task has ended.
SendReady(c) == c \in SubDispatcher => Len(peer_queue[c]) < PeerQueueCap

\* Mutation: try_send, which gives up when the channel is full.
TryDeliverToPeer(p, m) ==
  LET c == connected_peers[p] IN
  /\ DispatcherReceives(ToPeer(p, m))
  /\ c # NoConn
  /\ dispatcher_queue' = Tail(dispatcher_queue)
  /\ peer_queue' =
       IF c \in SubDispatcher /\ SendReady(c)
         THEN [peer_queue EXCEPT ![c] = Append(@, m)] ELSE peer_queue
  /\ UNCHANGED <<tendermint_queue, tendermint_vars, dispatcher_vars,
                 task, inbox, unread, closed>>

\* ToPeer for a connected peer: the dispatcher waits until the peer's channel
\* has room; the send fails, silently, when the per-peer task has ended.
DeliverToPeer(p, m) ==
  LET c == connected_peers[p] IN
  /\ DispatcherReceives(ToPeer(p, m))
  /\ c # NoConn
  /\ SendReady(c)
  /\ dispatcher_queue' = Tail(dispatcher_queue)
  /\ peer_queue' =
       IF c \in SubDispatcher THEN [peer_queue EXCEPT ![c] = Append(@, m)]
                              ELSE peer_queue
  /\ UNCHANGED <<tendermint_queue, tendermint_vars, dispatcher_vars,
                 task, inbox, unread, closed>>

\* ToPeer for a peer without an entry: the expect panics and ends the task.
PanicOnUnknownPeer(p, m) ==
  /\ DispatcherReceives(ToPeer(p, m))
  /\ connected_peers[p] = NoConn
  /\ DropDispatcher("panicked")
  /\ UNCHANGED <<tendermint_queue, tendermint_vars, exit_ack,
                 peer_queue, unread, closed>>

\* PeerDisconnected: forget the sender of the peer.
HandleDropPeer(p) ==
  /\ DispatcherReceives(DropPeer(p))
  /\ dispatcher_queue' = Tail(dispatcher_queue)
  /\ connected_peers' = [connected_peers EXCEPT ![p] = NoConn]
  /\ UNCHANGED <<tendermint_queue, tendermint_vars, dispatcher, exit_ack,
                 conn_vars>>

\* Mutation: the dispatcher leaves without confirming.
HandleExitSilently ==
  /\ DispatcherReceives(Exit)
  /\ DropDispatcher("exited")
  /\ UNCHANGED <<tendermint_queue, tendermint_vars, exit_ack,
                 peer_queue, unread, closed>>

\* Exit: confirm, leave the loop, drop the Dispatcher.
HandleExit ==
  /\ DispatcherReceives(Exit)
  /\ exit_ack' = TRUE
  /\ DropDispatcher("exited")
  /\ UNCHANGED <<tendermint_queue, tendermint_vars, peer_queue, unread, closed>>

DispatcherStep ==
  \/ \E c \in Conn : HandlePeerHandshake(c) \/ HandleHandshakeCompleted(c)
  \/ \E p \in Peer, m \in PeerMessage : DeliverToPeer(p, m) \/ PanicOnUnknownPeer(p, m)
  \/ \E p \in Peer : HandleDropPeer(p)
  \/ HandleExit

-----------------------------------------------------------------------------
(* Writing to a peer.  A write ends once the kernel has taken the frame;   *)
(* after the peer closed, it is either taken and lost or fails.            *)

WriteSucceeds(c) ==
  /\ closed[c] \/ unread[c] < SocketCap
  /\ unread' = [unread EXCEPT ![c] = IF closed[c] THEN @ ELSE @ + 1]

WriteFails(c) ==
  /\ closed[c]
  /\ UNCHANGED unread

-----------------------------------------------------------------------------
(* Handshake task                                                          *)

\* Say Hello; a failed write panics and ends the task.
Greet(c) ==
  /\ task[c] = "greeting"
  /\ \/ /\ WriteSucceeds(c)
        /\ task' = [task EXCEPT ![c] = "awaiting"]
        /\ UNCHANGED <<peer_queue, inbox>>
     \/ WriteFails(c) /\ EndTask(c)
  /\ UNCHANGED <<queue_vars, tendermint_vars, dispatcher_vars, closed>>

\* The peer's Hello completes the handshake; other messages are skipped.
AwaitHello(c) ==
  /\ task[c] = "awaiting"
  /\ inbox[c] # << >> /\ ~Unreadable(c)
  /\ LET greeted == Head(inbox[c]) = "Hello" IN
     \/ /\ greeted /\ DispatcherAlive
        /\ SendToDispatcher(HandshakeCompleted(c))
        /\ task' = [task EXCEPT ![c] = "completed"]
        /\ inbox' = [inbox EXCEPT ![c] = Tail(@)]
        /\ UNCHANGED peer_queue
     \/ /\ greeted /\ ~DispatcherAlive
        /\ EndTask(c)
        /\ UNCHANGED dispatcher_queue
     \/ /\ ~greeted
        /\ inbox' = [inbox EXCEPT ![c] = Tail(@)]
        /\ UNCHANGED <<dispatcher_queue, task, peer_queue>>
  /\ UNCHANGED <<tendermint_queue, tendermint_vars, dispatcher_vars, unread, closed>>

\* Mutation: the handshake task keeps polling a stream that has ended.
HandshakeLostIgnored(c) ==
  /\ task[c] = "awaiting" /\ Unreadable(c)
  /\ UNCHANGED vars

\* No Hello will come: the end of the stream makes the unwrap panic, what does
\* not decode ends the loop; either ends the task without a word.
HandshakeLost(c) ==
  /\ task[c] = "awaiting"
  /\ Unreadable(c)
  /\ EndTask(c)
  /\ UNCHANGED <<queue_vars, tendermint_vars, dispatcher_vars, unread, closed>>

HandshakeStep(c) == Greet(c) \/ AwaitHello(c) \/ HandshakeLost(c)

-----------------------------------------------------------------------------
(* Per-peer task.  When both futures of its select! are ready either       *)
(* branch may run.                                                         *)

\* A message for the peer arrives; its write is awaited outside select!.
TakeFromQueue(c) ==
  /\ task[c] = "select"
  /\ peer_queue[c] # << >>
  /\ peer_queue' = [peer_queue EXCEPT ![c] = Tail(@)]
  /\ task' = [task EXCEPT ![c] = "writing"]
  /\ UNCHANGED <<queue_vars, tendermint_vars, dispatcher_vars,
                 inbox, unread, closed>>

\* Mutation: only the loss of the entry ends the task, not its replacement.
SenderDroppedUnlessReplaced(c) ==
  /\ task[c] = "select"
  /\ peer_queue[c] = << >>
  /\ connected_peers[PeerOf[c]] = NoConn
  /\ EndTask(c)
  /\ UNCHANGED <<queue_vars, tendermint_vars, dispatcher_vars, unread, closed>>

\* The sender was dropped and the channel is drained: leave without a word.
SenderDropped(c) ==
  /\ task[c] = "select"
  /\ peer_queue[c] = << >>
  /\ connected_peers[PeerOf[c]] # c
  /\ EndTask(c)
  /\ UNCHANGED <<queue_vars, tendermint_vars, dispatcher_vars, unread, closed>>

\* A message from the peer: requests are passed on, the others ignored.
ReadFrame(c) ==
  /\ task[c] = "select"
  /\ inbox[c] # << >> /\ ~Unreadable(c)
  /\ inbox' = [inbox EXCEPT ![c] = Tail(@)]
  /\ IF Head(inbox[c]) = "AddressBookRequest"
     THEN SendToTendermint(FromPeer(PeerOf[c]))
     ELSE UNCHANGED tendermint_queue
  /\ UNCHANGED <<dispatcher_queue, tendermint_vars, dispatcher_vars,
                 task, peer_queue, unread, closed>>

\* Mutation: the task reports the peer as disconnected and stays in its loop.
PeerGoneStays(c) ==
  /\ task[c] = "select"
  /\ Unreadable(c)
  /\ SendToTendermint(PeerDisconnected(PeerOf[c]))
  /\ UNCHANGED <<dispatcher_queue, tendermint_vars, dispatcher_vars, conn_vars>>

\* The stream ended, or what came does not decode: report the peer as
\* disconnected, though its side may still be open, and leave.
PeerGone(c) ==
  /\ task[c] = "select"
  /\ Unreadable(c)
  /\ SendToTendermint(PeerDisconnected(PeerOf[c]))
  /\ EndTask(c)
  /\ UNCHANGED <<dispatcher_queue, tendermint_vars, dispatcher_vars, unread, closed>>

\* The frame is written.
WriteFrame(c) ==
  /\ task[c] = "writing"
  /\ WriteSucceeds(c)
  /\ task' = [task EXCEPT ![c] = "select"]
  /\ UNCHANGED <<queue_vars, tendermint_vars, dispatcher_vars,
                 peer_queue, inbox, closed>>

\* The write fails: the expect panics and ends the task, which reports nothing.
WriteError(c) ==
  /\ task[c] = "writing"
  /\ WriteFails(c)
  /\ EndTask(c)
  /\ UNCHANGED <<queue_vars, tendermint_vars, dispatcher_vars, closed>>

SelectStep(c) == TakeFromQueue(c) \/ SenderDropped(c) \/ ReadFrame(c) \/ PeerGone(c)
WriteStep(c)  == WriteFrame(c) \/ WriteError(c)
==============================================================================
