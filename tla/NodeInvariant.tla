---------------------------- MODULE NodeInvariant ----------------------------
(***************************************************************************)
(* Why the dispatcher of a `multithreaded` node knows every peer it is     *)
(* asked to send to, except for those that came back on a second           *)
(* connection.                                                             *)
(*                                                                         *)
(* The Tendermint thread and the dispatcher learn of a peer, and forget    *)
(* it, at different times.  What keeps them together is the order of the   *)
(* messages about one peer on its way through the two queues:              *)
(*   dispatcher -> Tendermint   PeerConnected, FromPeer*, PeerDisconnected *)
(*   Tendermint -> dispatcher   ToPeer*, DropPeer                          *)
(* and that nothing about the peer is left, in the state of any task or in *)
(* the first queue, once DropPeer is in the second.                        *)
(***************************************************************************)
EXTENDS Node

\* Message m, once in queue q, is followed by none of the set S.
Closes(q, m, S) ==
  \A i, j \in 1 .. Len(q) : i < j /\ q[i] = m => q[j] \notin S

\* The messages about peer p, in either direction, and about connection c.
ToAbout(p)   == {ToPeer(p, m) : m \in PeerMessage} \cup {DropPeer(p)}
FromAbout(p) == {PeerConnected(p), FromPeer(p), PeerDisconnected(p)}
AboutConn(c) == {PeerHandshake(c), HandshakeCompleted(c)}

\* Nothing that could make the Tendermint thread address peer p is left.
Silent(p) ==
  /\ p \notin addr_book
  /\ p \notin to_request
  /\ ~Holds(tendermint_queue, FromAbout(p))
  /\ \A c \in Conn : PeerOf[c] = p => c \notin SubDispatcher

PeerOrder(p) ==
  /\ Holds(dispatcher_queue, {DropPeer(p)}) => Silent(p) /\ Ended(p)
  /\ Closes(dispatcher_queue, DropPeer(p), ToAbout(p))
  /\ Holds(tendermint_queue, {PeerDisconnected(p)}) => Ended(p)
  /\ Closes(tendermint_queue, PeerDisconnected(p), FromAbout(p))
  /\ connected_peers[p] = NoConn => Silent(p) /\ ~Holds(dispatcher_queue, ToAbout(p))

ConnOrder(c) ==
  /\ Holds(dispatcher_queue, {PeerHandshake(c)}) => task[c] = "queued"
  /\ Holds(dispatcher_queue, {HandshakeCompleted(c)}) => task[c] = "completed"
  /\ \A m \in AboutConn(c) : Closes(dispatcher_queue, m, AboutConn(c))

\* A sender leads to a connection of its peer that has completed its handshake.
Established == {"select", "writing", "done"}

Routed(p) ==
  connected_peers[p] # NoConn =>
    /\ PeerOf[connected_peers[p]] = p
    /\ task[connected_peers[p]] \in Established

\* While the dispatcher runs, the messages about a peer on its first connection
\* are in order, no task and no queue remembers such a peer while its removal is
\* under way, every sender leads to a session of its own peer, and a connection
\* has at most one message in the queue (dispatcher.rs:36-67, 79-141,
\* tendermint.rs:131-138, 156-185).
SessionOrder ==
  DispatcherAlive =>
    /\ \A p \in Peer : Routed(p) /\ (~Returned(p) => PeerOrder(p))
    /\ \A c \in Conn : ConnOrder(c)
    /\ tendermint # "ticking" => to_request = {}

SessionInv == TypeOK /\ SessionOrder
=============================================================================
