------------------------------ MODULE NodeState ------------------------------
(***************************************************************************)
(* The state of one running `multithreaded` node: the two queues between   *)
(* the Tendermint thread and the networking tasks, the state each of them  *)
(* owns, and the TCP connections to remote peers.                          *)
(*                                                                         *)
(* Every component of the node is an event loop that owns its state and    *)
(* talks to the others only through channels, so a component is a module   *)
(* of actions over these variables: Dispatcher (the acceptor, the          *)
(* dispatcher task, the handshake tasks and the per-peer tasks),           *)
(* Tendermint (the Tendermint thread) and Peers (the remote ends, which    *)
(* are not part of the program).  Node composes them.                      *)
(***************************************************************************)
EXTENDS Naturals, Sequences, FiniteSets

CONSTANTS
  Peer,       \* ids of the remote nodes (PeerId)
  Conn,       \* TCP connections that may ever be accepted
  PeerOf,     \* the remote node at the other end of a connection
  NoConn,     \* "this peer has no entry in connected_peers"
  Sends,      \* the kinds of frames the peers of this instance send
  SocketCap,  \* frames the kernel buffers before a write to a peer blocks
  InboxCap,   \* bound: unread frames a peer leaves on one connection
  Backlog     \* bound: queued messages beyond which peers and ticker pause

ASSUME ConnAssumption ==
  /\ PeerOf \in [Conn -> Peer]
  /\ NoConn \notin Conn

ASSUME BoundAssumption ==
  /\ Sends \subseteq {"Hello", "AddressBookRequest", "Malformed"}
  /\ SocketCap \in Nat \ {0}
  /\ InboxCap \in Nat \ {0}
  /\ Backlog \in Nat \ {0}

VARIABLES
  dispatcher_queue,   \* Dispatcher::receiver, an unbounded mpsc channel
  tendermint_queue,   \* Tendermint::dispatcher_receiver, an unbounded channel
  tendermint,         \* where the Tendermint thread is
  addr_book,          \* keys of Tendermint::addr_book
  to_request,         \* entries the tick loop has still to send a request to
  abci,               \* the exit handshake, seen from the ABCI layer
  exit_ack,           \* confirmation of DispatcherMsg::Exit was sent
  dispatcher,         \* whether the dispatcher task runs
  connected_peers,    \* Dispatcher::connected_peers: the sender of each peer
  task,               \* the task that owns each connection
  peer_queue,         \* the bounded mpsc channel into each per-peer task
  inbox,              \* frames sent by the peer and not yet decoded
  unread,             \* frames written to the peer that it has not read
  closed              \* the peer has closed (or lost) the connection

tendermint_vars == <<tendermint, addr_book, to_request, abci>>
dispatcher_vars == <<dispatcher, connected_peers, exit_ack>>
conn_vars       == <<task, peer_queue, inbox, unread, closed>>
queue_vars      == <<dispatcher_queue, tendermint_queue>>
vars == <<queue_vars, tendermint_vars, dispatcher_vars, conn_vars>>

-----------------------------------------------------------------------------
(* Messages.                                                               *)

\* What a node writes to a peer (PeerMessage).
AddressBookRequest         == [kind |-> "AddressBookRequest"]
AddressBookResponse(peers) == [kind |-> "AddressBookResponse", peers |-> peers]

PeerMessage ==
  {AddressBookRequest} \cup {AddressBookResponse(peers) : peers \in SUBSET Peer}

\* What a peer writes to the node, as far as the node tells the frames apart.
\* Malformed is all that the framing or the JSON decoder refuses.
Frame == {"Hello", "AddressBookRequest", "Malformed"}

\* The stream of connection c yields an error, or nothing any more.
Unreadable(c) ==
  \/ inbox[c] # << >> /\ Head(inbox[c]) = "Malformed"
  \/ inbox[c] = << >> /\ closed[c]

\* DispatcherMsg
PeerHandshake(c)      == [type |-> "PeerHandshake", conn |-> c]
HandshakeCompleted(c) == [type |-> "HandshakeCompleted", conn |-> c]
ToPeer(p, m)          == [type |-> "ToPeer", peer |-> p, msg |-> m]
DropPeer(p)           == [type |-> "PeerDisconnected", peer |-> p]
Exit                  == [type |-> "Exit"]

DispatcherMsg ==
       [type : {"PeerHandshake", "HandshakeCompleted"}, conn : Conn]
  \cup [type : {"ToPeer"}, peer : Peer, msg : PeerMessage]
  \cup [type : {"PeerDisconnected"}, peer : Peer]
  \cup {Exit}

\* FromDispatcherMsg.  The only PeerMessage a per-peer task passes on is an
\* AddressBookRequest that carries the id of the peer that asks.
PeerConnected(p)    == [type |-> "PeerConnected", peer |-> p]
PeerDisconnected(p) == [type |-> "PeerDisconnected", peer |-> p]
FromPeer(p)         == [type |-> "FromPeer", peer |-> p]

FromDispatcherMsg ==
  [type : {"PeerConnected", "PeerDisconnected", "FromPeer"}, peer : Peer]

-----------------------------------------------------------------------------
(* Control states.                                                         *)

\* running: in select!; ticking: inside the loop over addr_book; stopping:
\* blocked on the dispatcher's confirmation; reporting: blocked on the ABCI
\* layer after the dispatcher is gone; stopped, halted, panicked: the thread
\* has ended (after Exit, after reporting, on a failed expect).
TendermintState ==
  {"running", "ticking", "stopping", "reporting", "stopped", "halted", "panicked"}

\* idle: no exit requested; exiting: TendermintMsg::Exit sent; confirmed: the
\* Tendermint thread has answered.
AbciState == {"idle", "exiting", "confirmed"}

DispatcherState == {"running", "exited", "panicked"}

\* none: not accepted; queued, completed: the stream travels in a
\* PeerHandshake or HandshakeCompleted message; greeting, awaiting: a handshake
\* task says Hello, waits for Hello; select, writing: a per-peer task waits in
\* select!, writes a frame; done: the task ended and dropped the stream.
TaskState ==
  {"none", "queued", "greeting", "awaiting", "completed", "select", "writing", "done"}

SubDispatcher == {c \in Conn : task[c] \in {"select", "writing"}}

DispatcherAlive == dispatcher = "running"
TendermintAlive == tendermint \notin {"stopped", "halted", "panicked"}

\* A send fails, and its result is ignored, once the receiver is dropped.
SendToDispatcher(m) ==
  dispatcher_queue' =
    IF DispatcherAlive THEN Append(dispatcher_queue, m) ELSE dispatcher_queue

SendToTendermint(m) ==
  tendermint_queue' =
    IF TendermintAlive THEN Append(tendermint_queue, m) ELSE tendermint_queue

NodeInit ==
  /\ dispatcher_queue = << >>
  /\ tendermint_queue = << >>
  /\ tendermint = "running"
  /\ addr_book = {}
  /\ to_request = {}
  /\ abci = "idle"
  /\ exit_ack = FALSE
  /\ dispatcher = "running"
  /\ connected_peers = [p \in Peer |-> NoConn]
  /\ task = [c \in Conn |-> "none"]
  /\ peer_queue = [c \in Conn |-> << >>]
  /\ inbox = [c \in Conn |-> << >>]
  /\ unread = [c \in Conn |-> 0]
  /\ closed = [c \in Conn |-> FALSE]

\* Capacity of the channel into a per-peer task: mpsc::channel(1).
PeerQueueCap == 1

\* Every variable has its type, a per-peer channel never holds more than its
\* capacity (dispatcher.rs:80) and a socket never more than the kernel buffers.
TypeOK ==
  /\ dispatcher_queue \in Seq(DispatcherMsg)
  /\ tendermint_queue \in Seq(FromDispatcherMsg)
  /\ tendermint \in TendermintState
  /\ addr_book \in SUBSET Peer
  /\ to_request \in SUBSET Peer
  /\ abci \in AbciState
  /\ exit_ack \in BOOLEAN
  /\ dispatcher \in DispatcherState
  /\ connected_peers \in [Peer -> Conn \cup {NoConn}]
  /\ task \in [Conn -> TaskState]
  /\ peer_queue \in [Conn -> Seq(PeerMessage)]
  /\ \A c \in Conn : Len(peer_queue[c]) <= PeerQueueCap
  /\ inbox \in [Conn -> Seq(Frame)]
  /\ unread \in [Conn -> 0 .. SocketCap]
  /\ closed \in [Conn -> BOOLEAN]
==============================================================================
