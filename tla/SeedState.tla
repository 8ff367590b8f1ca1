------------------------------ MODULE SeedState ------------------------------
(***************************************************************************)
(* The state of a network of `singlethreaded/blocking` seed nodes: each    *)
(* has one event loop, a listener thread, and a receive and a send thread  *)
(* per listed peer, all of which talk to the loop through one queue of     *)
(* events.                                                                 *)
(*                                                                         *)
(* A TCP connection has two ends.  An end is closed when the last clone of *)
(* its stream is dropped, so the model keeps who holds a clone of which    *)
(* end.  SeedNode has the actions of event loop and listener, RemotePeer   *)
(* those of the threads per peer, SeedPeers those of peers that are not    *)
(* seed nodes of this program; SeedNetwork composes them.                  *)
(***************************************************************************)
EXTENDS Naturals, Sequences, FiniteSets

CONSTANTS
  Node,      \* the seed nodes
  Remote,    \* other peers of the network
  Conn,      \* connections that may ever be opened
  From, To,  \* who opens a connection, and to which seed node
  NoEnd,     \* no stream
  Starved,   \* seed nodes that may run out of what the system lends a process
  Commands   \* <<node, event>>: what the rest of the program asks of a node

ASSUME SeedConnAssumption ==
  /\ Node \cap Remote = {}
  /\ From \in [Conn -> Node \cup Remote]
  /\ To \in [Conn -> Node]
  /\ Starved \subseteq Node
  /\ NoEnd \notin Conn \X {"out", "in"}

VARIABLES
  events,     \* SeedNode::receiver, an unbounded channel
  loop,       \* where SeedNode::run is
  current,    \* the stream the loop is busy with
  peers,      \* SeedNode::peers, by id: the stream of the RemotePeer
  addr_book,  \* SeedNode::addr_book: entries in the order they were added
  listening,  \* whether the listener thread, and its socket, is there
  backlog,    \* connections the kernel has set up for the listener
  holders,    \* who holds a clone of an end
  inbox,      \* messages sent to an end and not yet read from it
  opened,     \* connections that were set up
  commands    \* commands not yet given

node_vars == <<events, loop, current, peers, addr_book>>
conn_vars == <<listening, backlog, holders, inbox, opened>>
vars == <<node_vars, conn_vars, commands>>

-----------------------------------------------------------------------------
(* Ends of connections.                                                    *)

Out(c) == <<c, "out">>
In(c)  == <<c, "in">>
End    == Conn \X {"out", "in"}

Other(e) == IF e[2] = "out" THEN In(e[1]) ELSE Out(e[1])
Owner(e) == IF e[2] = "out" THEN From[e[1]] ELSE To[e[1]]

\* A peer introduces itself with the id of whoever owns the other end.
Id      == Node \cup Remote
IdOf(e) == Owner(Other(e))

\* TcpStream::local_addr: connections are accepted at the listening address,
\* and opened from a port of their own.
LocalAddr(e) ==
  IF e[2] = "in" THEN [host |-> To[e[1]], port |-> "listening"]
                 ELSE [host |-> From[e[1]], port |-> "ephemeral"]

Addr == [host : Id, port : {"listening", "ephemeral"}]

\* Who may hold an end: the kernel's backlog, an event, the event loop, the
\* RemotePeer and its two threads; "remote" stands for a peer outside Node.
Holder == {"backlog", "event", "loop", "peer", "send", "recv", "remote"}

Closed(e) == e[1] \in opened /\ holders[e] = {}

-----------------------------------------------------------------------------
(* Messages and events.                                                    *)

\* Of the messages only a Hello is told from the others, and from what cannot
\* be read (Wire says what that is).
PeerMessage == {"Hello", "Other"}
Malformed   == "Malformed"
Incoming    == PeerMessage \cup {Malformed}

\* read_peer_message returns an error: what comes next is no message, or the
\* stream has ended.
Unreadable(e) ==
  \/ inbox[e] # << >> /\ Head(inbox[e]) = Malformed
  \/ inbox[e] = << >> /\ Closed(Other(e))

Connected(e)    == [type |-> "Connected", stream |-> e]
Connect(c)      == [type |-> "Connect", conn |-> c]
Disconnect(id)  == [type |-> "Disconnect", id |-> id]
Terminate       == [type |-> "Terminate"]

\* AddedToAddressBook, ReceivedMessage and SendMessage: events the loop
\* publishes and does not handle.
Notice == [type |-> "Notice"]

Event ==
  [type : {"Connected"}, stream : End] \cup [type : {"Connect"}, conn : Conn]
  \cup [type : {"Disconnect"}, id : Id] \cup {Terminate, Notice}

\* Nodes are told to dial, by whoever holds the address of the other, but the
\* streams in Connected events are their own.
ASSUME CommandsAssumption ==
  \A x \in Commands :
    /\ x[1] \in Node /\ x[2] \in Event /\ x = <<x[1], x[2]>>
    /\ x[2].type # "Connected"
    /\ x[2].type = "Connect" => From[x[2].conn] = x[1]

\* running: waits for an event; greeting: has dialled and says Hello; reading:
\* waits for the Hello of a new peer; stopped, failed: run has returned.
LoopState == {"running", "greeting", "reading", "stopped", "failed"}

LoopAlive(n) == loop[n] \notin {"stopped", "failed"}

\* Sending an event fails, and is ignored, once the node is dropped.
Emit(q, n, ev) == IF LoopAlive(n) THEN [q EXCEPT ![n] = Append(@, ev)] ELSE q

-----------------------------------------------------------------------------
SeedInit ==
  /\ events = [n \in Node |-> << >>]
  /\ loop = [n \in Node |-> "running"]
  /\ current = [n \in Node |-> NoEnd]
  /\ peers = [n \in Node |-> [id \in Id |-> NoEnd]]
  /\ addr_book = [n \in Node |-> << >>]
  /\ listening = [n \in Node |-> TRUE]
  /\ backlog = [n \in Node |-> << >>]
  /\ holders = [e \in End |-> {}]
  /\ inbox = [e \in End |-> << >>]
  /\ opened = {}
  /\ commands = Commands

TypeOK ==
  /\ events \in [Node -> Seq(Event)]
  /\ loop \in [Node -> LoopState]
  /\ current \in [Node -> End \cup {NoEnd}]
  /\ peers \in [Node -> [Id -> End \cup {NoEnd}]]
  /\ addr_book \in [Node -> Seq([id : Id, addr : Addr])]
  /\ listening \in [Node -> BOOLEAN]
  /\ backlog \in [Node -> Seq(Conn)]
  /\ holders \in [End -> SUBSET Holder]
  /\ inbox \in [End -> Seq(Incoming)]
  /\ opened \in SUBSET Conn
  /\ commands \in SUBSET (Node \X Event)
=============================================================================
