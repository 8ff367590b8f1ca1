--------------------------------- MODULE Node ---------------------------------
(***************************************************************************)
(* A running `multithreaded` node: the networking tasks and the Tendermint *)
(* thread, joined by their two queues, among remote peers that connect,    *)
(* talk and leave at any moment.                                           *)
(***************************************************************************)
EXTENDS Dispatcher, Tendermint, Peers

Init == NodeInit

ConnStep(c) ==
  \/ MayConnect(c) /\ Accept(c)
  \/ HandshakeStep(c)
  \/ SelectStep(c)
  \/ WriteStep(c)

PeerStep(c) ==
  \/ \E frame \in Sends : PeerSends(c, frame)
  \/ PeerReads(c)
  \/ PeerCloses(c)

Next ==
  \/ DispatcherStep
  \/ TendermintStep
  \/ \E c \in Conn : ConnStep(c) \/ PeerStep(c)
  \/ AbciReplies
  \/ RequestExit

Spec == Init /\ [][Next]_vars

-----------------------------------------------------------------------------
(* Fairness.  A task or thread that can run is eventually run: weak        *)
(* fairness.  Both select! macros pick at random among the branches that   *)
(* are ready, so a branch that is ready again and again is eventually      *)
(* taken: strong fairness.  Peers may go silent but keep reading what is   *)
(* sent to them until they close.                                          *)

ThreadFairness ==
  /\ WF_vars((\E p \in Peer : RequestAddrBook(p)) \/ ConfirmExit \/ ExitUnanswered)
  /\ SF_vars(HandleExitRequest)
  /\ SF_vars(DispatcherGone)
  /\ SF_vars(\E p \in Peer : \/ HandleFromPeer(p)
                             \/ HandlePeerConnected(p)
                             \/ HandlePeerDisconnected(p))

\* The way of a message out of the dispatcher's queue and on to the peer.
DeliveryFairness ==
  /\ WF_vars(DispatcherStep)
  /\ \A c \in Conn : /\ WF_vars(WriteStep(c))
                     /\ SF_vars(TakeFromQueue(c) \/ SenderDropped(c))
                     /\ WF_vars(PeerReads(c))

\* What suffices for whatever does not depend on the peers sending or closing.
LocalSpec == Spec /\ ThreadFairness /\ DeliveryFairness

FairSpec ==
  /\ LocalSpec
  /\ \A c \in Conn : /\ WF_vars(HandshakeStep(c))
                     /\ SF_vars(ReadFrame(c) \/ PeerGone(c))

-----------------------------------------------------------------------------
(* Safety.                                                                 *)

\* Peer p has opened more than one connection so far.
Returned(p) ==
  \E c, d \in Conn : /\ c # d /\ PeerOf[c] = p /\ PeerOf[d] = p
                     /\ task[c] # "none" /\ task[d] # "none"

\* No peer ever comes back on a second connection.
OneSession == \A c, d \in Conn : PeerOf[c] = PeerOf[d] => c = d

\* The dispatcher is never asked to send to a peer it has no entry for: the
\* expect "Attempt to send msg to disconnected peer." (dispatcher.rs:59) holds,
\* although the Tendermint thread decides from its own address book and its
\* messages reach the dispatcher late.
NoSendToDisconnected == dispatcher # "panicked"

\* What does make that expect fail is a message to a peer that came back, and
\* never one to a peer on its first connection, whoever else comes and goes: the
\* messages about one peer keep their order through both queues
\* (dispatcher.rs:54-64, 79-85, tendermint.rs:131-138, 156-185).
PanicsOnlyOverReturned ==
  [][dispatcher' = "panicked" /\ dispatcher # "panicked" =>
       \E p \in Peer, m \in PeerMessage :
         Returned(p) /\ DispatcherReceives(ToPeer(p, m))]_vars

\* Some message of queue q is in the set S.
Holds(q, S) == \E i \in 1 .. Len(q) : q[i] \in S

\* The messages in queue q.
Contents(q) == {q[i] : i \in 1 .. Len(q)}

\* Messages on their way to peer p.
Outbound(p) ==
  LET undelivered == {d \in Contents(dispatcher_queue) : d.type = "ToPeer" /\ d.peer = p}
  IN  {d.msg : d \in undelivered}
        \cup UNION {Contents(peer_queue[c]) : c \in {e \in Conn : PeerOf[e] = p}}

\* A peer that asks for the address book on its first connection finds itself in
\* the answer: its PeerConnected is handled before, and its PeerDisconnected
\* after, any request it made (dispatcher.rs:83-85, 112-114,
\* tendermint.rs:160-165).
RequesterListed ==
  \A p \in Peer : \A m \in Outbound(p) :
    ~Returned(p) /\ m.kind = "AddressBookResponse" => p \in m.peers

\* The ABCI layer gets its confirmation only after the dispatcher took Exit, its
\* last message (tendermint.rs:142-150), and "Failed to shutdown dispatcher" (:147) cannot
\* happen unless the dispatcher itself panicked.
OrderlyExit ==
  /\ abci = "confirmed" => dispatcher = "exited"
  /\ tendermint = "panicked" => dispatcher = "panicked"

\* The address book (Tendermint thread) and the map of senders (dispatcher) are
\* kept by different tasks and updated by messages only; whenever both queues
\* are drained they agree on every peer that has not come back, and its per-peer
\* task is the one its sender leads to (dispatcher.rs:62-64, 79-85,
\* tendermint.rs:174-185).
IdleAgreement ==
  /\ tendermint = "running" /\ DispatcherAlive
  /\ dispatcher_queue = << >> /\ tendermint_queue = << >>
  => \A p \in Peer : ~Returned(p) =>
       /\ p \in addr_book <=> connected_peers[p] # NoConn
       /\ \A c \in SubDispatcher : PeerOf[c] = p => connected_peers[p] = c

-----------------------------------------------------------------------------
(* What the node is to its peers.                                          *)

\* A connection of the peer has come and gone.
Ended(p) == \E c \in Conn : PeerOf[c] = p /\ task[c] = "done"

\* How far the membership of peer p has come, by who knows of it and what is
\* under way.
Stage(p) ==
  IF Returned(p) THEN "back"
  ELSE IF connected_peers[p] = NoConn THEN IF Ended(p) THEN "gone" ELSE "away"
  ELSE IF p \in addr_book THEN "member"
  ELSE IF Holds(tendermint_queue, {PeerConnected(p)}) THEN "joined"
  ELSE "leaving"

\* A per-peer task serves peer p on its first connection.
Served(p) == ~Returned(p) /\ \E c \in SubDispatcher : PeerOf[c] = p

MailTo(p) == IF Returned(p) THEN {} ELSE Outbound(p)

\* The peer gave up connection c: it closed it, or sent what does not decode.
GivenUp(c) == closed[c] \/ "Malformed" \in Contents(inbox[c])

\* Peers that gave up a connection, or have one behind them.
HungUp == {p \in Peer : DispatcherAlive /\
             \/ Returned(p) \/ Ended(p)
             \/ \E c \in Conn : PeerOf[c] = p /\ GivenUp(c)}

Stages    == [p \in Peer |-> IF DispatcherAlive THEN Stage(p) ELSE "void"]
InSession == {p \in Peer : DispatcherAlive /\ Served(p)}
Mail      == [p \in Peer |-> IF DispatcherAlive THEN MailTo(p) ELSE {}]

Club == INSTANCE Membership WITH
  open   <- DispatcherAlive,
  asked  <- abci # "idle",
  hungup <- HungUp,
  stage  <- Stages,
  live   <- InSession,
  mail   <- Mail

\* To each peer on its first connection the node is a Membership: the session
\* ends only when the peer has hung up or sent what does not decode; the peer is
\* listed once, after it joined, until the session is over; it is written to only
\* while listed, an answer names exactly who is listed when it is written, and
\* everything written has left the queues when the dispatcher forgets the peer;
\* and the dispatcher ends only when an exit was requested or some peer came back
\* (dispatcher.rs:36-76, 79-141, tendermint.rs:131-138, 156-185).
ImplementsMembership == Club!Spec

-----------------------------------------------------------------------------
(* Liveness, under FairSpec or the part of it that a run names.            *)

\* An exit request is answered (tendermint.rs:139-155), whatever the peers do:
\* a peer slow to read delays the dispatcher, and with it the exit, only until
\* it reads or closes.
ExitConfirmed == abci = "exiting" ~> abci = "confirmed"

\* A connection the peer closed, or on which it sent what does not decode, is
\* released by the node, in whatever task or message it is at that moment
\* (dispatcher.rs:40-53, 90-141).
ConnReleased == \A c \in Conn : GivenUp(c) ~> task[c] = "done"

\* "this will result in dropping our map of senders per connected peers, which
\* will result in the exit of the corresponding spawned tasks"
\* (dispatcher.rs:69-70).
SubTasksExit == ~DispatcherAlive ~> SubDispatcher = {}

\* A request the peer sent in a session is answered unless the peer closes, or
\* sends what does not decode, or the node is told to exit (dispatcher.rs:107-127,
\* tendermint.rs:160-165).
RequestAnswered ==
  \A c \in Conn :
    (task[c] = "select" /\ inbox[c] # << >> /\ Head(inbox[c]) = "AddressBookRequest")
      ~> \/ \E i \in 1 .. Len(peer_queue[c]) :
              peer_queue[c][i].kind = "AddressBookResponse"
         \/ GivenUp(c)
         \/ abci # "idle"

\* "Dispatcher is gone, exit." (tendermint.rs:186-193): a dispatcher that
\* panicked does not leave the Tendermint thread running.
DispatcherLossNoticed ==
  dispatcher = "panicked" ~> tendermint \in {"reporting", "halted", "panicked"}

\* The per-peer task of a connection that a later one of the same peer has
\* replaced comes to an end (dispatcher.rs:81, 100-105).
ReplacedSessionEnds ==
  \A c \in Conn :
    (c \in SubDispatcher /\ connected_peers[PeerOf[c]] # c) ~> task[c] = "done"
=============================================================================
