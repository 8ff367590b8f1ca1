------------------------------ MODULE NodeProofs ------------------------------
(***************************************************************************)
(* Theorems about Node, for any number of peers and connections and any    *)
(* bounds.                                                                 *)
(***************************************************************************)
EXTENDS NodeInvariant, SequenceTheorems, TLAPS

-----------------------------------------------------------------------------
(* Messages and queues.                                                    *)

LEMMA MessageTypes ==
  /\ \A c \in Conn : /\ PeerHandshake(c) \in DispatcherMsg
                     /\ HandshakeCompleted(c) \in DispatcherMsg
  /\ \A p \in Peer, m \in PeerMessage : ToPeer(p, m) \in DispatcherMsg
  /\ \A p \in Peer : DropPeer(p) \in DispatcherMsg
  /\ Exit \in DispatcherMsg
  /\ \A p \in Peer : /\ PeerConnected(p) \in FromDispatcherMsg
                     /\ PeerDisconnected(p) \in FromDispatcherMsg
                     /\ FromPeer(p) \in FromDispatcherMsg
  /\ AddressBookRequest \in PeerMessage
  /\ \A s \in SUBSET Peer : AddressBookResponse(s) \in PeerMessage
<1>1. \A c \in Conn : /\ PeerHandshake(c) \in DispatcherMsg
                      /\ HandshakeCompleted(c) \in DispatcherMsg
  BY DEF DispatcherMsg, PeerHandshake, HandshakeCompleted
<1>2. \A p \in Peer, m \in PeerMessage : ToPeer(p, m) \in DispatcherMsg
  BY DEF DispatcherMsg, ToPeer
<1>3. \A p \in Peer : DropPeer(p) \in DispatcherMsg
  BY DEF DispatcherMsg, DropPeer
<1>4. Exit \in DispatcherMsg
  BY DEF DispatcherMsg
<1>5. \A p \in Peer : /\ PeerConnected(p) \in FromDispatcherMsg
                      /\ PeerDisconnected(p) \in FromDispatcherMsg
                      /\ FromPeer(p) \in FromDispatcherMsg
  BY DEF FromDispatcherMsg, PeerConnected, PeerDisconnected, FromPeer
<1>6. AddressBookRequest \in PeerMessage
  BY DEF PeerMessage
<1>7. \A s \in SUBSET Peer : AddressBookResponse(s) \in PeerMessage
  BY DEF PeerMessage
<1> QED
  BY <1>1, <1>2, <1>3, <1>4, <1>5, <1>6, <1>7

LEMMA SendToDispatcherType ==
  ASSUME dispatcher_queue \in Seq(DispatcherMsg),
         NEW m \in DispatcherMsg, SendToDispatcher(m)
  PROVE  dispatcher_queue' \in Seq(DispatcherMsg)
BY DEF SendToDispatcher

LEMMA SendToTendermintType ==
  ASSUME tendermint_queue \in Seq(FromDispatcherMsg),
         NEW m \in FromDispatcherMsg, SendToTendermint(m)
  PROVE  tendermint_queue' \in Seq(FromDispatcherMsg)
BY DEF SendToTendermint

LEMMA EndTaskType ==
  ASSUME TypeOK, NEW c \in Conn, EndTask(c)
  PROVE  /\ task' \in [Conn -> TaskState]
         /\ peer_queue' \in [Conn -> Seq(PeerMessage)]
         /\ \A d \in Conn : Len(peer_queue'[d]) <= PeerQueueCap
         /\ inbox' \in [Conn -> Seq(Frame)]
BY DEF EndTask, TypeOK, TaskState, PeerQueueCap

LEMMA DropDispatcherType ==
  ASSUME TypeOK, NEW how \in DispatcherState, DropDispatcher(how)
  PROVE  /\ dispatcher' \in DispatcherState
         /\ dispatcher_queue' \in Seq(DispatcherMsg)
         /\ connected_peers' \in [Peer -> Conn \cup {NoConn}]
         /\ task' \in [Conn -> TaskState]
         /\ inbox' \in [Conn -> Seq(Frame)]
BY DEF DropDispatcher, TypeOK, TaskState

-----------------------------------------------------------------------------
(* Type correctness.                                                       *)

LEMMA DispatcherStepType == TypeOK /\ DispatcherStep => TypeOK'
<1> SUFFICES ASSUME TypeOK, DispatcherStep PROVE TypeOK'
  OBVIOUS
<1> USE ConnAssumption, BoundAssumption, MessageTypes DEF TypeOK
<1>1. ASSUME NEW c \in Conn, HandlePeerHandshake(c) PROVE TypeOK'
  BY <1>1 DEF HandlePeerHandshake, DispatcherReceives, TaskState, tendermint_vars,
    dispatcher_vars
<1>2. ASSUME NEW c \in Conn, HandleHandshakeCompleted(c) PROVE TypeOK'
  BY <1>2, SendToTendermintType DEF HandleHandshakeCompleted, DispatcherReceives,
    TaskState, tendermint_vars
<1>3. ASSUME NEW p \in Peer, NEW m \in PeerMessage, DeliverToPeer(p, m) PROVE TypeOK'
  <2> DEFINE c == connected_peers[p]
  <2>1. c \in Conn
    BY <1>3 DEF DeliverToPeer
  <2>2. peer_queue' \in [Conn -> Seq(PeerMessage)]
    BY <1>3, <2>1 DEF DeliverToPeer
  <2>3. \A d \in Conn : Len(peer_queue'[d]) <= PeerQueueCap
    BY <1>3, <2>1 DEF DeliverToPeer, SendReady, PeerQueueCap
  <2> QED
    BY <1>3, <2>2, <2>3 DEF DeliverToPeer, DispatcherReceives, tendermint_vars,
      dispatcher_vars
<1>4. ASSUME NEW p \in Peer, NEW m \in PeerMessage, PanicOnUnknownPeer(p, m) PROVE TypeOK'
  BY <1>4, DropDispatcherType DEF PanicOnUnknownPeer, DispatcherState, tendermint_vars
<1>5. ASSUME NEW p \in Peer, HandleDropPeer(p) PROVE TypeOK'
  BY <1>5 DEF HandleDropPeer, DispatcherReceives, tendermint_vars, conn_vars
<1>6. ASSUME HandleExit PROVE TypeOK'
  BY <1>6, DropDispatcherType DEF HandleExit, DispatcherState, tendermint_vars
<1> QED
  BY <1>1, <1>2, <1>3, <1>4, <1>5, <1>6 DEF DispatcherStep

LEMMA TendermintStepType == TypeOK /\ (TendermintStep \/ AbciReplies) => TypeOK'
<1> SUFFICES ASSUME TypeOK, TendermintStep \/ AbciReplies PROVE TypeOK'
  OBVIOUS
<1> USE MessageTypes, SendToDispatcherType
    DEF TypeOK, TendermintState, TendermintReceives, dispatcher_vars, conn_vars, queue_vars
<1>1. CASE Tick
  BY <1>1 DEF Tick
<1>2. ASSUME NEW p \in Peer, RequestAddrBook(p) PROVE TypeOK'
  BY <1>2 DEF RequestAddrBook
<1>3. ASSUME NEW p \in Peer, HandleFromPeer(p) PROVE TypeOK'
  BY <1>3 DEF HandleFromPeer, tendermint_vars
<1>4. ASSUME NEW p \in Peer, HandlePeerConnected(p) PROVE TypeOK'
  BY <1>4 DEF HandlePeerConnected
<1>5. ASSUME NEW p \in Peer, HandlePeerDisconnected(p) PROVE TypeOK'
  BY <1>5 DEF HandlePeerDisconnected
<1>6. CASE DispatcherGone
  BY <1>6 DEF DispatcherGone
<1>7. CASE AbciReplies
  BY <1>7 DEF AbciReplies, EndThread
<1>8. CASE HandleExitRequest
  BY <1>8 DEF HandleExitRequest
<1>9. CASE ConfirmExit
  BY <1>9 DEF ConfirmExit, EndThread, AbciState
<1>10. CASE ExitUnanswered
  BY <1>10 DEF ExitUnanswered, EndThread
<1> QED
  BY <1>1, <1>2, <1>3, <1>4, <1>5, <1>6, <1>7, <1>8, <1>9, <1>10 DEF TendermintStep

LEMMA ConnStepType == ASSUME NEW c \in Conn PROVE TypeOK /\ ConnStep(c) => TypeOK'
<1> SUFFICES ASSUME TypeOK, ConnStep(c) PROVE TypeOK'
  OBVIOUS
<1> USE ConnAssumption, BoundAssumption, MessageTypes, EndTaskType, SendToDispatcherType,
        SendToTendermintType
    DEF TypeOK, TaskState, tendermint_vars, dispatcher_vars, conn_vars, queue_vars
<1>1. CASE Accept(c)
  BY <1>1 DEF Accept
<1>2. CASE Greet(c)
  <2>1. ASSUME WriteSucceeds(c), task' = [task EXCEPT ![c] = "awaiting"],
               UNCHANGED <<peer_queue, inbox>>
        PROVE  TypeOK'
    BY <1>2, <2>1 DEF Greet, WriteSucceeds
  <2>2. ASSUME WriteFails(c), EndTask(c) PROVE TypeOK'
    BY <1>2, <2>2 DEF Greet, WriteFails
  <2> QED
    BY <1>2, <2>1, <2>2 DEF Greet
<1>3. CASE AwaitHello(c)
  <2>1. CASE EndTask(c) /\ UNCHANGED dispatcher_queue
    BY <1>3, <2>1 DEF AwaitHello
  <2> DEFINE Read == inbox' = [inbox EXCEPT ![c] = Tail(@)]
  <2>2. CASE /\ SendToDispatcher(HandshakeCompleted(c))
             /\ task' = [task EXCEPT ![c] = "completed"]
             /\ Read /\ UNCHANGED peer_queue
    BY <1>3, <2>2 DEF AwaitHello
  <2>3. CASE Read /\ UNCHANGED <<dispatcher_queue, task, peer_queue>>
    BY <1>3, <2>3 DEF AwaitHello
  <2> QED
    BY <1>3, <2>1, <2>2, <2>3 DEF AwaitHello
<1>4. CASE HandshakeLost(c)
  BY <1>4 DEF HandshakeLost
<1>5. CASE TakeFromQueue(c)
  BY <1>5 DEF TakeFromQueue, PeerQueueCap
<1>6. CASE SenderDropped(c)
  BY <1>6 DEF SenderDropped
<1>7. CASE ReadFrame(c)
  BY <1>7 DEF ReadFrame
<1>8. CASE PeerGone(c)
  BY <1>8 DEF PeerGone
<1>9. CASE WriteFrame(c)
  BY <1>9 DEF WriteFrame, WriteSucceeds
<1>10. CASE WriteError(c)
  BY <1>10 DEF WriteError, WriteFails
<1> QED
  BY <1>1, <1>2, <1>3, <1>4, <1>5, <1>6, <1>7, <1>8, <1>9, <1>10
  DEF ConnStep, HandshakeStep, SelectStep, WriteStep

LEMMA PeerStepType == ASSUME NEW c \in Conn PROVE TypeOK /\ PeerStep(c) => TypeOK'
<1> SUFFICES ASSUME TypeOK, PeerStep(c) PROVE TypeOK'
  OBVIOUS
<1> USE BoundAssumption
    DEF TypeOK, tendermint_vars, dispatcher_vars, conn_vars, queue_vars
<1>1. ASSUME NEW frame \in Sends, PeerSends(c, frame) PROVE TypeOK'
  BY <1>1 DEF PeerSends, Frame
<1>2. CASE PeerReads(c)
  BY <1>2 DEF PeerReads
<1>3. CASE PeerCloses(c)
  <2>1. CASE UNCHANGED inbox
    BY <1>3, <2>1 DEF PeerCloses
  <2>2. CASE inbox' = [inbox EXCEPT ![c] = << >>]
    BY <1>3, <2>2 DEF PeerCloses
  <2> QED
    BY <1>3, <2>1, <2>2 DEF PeerCloses
<1> QED
  BY <1>1, <1>2, <1>3 DEF PeerStep

LEMMA InitType == Init => TypeOK
<1> SUFFICES ASSUME NodeInit PROVE TypeOK
  BY DEF Init
<1>1. /\ peer_queue \in [Conn -> Seq(PeerMessage)]
      /\ inbox \in [Conn -> Seq(Frame)]
      /\ \A c \in Conn : Len(peer_queue[c]) <= PeerQueueCap
  BY DEF NodeInit, PeerQueueCap
<1>2. unread \in [Conn -> 0 .. SocketCap]
  BY BoundAssumption DEF NodeInit
<1>3. connected_peers \in [Peer -> Conn \cup {NoConn}]
  BY DEF NodeInit
<1>4. task \in [Conn -> TaskState] /\ closed \in [Conn -> BOOLEAN]
  BY DEF NodeInit, TaskState
<1>5. /\ dispatcher_queue \in Seq(DispatcherMsg)
      /\ tendermint_queue \in Seq(FromDispatcherMsg)
  BY DEF NodeInit
<1>6. /\ tendermint \in TendermintState /\ abci \in AbciState
      /\ dispatcher \in DispatcherState
      /\ addr_book \in SUBSET Peer /\ to_request \in SUBSET Peer
      /\ exit_ack \in BOOLEAN
  BY DEF NodeInit, TendermintState, AbciState, DispatcherState
<1> QED
  BY <1>1, <1>2, <1>3, <1>4, <1>5, <1>6 DEF TypeOK

LEMMA NextType == TypeOK /\ [Next]_vars => TypeOK'
<1> SUFFICES ASSUME TypeOK, [Next]_vars PROVE TypeOK'
  OBVIOUS
<1>1. CASE RequestExit
  BY <1>1 DEF RequestExit, TypeOK, AbciState, queue_vars, dispatcher_vars, conn_vars
<1>2. CASE UNCHANGED vars
  BY <1>2 DEF vars, TypeOK, queue_vars, tendermint_vars, dispatcher_vars, conn_vars
<1> QED
  BY <1>1, <1>2, DispatcherStepType, TendermintStepType, ConnStepType, PeerStepType
  DEF Next

\* Every variable keeps its type, whatever the number of peers and connections:
\* in particular the dispatcher never overfills a per-peer channel
\* (dispatcher.rs:60, 80) and no task writes past what a socket buffers.
THEOREM TypeCorrect == Spec => []TypeOK
BY InitType, NextType, PTL DEF Spec

-----------------------------------------------------------------------------
(* What appending to a queue and removing its head does to what it holds   *)
(* and to the order of its messages.                                       *)

LEMMA HoldsAppend ==
  ASSUME NEW T, NEW q \in Seq(T), NEW m \in T, NEW S
  PROVE  Holds(Append(q, m), S) <=> Holds(q, S) \/ m \in S
<1>1. /\ Len(Append(q, m)) = Len(q) + 1 /\ Len(q) \in Nat
      /\ \A i \in 1 .. Len(q) : Append(q, m)[i] = q[i]
      /\ Append(q, m)[Len(q) + 1] = m
  OBVIOUS
<1> QED
  BY <1>1 DEF Holds

LEMMA HoldsTail ==
  ASSUME NEW T, NEW q \in Seq(T), q # << >>, NEW S
  PROVE  /\ Holds(Tail(q), S) => Holds(q, S)
         /\ Head(q) \in S => Holds(q, S)
<1>1. /\ Len(q) \in Nat \ {0} /\ Len(Tail(q)) = Len(q) - 1
      /\ \A i \in 1 .. Len(Tail(q)) : Tail(q)[i] = q[i + 1] /\ i + 1 \in 1 .. Len(q)
      /\ Head(q) = q[1]
  BY HeadTailProperties
<1> QED
  BY <1>1 DEF Holds

LEMMA ClosesAppend ==
  ASSUME NEW T, NEW q \in Seq(T), NEW m \in T, NEW n, NEW S,
         Closes(q, n, S), m \in S => ~Holds(q, {n})
  PROVE  Closes(Append(q, m), n, S)
<1>1. /\ Len(Append(q, m)) = Len(q) + 1 /\ Len(q) \in Nat
      /\ \A i \in 1 .. Len(q) : Append(q, m)[i] = q[i]
      /\ Append(q, m)[Len(q) + 1] = m
  OBVIOUS
<1> QED
  BY <1>1 DEF Holds, Closes

LEMMA ClosesTail ==
  ASSUME NEW T, NEW q \in Seq(T), q # << >>, NEW n, NEW S, Closes(q, n, S)
  PROVE  /\ Closes(Tail(q), n, S)
         /\ Head(q) = n => ~Holds(Tail(q), S)
<1>1. /\ Len(q) \in Nat \ {0} /\ Len(Tail(q)) = Len(q) - 1
      /\ \A i \in 1 .. Len(Tail(q)) : Tail(q)[i] = q[i + 1] /\ i + 1 \in 2 .. Len(q)
      /\ Head(q) = q[1]
  BY HeadTailProperties
<1> QED
  BY <1>1 DEF Holds, Closes

LEMMA EmptyQueue ==
  ASSUME NEW n, NEW S
  PROVE  ~Holds(<< >>, S) /\ Closes(<< >>, n, S)
BY DEF Holds, Closes

\* The queues before and after a message is sent.
LEMMA DispatcherQueueGrows ==
  ASSUME TypeOK, DispatcherAlive, NEW m \in DispatcherMsg, SendToDispatcher(m)
  PROVE  /\ \A S : Holds(dispatcher_queue', S) <=> Holds(dispatcher_queue, S) \/ m \in S
         /\ \A n, S : /\ Closes(dispatcher_queue, n, S)
                      /\ m \in S => ~Holds(dispatcher_queue, {n})
                      => Closes(dispatcher_queue', n, S)
BY HoldsAppend, ClosesAppend DEF TypeOK, SendToDispatcher

LEMMA TendermintQueueGrows ==
  ASSUME TypeOK, NEW m \in FromDispatcherMsg, SendToTendermint(m)
  PROVE  /\ \A S : Holds(tendermint_queue', S) => Holds(tendermint_queue, S) \/ m \in S
         /\ \A n, S : /\ Closes(tendermint_queue, n, S)
                      /\ m \in S => ~Holds(tendermint_queue, {n})
                      => Closes(tendermint_queue', n, S)
BY HoldsAppend, ClosesAppend DEF TypeOK, SendToTendermint

\* The queues before and after a message is received.
LEMMA DispatcherQueueShrinks ==
  ASSUME TypeOK, dispatcher_queue # << >>, dispatcher_queue' = Tail(dispatcher_queue)
  PROVE  /\ \A S : Holds(dispatcher_queue', S) => Holds(dispatcher_queue, S)
         /\ \A S : Head(dispatcher_queue) \in S => Holds(dispatcher_queue, S)
         /\ \A n, S : Closes(dispatcher_queue, n, S) =>
              /\ Closes(dispatcher_queue', n, S)
              /\ Head(dispatcher_queue) = n => ~Holds(dispatcher_queue', S)
BY HoldsTail, ClosesTail DEF TypeOK

LEMMA TendermintQueueShrinks ==
  ASSUME TypeOK, tendermint_queue # << >>, tendermint_queue' = Tail(tendermint_queue)
  PROVE  /\ \A S : Holds(tendermint_queue', S) => Holds(tendermint_queue, S)
         /\ \A S : Head(tendermint_queue) \in S => Holds(tendermint_queue, S)
         /\ \A n, S : Closes(tendermint_queue, n, S) =>
              /\ Closes(tendermint_queue', n, S)
              /\ Head(tendermint_queue) = n => ~Holds(tendermint_queue', S)
BY HoldsTail, ClosesTail DEF TypeOK

-----------------------------------------------------------------------------
(* Messages about different peers or connections are different messages.   *)

LEMMA MessagesToPeers ==
  ASSUME NEW p \in Peer
  PROVE  /\ DropPeer(p) \in ToAbout(p)
         /\ \A m \in PeerMessage : ToPeer(p, m) \in ToAbout(p)
         /\ \A r \in Peer : /\ DropPeer(p) \in ToAbout(r) => p = r
                            /\ DropPeer(p) = DropPeer(r) => p = r
                            /\ \A m \in PeerMessage : /\ ToPeer(p, m) \in ToAbout(r) => p = r
                                                      /\ ToPeer(p, m) # DropPeer(r)
         /\ \A d \in Conn : /\ DropPeer(p) \notin AboutConn(d)
                            /\ \A m \in PeerMessage : ToPeer(p, m) \notin AboutConn(d)
<1>1. ASSUME NEW r \in Peer
      PROVE  /\ DropPeer(p) = DropPeer(r) => p = r
             /\ \A m, n \in PeerMessage : /\ ToPeer(p, m) # DropPeer(r)
                                          /\ DropPeer(p) # ToPeer(r, n)
                                          /\ ToPeer(p, m) = ToPeer(r, n) => p = r
  BY DEF DropPeer, ToPeer
<1>2. ASSUME NEW d \in Conn
      PROVE  /\ DropPeer(p) \notin {PeerHandshake(d), HandshakeCompleted(d)}
             /\ \A m \in PeerMessage :
                  ToPeer(p, m) \notin {PeerHandshake(d), HandshakeCompleted(d)}
  BY DEF DropPeer, ToPeer, PeerHandshake, HandshakeCompleted
<1> QED
  BY <1>1, <1>2 DEF ToAbout, AboutConn

LEMMA MessagesAboutConns ==
  ASSUME NEW c \in Conn
  PROVE  /\ PeerHandshake(c) \in AboutConn(c) /\ HandshakeCompleted(c) \in AboutConn(c)
         /\ \A d \in Conn : /\ PeerHandshake(c) \in AboutConn(d) => c = d
                            /\ HandshakeCompleted(c) \in AboutConn(d) => c = d
                            /\ PeerHandshake(c) # HandshakeCompleted(d)
         /\ \A r \in Peer : /\ PeerHandshake(c) \notin ToAbout(r)
                            /\ HandshakeCompleted(c) \notin ToAbout(r)
<1>1. ASSUME NEW d \in Conn
      PROVE  /\ PeerHandshake(c) = PeerHandshake(d) => c = d
             /\ HandshakeCompleted(c) = HandshakeCompleted(d) => c = d
             /\ PeerHandshake(c) # HandshakeCompleted(d)
             /\ HandshakeCompleted(c) # PeerHandshake(d)
  BY DEF PeerHandshake, HandshakeCompleted
<1>2. ASSUME NEW r \in Peer
      PROVE  /\ PeerHandshake(c) # DropPeer(r) /\ HandshakeCompleted(c) # DropPeer(r)
             /\ \A n \in PeerMessage : /\ PeerHandshake(c) # ToPeer(r, n)
                                       /\ HandshakeCompleted(c) # ToPeer(r, n)
  BY DEF DropPeer, ToPeer, PeerHandshake, HandshakeCompleted
<1> QED
  BY <1>1, <1>2 DEF ToAbout, AboutConn

LEMMA ExitMessage ==
  /\ \A p \in Peer : Exit \notin ToAbout(p)
  /\ \A c \in Conn : Exit \notin AboutConn(c)
BY DEF Exit, ToAbout, AboutConn, ToPeer, DropPeer, PeerHandshake, HandshakeCompleted

LEMMA TendermintMessages ==
  ASSUME NEW p \in Peer, NEW r \in Peer
  PROVE  /\ FromAbout(p) \subseteq FromDispatcherMsg
         /\ \A m \in FromAbout(p) : m \in FromAbout(r) => p = r
         /\ PeerDisconnected(p) = PeerDisconnected(r) => p = r
         /\ {PeerConnected(p), FromPeer(p)} \cap {PeerDisconnected(r)} = {}
BY DEF FromAbout, PeerConnected, FromPeer, PeerDisconnected, FromDispatcherMsg

-----------------------------------------------------------------------------
(* SessionOrder: no operation of a running dispatcher disturbs it.         *)

\* A connection that was opened stays opened.
StaysOpened == \A c \in Conn : task[c] # "none" => task'[c] # "none"

\* A peer on its first connection after a step was so before it.
LEMMA OrderBefore ==
  ASSUME SessionOrder, DispatcherAlive, StaysOpened, NEW p \in Peer, ~Returned(p)'
  PROVE  PeerOrder(p) /\ ~Returned(p)
BY DEF SessionOrder, Returned, StaysOpened

\* The other connections of a peer on its first one have yet to be opened.
LEMMA FirstConnection ==
  ASSUME NEW p \in Peer, ~Returned(p),
         NEW c \in Conn, PeerOf[c] = p, task[c] # "none",
         NEW d \in Conn, PeerOf[d] = p, d # c
  PROVE  task[d] = "none"
BY DEF Returned

\* A peer whose one connection is gone has no task left, and a peer with a task
\* has no connection that is gone.
LEMMA EndedPeer ==
  ASSUME NEW p \in Peer, ~Returned(p), Ended(p)
  PROVE  \A c \in Conn : PeerOf[c] = p => c \notin SubDispatcher
BY FirstConnection DEF Ended, SubDispatcher

\* Routes last as long as the senders and the sessions they lead to.
LEMMA RoutedStays ==
  ASSUME TypeOK, SessionOrder, DispatcherAlive, connected_peers' = connected_peers,
         \A c \in Conn : task[c] \in Established => task'[c] \in Established
  PROVE  \A p \in Peer : Routed(p)'
BY DEF TypeOK, SessionOrder, Routed

\* A step that sends nothing, connects nobody and only moves a task on, within
\* the handshake or within the session, or ends it.
LEMMA QuietStep ==
  ASSUME TypeOK, SessionOrder, DispatcherAlive,
         \/ dispatcher_queue' = dispatcher_queue
         \/ dispatcher_queue # << >> /\ dispatcher_queue' = Tail(dispatcher_queue),
         \/ tendermint_queue' = tendermint_queue
         \/ tendermint_queue # << >> /\ tendermint_queue' = Tail(tendermint_queue)
         \/ tendermint_queue' = << >>,
         addr_book' \subseteq addr_book,
         to_request' \subseteq to_request \cup addr_book,
         tendermint' # "ticking" => to_request' = {},
         connected_peers' = connected_peers,
         \A c \in Conn : /\ c \in SubDispatcher' => c \in SubDispatcher
                         /\ task[c] # "none" => task'[c] # "none"
                         /\ task[c] \in Established => task'[c] \in Established
                         /\ task[c] \in {"queued", "completed", "done"}
                              => task'[c] = task[c]
  PROVE  SessionOrder'
<1>1. /\ \A S : Holds(dispatcher_queue', S) => Holds(dispatcher_queue, S)
      /\ \A n, S : Closes(dispatcher_queue, n, S) => Closes(dispatcher_queue', n, S)
  BY DispatcherQueueShrinks
<1>2. /\ \A S : Holds(tendermint_queue', S) => Holds(tendermint_queue, S)
      /\ \A n, S : Closes(tendermint_queue, n, S) => Closes(tendermint_queue', n, S)
  BY TendermintQueueShrinks, EmptyQueue
<1>3. ASSUME NEW p \in Peer, ~Returned(p)' PROVE PeerOrder(p)'
  <2>1. PeerOrder(p)
    BY <1>3, OrderBefore DEF StaysOpened
  <2>2. Ended(p) => Ended(p)'
    BY DEF Ended
  <2>3. p \notin addr_book /\ Silent(p) => Silent(p)'
    BY <1>2 DEF Silent
  <2> QED
    BY <1>1, <1>2, <2>1, <2>2, <2>3 DEF PeerOrder, Silent
<1>4. ASSUME NEW c \in Conn PROVE ConnOrder(c)'
  <2>1. ConnOrder(c)
    BY DEF SessionOrder
  <2> QED
    BY <1>1, <2>1 DEF ConnOrder
<1>5. \A p \in Peer : Routed(p)'
  BY RoutedStays
<1> QED
  BY <1>3, <1>4, <1>5 DEF SessionOrder

LEMMA AcceptOrder ==
  ASSUME TypeOK, SessionOrder, DispatcherAlive, NEW c \in Conn, Accept(c)
  PROVE  SessionOrder'
<1> USE ConnAssumption
<1>1. /\ task[c] = "none" /\ task' = [task EXCEPT ![c] = "queued"]
      /\ SendToDispatcher(PeerHandshake(c))
      /\ UNCHANGED <<tendermint_queue, tendermint, addr_book, to_request, connected_peers>>
  BY DEF Accept, tendermint_vars, dispatcher_vars
<1>2. /\ \A S : Holds(dispatcher_queue', S)
                  <=> Holds(dispatcher_queue, S) \/ PeerHandshake(c) \in S
      /\ \A n, S : /\ Closes(dispatcher_queue, n, S)
                   /\ PeerHandshake(c) \in S => ~Holds(dispatcher_queue, {n})
                   => Closes(dispatcher_queue', n, S)
  BY <1>1, MessageTypes, DispatcherQueueGrows
<1>0. StaysOpened
  BY <1>1 DEF StaysOpened, TypeOK
<1>3. ASSUME NEW p \in Peer, ~Returned(p)' PROVE PeerOrder(p)'
  <2>1. PeerOrder(p) /\ ~Returned(p)
    BY <1>0, <1>3, OrderBefore
  <2>2. /\ PeerHandshake(c) \notin ToAbout(p)
        /\ PeerHandshake(c) \notin {DropPeer(p)}
    BY MessagesAboutConns DEF ToAbout
  <2>3. Ended(p) => Ended(p)'
    BY <1>1 DEF Ended, TypeOK
  <2>4. Silent(p) => Silent(p)'
    BY <1>1 DEF Silent, SubDispatcher, TypeOK
  <2> QED
    BY <1>1, <1>2, <2>1, <2>2, <2>3, <2>4 DEF PeerOrder
<1>4. ASSUME NEW d \in Conn PROVE ConnOrder(d)'
  <2>1. ConnOrder(d)
    BY DEF SessionOrder
  <2>2. \A m \in AboutConn(c) : ~Holds(dispatcher_queue, {m})
    BY <1>1 DEF SessionOrder, ConnOrder, AboutConn
  <2>3. \A m \in AboutConn(d) : Closes(dispatcher_queue', m, AboutConn(d))
    BY <1>2, <2>1, <2>2, MessagesAboutConns DEF ConnOrder, AboutConn
  <2>4. CASE d = c
    BY <1>1, <1>2, <2>1, <2>2, <2>3, <2>4, MessagesAboutConns
    DEF ConnOrder, AboutConn, TypeOK
  <2>5. CASE d # c
    BY <1>1, <1>2, <2>1, <2>3, <2>5, MessagesAboutConns DEF ConnOrder, AboutConn, TypeOK
  <2> QED
    BY <2>4, <2>5
<1>5. \A q \in Peer : Routed(q)'
  BY <1>1, RoutedStays DEF TypeOK, Established
<1> QED
  BY <1>1, <1>3, <1>4, <1>5 DEF SessionOrder

LEMMA HandlePeerHandshakeOrder ==
  ASSUME TypeOK, SessionOrder, NEW c \in Conn, HandlePeerHandshake(c)
  PROVE  SessionOrder'
<1> USE ConnAssumption
<1>1. /\ DispatcherAlive /\ dispatcher_queue # << >>
      /\ Head(dispatcher_queue) = PeerHandshake(c)
      /\ dispatcher_queue' = Tail(dispatcher_queue)
      /\ task' = [task EXCEPT ![c] = "greeting"]
      /\ UNCHANGED <<tendermint_queue, tendermint, addr_book, to_request, connected_peers>>
  BY DEF HandlePeerHandshake, DispatcherReceives, tendermint_vars, dispatcher_vars
<1>2. /\ \A S : Holds(dispatcher_queue', S) => Holds(dispatcher_queue, S)
      /\ Holds(dispatcher_queue, {PeerHandshake(c)})
      /\ \A n, S : Closes(dispatcher_queue, n, S) =>
           /\ Closes(dispatcher_queue', n, S)
           /\ n = PeerHandshake(c) => ~Holds(dispatcher_queue', S)
  BY <1>1, DispatcherQueueShrinks
<1>3. task[c] = "queued"
  BY <1>1, <1>2 DEF SessionOrder, ConnOrder
<1>0. StaysOpened
  BY <1>1 DEF StaysOpened, TypeOK
<1>4. ASSUME NEW p \in Peer, ~Returned(p)' PROVE PeerOrder(p)'
  <2>1. PeerOrder(p) /\ ~Returned(p)
    BY <1>0, <1>1, <1>4, OrderBefore
  <2>2. Ended(p) => Ended(p)'
    BY <1>1, <1>3 DEF Ended, TypeOK
  <2>3. Silent(p) => Silent(p)'
    BY <1>1 DEF Silent, SubDispatcher, TypeOK
  <2> QED
    BY <1>1, <1>2, <2>1, <2>2, <2>3 DEF PeerOrder
<1>5. ASSUME NEW d \in Conn PROVE ConnOrder(d)'
  <2>1. ConnOrder(d)
    BY <1>1 DEF SessionOrder
  <2>2. CASE d = c
    <3>1. ~Holds(dispatcher_queue', AboutConn(c))
      BY <1>2, <2>1, <2>2 DEF ConnOrder, AboutConn
    <3>2. /\ ~Holds(dispatcher_queue', {PeerHandshake(c)})
          /\ ~Holds(dispatcher_queue', {HandshakeCompleted(c)})
      BY <3>1 DEF Holds, AboutConn
    <3> QED
      BY <1>1, <1>2, <1>3, <2>1, <2>2, <3>2 DEF ConnOrder, TypeOK
  <2>3. CASE d # c
    BY <1>1, <1>2, <2>1, <2>3 DEF ConnOrder, TypeOK
  <2> QED
    BY <2>2, <2>3
<1>6. \A q \in Peer : Routed(q)'
  BY <1>1, <1>3, RoutedStays DEF TypeOK, Established
<1> QED
  BY <1>1, <1>4, <1>5, <1>6 DEF SessionOrder

LEMMA HandleHandshakeCompletedOrder ==
  ASSUME TypeOK, SessionOrder, NEW c \in Conn, HandleHandshakeCompleted(c)
  PROVE  SessionOrder'
<1> USE ConnAssumption
<1>1. /\ DispatcherAlive /\ dispatcher_queue # << >>
      /\ Head(dispatcher_queue) = HandshakeCompleted(c)
      /\ dispatcher_queue' = Tail(dispatcher_queue)
      /\ connected_peers' = [connected_peers EXCEPT ![PeerOf[c]] = c]
      /\ SendToTendermint(PeerConnected(PeerOf[c]))
      /\ task' = [task EXCEPT ![c] = "select"]
      /\ UNCHANGED <<tendermint, addr_book, to_request>>
  BY DEF HandleHandshakeCompleted, DispatcherReceives, tendermint_vars
<1>2. /\ \A S : Holds(dispatcher_queue', S) => Holds(dispatcher_queue, S)
      /\ Holds(dispatcher_queue, {HandshakeCompleted(c)})
      /\ \A n, S : Closes(dispatcher_queue, n, S) =>
           /\ Closes(dispatcher_queue', n, S)
           /\ n = HandshakeCompleted(c) => ~Holds(dispatcher_queue', S)
  BY <1>1, DispatcherQueueShrinks
<1>3. /\ \A S : Holds(tendermint_queue', S)
                  => Holds(tendermint_queue, S) \/ PeerConnected(PeerOf[c]) \in S
      /\ \A n, S : /\ Closes(tendermint_queue, n, S)
                   /\ PeerConnected(PeerOf[c]) \in S => ~Holds(tendermint_queue, {n})
                   => Closes(tendermint_queue', n, S)
  BY <1>1, MessageTypes, TendermintQueueGrows
<1>4. task[c] = "completed"
  BY <1>1, <1>2 DEF SessionOrder, ConnOrder
<1>5. ASSUME ~Returned(PeerOf[c])
      PROVE  Silent(PeerOf[c]) /\ ~Holds(dispatcher_queue, ToAbout(PeerOf[c]))
  <2>1. connected_peers[PeerOf[c]] = NoConn
    <3> SUFFICES ASSUME connected_peers[PeerOf[c]] # NoConn PROVE FALSE
      OBVIOUS
    <3> DEFINE d == connected_peers[PeerOf[c]]
    <3>1. d \in Conn /\ PeerOf[c] \in Peer
      BY DEF TypeOK
    <3>2. PeerOf[d] = PeerOf[c] /\ task[d] \in Established
      BY <1>1, <3>1 DEF SessionOrder, Routed
    <3> HIDE DEF d
    <3> QED
      BY <1>4, <1>5, <3>1, <3>2, FirstConnection DEF Established
  <2> QED
    BY <1>1, <1>5, <2>1 DEF SessionOrder, PeerOrder
<1>0. StaysOpened
  BY <1>1 DEF StaysOpened, TypeOK
<1>6. ASSUME NEW p \in Peer, ~Returned(p)' PROVE PeerOrder(p)'
  <2>1. PeerOrder(p) /\ ~Returned(p)
    BY <1>0, <1>1, <1>6, OrderBefore
  <2>2. CASE p = PeerOf[c]
    <3>1. ~Holds(dispatcher_queue, {DropPeer(p)})
      BY <1>5, <2>1, <2>2, MessagesToPeers DEF Holds
    <3>2. ~Holds(tendermint_queue, {PeerDisconnected(p)})
      BY <1>5, <2>1, <2>2 DEF Silent, Holds, FromAbout
    <3>3. connected_peers'[p] # NoConn
      BY <1>1, <2>2 DEF TypeOK
    <3>4. ~Holds(tendermint_queue', {PeerDisconnected(p)})
      BY <1>3, <2>2, <3>2, TendermintMessages
    <3>5. Closes(tendermint_queue', PeerDisconnected(p), FromAbout(p))
      BY <1>3, <2>1, <3>2 DEF PeerOrder
    <3> QED
      BY <1>2, <2>1, <3>1, <3>3, <3>4, <3>5 DEF PeerOrder
  <2>3. CASE p # PeerOf[c]
    <3>1. PeerConnected(PeerOf[c]) \notin FromAbout(p)
      BY <2>3, TendermintMessages DEF FromAbout
    <3>2. PeerConnected(PeerOf[c]) \notin {PeerDisconnected(p)}
      BY <2>3, TendermintMessages
    <3>3. Ended(p) => Ended(p)'
      BY <1>1, <1>4 DEF Ended, TypeOK
    <3>4. Silent(p) => Silent(p)'
      BY <1>1, <1>3, <2>3, <3>1 DEF Silent, SubDispatcher, TypeOK
    <3> QED
      BY <1>1, <1>2, <1>3, <2>1, <2>3, <3>1, <3>2, <3>3, <3>4 DEF PeerOrder, TypeOK
  <2> QED
    BY <2>2, <2>3
<1>7. ASSUME NEW d \in Conn PROVE ConnOrder(d)'
  <2>1. ConnOrder(d)
    BY <1>1 DEF SessionOrder
  <2>2. CASE d = c
    <3>1. ~Holds(dispatcher_queue', AboutConn(c))
      BY <1>2, <2>1, <2>2 DEF ConnOrder, AboutConn
    <3>2. /\ ~Holds(dispatcher_queue', {PeerHandshake(c)})
          /\ ~Holds(dispatcher_queue', {HandshakeCompleted(c)})
      BY <3>1 DEF Holds, AboutConn
    <3> QED
      BY <1>1, <1>2, <2>1, <2>2, <3>2 DEF ConnOrder, TypeOK
  <2>3. CASE d # c
    BY <1>1, <1>2, <2>1, <2>3 DEF ConnOrder, TypeOK
  <2> QED
    BY <2>2, <2>3
<1>8. \A q \in Peer : Routed(q)'
  BY <1>1, <1>4 DEF SessionOrder, Routed, Established, TypeOK
<1> QED
  BY <1>1, <1>6, <1>7, <1>8 DEF SessionOrder

LEMMA HandleDropPeerOrder ==
  ASSUME TypeOK, SessionOrder, NEW p \in Peer, HandleDropPeer(p)
  PROVE  SessionOrder'
<1> USE ConnAssumption
<1>1. /\ DispatcherAlive /\ dispatcher_queue # << >>
      /\ Head(dispatcher_queue) = DropPeer(p)
      /\ dispatcher_queue' = Tail(dispatcher_queue)
      /\ connected_peers' = [connected_peers EXCEPT ![p] = NoConn]
      /\ UNCHANGED <<tendermint_queue, tendermint, addr_book, to_request, task>>
  BY DEF HandleDropPeer, DispatcherReceives, tendermint_vars, conn_vars
<1>2. /\ \A S : Holds(dispatcher_queue', S) => Holds(dispatcher_queue, S)
      /\ Holds(dispatcher_queue, {DropPeer(p)})
      /\ \A n, S : Closes(dispatcher_queue, n, S) =>
           /\ Closes(dispatcher_queue', n, S)
           /\ n = DropPeer(p) => ~Holds(dispatcher_queue', S)
  BY <1>1, DispatcherQueueShrinks
<1>3. ASSUME ~Returned(p) PROVE Silent(p) /\ ~Holds(dispatcher_queue', ToAbout(p))
  BY <1>1, <1>2, <1>3 DEF SessionOrder, PeerOrder
<1>4. \A r \in Peer : (Silent(r) => Silent(r)') /\ (Ended(r) => Ended(r)')
  BY <1>1 DEF Silent, Ended, SubDispatcher
<1>0. StaysOpened
  BY <1>1 DEF StaysOpened
<1>5. ASSUME NEW r \in Peer, ~Returned(r)' PROVE PeerOrder(r)'
  <2>1. PeerOrder(r) /\ ~Returned(r)
    BY <1>0, <1>1, <1>5, OrderBefore
  <2>2. CASE r = p
    BY <1>1, <1>2, <1>3, <1>4, <2>1, <2>2 DEF PeerOrder
  <2>3. CASE r # p
    BY <1>1, <1>2, <1>4, <2>1, <2>3 DEF PeerOrder, TypeOK
  <2> QED
    BY <2>2, <2>3
<1>6. ASSUME NEW d \in Conn PROVE ConnOrder(d)'
  BY <1>1, <1>2 DEF SessionOrder, ConnOrder, TypeOK
<1>7. \A q \in Peer : Routed(q)'
  BY <1>1 DEF SessionOrder, Routed, TypeOK
<1> QED
  BY <1>1, <1>5, <1>6, <1>7 DEF SessionOrder

LEMMA AwaitHelloOrder ==
  ASSUME TypeOK, SessionOrder, DispatcherAlive, NEW c \in Conn,
         task[c] = "awaiting", task' = [task EXCEPT ![c] = "completed"],
         SendToDispatcher(HandshakeCompleted(c)),
         UNCHANGED <<tendermint_queue, tendermint, addr_book, to_request, connected_peers>>
  PROVE  SessionOrder'
<1> USE ConnAssumption
<1>1. /\ \A S : Holds(dispatcher_queue', S)
                  <=> Holds(dispatcher_queue, S) \/ HandshakeCompleted(c) \in S
      /\ \A n, S : /\ Closes(dispatcher_queue, n, S)
                   /\ HandshakeCompleted(c) \in S => ~Holds(dispatcher_queue, {n})
                   => Closes(dispatcher_queue', n, S)
  BY MessageTypes, DispatcherQueueGrows
<1>0. StaysOpened
  BY DEF StaysOpened, TypeOK
<1>2. ASSUME NEW p \in Peer, ~Returned(p)' PROVE PeerOrder(p)'
  <2>1. PeerOrder(p) /\ ~Returned(p)
    BY <1>0, <1>2, OrderBefore
  <2>2. /\ HandshakeCompleted(c) \notin ToAbout(p)
        /\ HandshakeCompleted(c) \notin {DropPeer(p)}
    BY MessagesAboutConns DEF ToAbout
  <2>3. Ended(p) => Ended(p)'
    BY DEF Ended, TypeOK
  <2>4. Silent(p) => Silent(p)'
    BY DEF Silent, SubDispatcher, TypeOK
  <2> QED
    BY <1>1, <2>1, <2>2, <2>3, <2>4 DEF PeerOrder
<1>3. ASSUME NEW d \in Conn PROVE ConnOrder(d)'
  <2>1. ConnOrder(d)
    BY DEF SessionOrder
  <2>2. \A m \in AboutConn(c) : ~Holds(dispatcher_queue, {m})
    BY DEF SessionOrder, ConnOrder, AboutConn
  <2>3. \A m \in AboutConn(d) : Closes(dispatcher_queue', m, AboutConn(d))
    BY <1>1, <2>1, <2>2, MessagesAboutConns DEF ConnOrder, AboutConn
  <2>4. CASE d = c
    BY <1>1, <2>1, <2>2, <2>3, <2>4, MessagesAboutConns
    DEF ConnOrder, AboutConn, TypeOK
  <2>5. CASE d # c
    BY <1>1, <2>1, <2>3, <2>5, MessagesAboutConns DEF ConnOrder, AboutConn, TypeOK
  <2> QED
    BY <2>4, <2>5
<1>4. \A q \in Peer : Routed(q)'
  BY RoutedStays DEF TypeOK, Established
<1> QED
  BY <1>2, <1>3, <1>4 DEF SessionOrder

LEMMA ReadRequestOrder ==
  ASSUME TypeOK, SessionOrder, DispatcherAlive, NEW c \in Conn, task[c] = "select",
         SendToTendermint(FromPeer(PeerOf[c])),
         UNCHANGED <<dispatcher_queue, tendermint, addr_book, to_request,
                     connected_peers, task>>
  PROVE  SessionOrder'
<1> USE ConnAssumption
<1>1. /\ \A S : Holds(tendermint_queue', S)
                  => Holds(tendermint_queue, S) \/ FromPeer(PeerOf[c]) \in S
      /\ \A n, S : /\ Closes(tendermint_queue, n, S)
                   /\ FromPeer(PeerOf[c]) \in S => ~Holds(tendermint_queue, {n})
                   => Closes(tendermint_queue', n, S)
  BY MessageTypes, TendermintQueueGrows
<1>2. ~Silent(PeerOf[c]) /\ (~Returned(PeerOf[c]) => ~Ended(PeerOf[c]))
  BY EndedPeer DEF Silent, SubDispatcher
<1>0. StaysOpened
  BY DEF StaysOpened
<1>3. ASSUME NEW p \in Peer, ~Returned(p)' PROVE PeerOrder(p)'
  <2>1. PeerOrder(p) /\ ~Returned(p)
    BY <1>0, <1>3, OrderBefore
  <2>2. /\ FromPeer(PeerOf[c]) \in FromAbout(p) => p = PeerOf[c]
        /\ FromPeer(PeerOf[c]) \notin {PeerDisconnected(p)}
    BY TendermintMessages DEF FromAbout
  <2>3. Closes(tendermint_queue', PeerDisconnected(p), FromAbout(p))
    BY <1>1, <1>2, <2>1, <2>2 DEF PeerOrder
  <2>4. p # PeerOf[c] /\ Silent(p) => Silent(p)'
    BY <1>1, <2>2 DEF Silent, SubDispatcher
  <2> QED
    BY <1>1, <1>2, <2>1, <2>2, <2>3, <2>4 DEF PeerOrder, Ended
<1>4. ASSUME NEW d \in Conn PROVE ConnOrder(d)'
  BY DEF SessionOrder, ConnOrder
<1>5. \A q \in Peer : Routed(q)'
  BY RoutedStays DEF TypeOK, Established
<1> QED
  BY <1>3, <1>4, <1>5 DEF SessionOrder

LEMMA PeerGoneOrder ==
  ASSUME TypeOK, SessionOrder, DispatcherAlive, NEW c \in Conn, PeerGone(c)
  PROVE  SessionOrder'
<1> USE ConnAssumption
<1>1. /\ task[c] = "select" /\ task' = [task EXCEPT ![c] = "done"]
      /\ SendToTendermint(PeerDisconnected(PeerOf[c]))
      /\ UNCHANGED <<dispatcher_queue, tendermint, addr_book, to_request, connected_peers>>
  BY DEF PeerGone, EndTask, tendermint_vars, dispatcher_vars
<1>2. /\ \A S : Holds(tendermint_queue', S)
                  => Holds(tendermint_queue, S) \/ PeerDisconnected(PeerOf[c]) \in S
      /\ \A n, S : /\ Closes(tendermint_queue, n, S)
                   /\ PeerDisconnected(PeerOf[c]) \in S => ~Holds(tendermint_queue, {n})
                   => Closes(tendermint_queue', n, S)
  BY <1>1, MessageTypes, TendermintQueueGrows
<1>3. ~Silent(PeerOf[c]) /\ (~Returned(PeerOf[c]) => ~Ended(PeerOf[c]))
  BY <1>1, EndedPeer DEF Silent, SubDispatcher
<1>0. StaysOpened
  BY <1>1 DEF StaysOpened, TypeOK
<1>4. ASSUME NEW p \in Peer, ~Returned(p)' PROVE PeerOrder(p)'
  <2>1. PeerOrder(p) /\ ~Returned(p)
    BY <1>0, <1>4, OrderBefore
  <2>2. PeerDisconnected(PeerOf[c]) \in FromAbout(p) => p = PeerOf[c]
    BY TendermintMessages DEF FromAbout
  <2>3. Closes(tendermint_queue', PeerDisconnected(p), FromAbout(p))
    BY <1>2, <1>3, <2>1, <2>2 DEF PeerOrder
  <2>4. p # PeerOf[c] /\ Silent(p) => Silent(p)'
    BY <1>1, <1>2, <2>2 DEF Silent, SubDispatcher, TypeOK
  <2>5. Ended(p) => Ended(p)'
    BY <1>1 DEF Ended, TypeOK
  <2>6. Ended(PeerOf[c])'
    BY <1>1 DEF Ended, TypeOK
  <2>7. p # PeerOf[c] => PeerDisconnected(PeerOf[c]) \notin {PeerDisconnected(p)}
    BY TendermintMessages
  <2> QED
    BY <1>1, <1>2, <1>3, <2>1, <2>3, <2>4, <2>5, <2>6, <2>7 DEF PeerOrder
<1>5. ASSUME NEW d \in Conn PROVE ConnOrder(d)'
  BY <1>1 DEF SessionOrder, ConnOrder, TypeOK
<1>6. \A q \in Peer : Routed(q)'
  BY <1>1, RoutedStays DEF TypeOK, Established
<1> QED
  BY <1>1, <1>4, <1>5, <1>6 DEF SessionOrder

\* The Tendermint thread addresses a peer it has reason to.
LEMMA SendToPeerOrder ==
  ASSUME TypeOK, SessionOrder, DispatcherAlive, NEW p \in Peer, NEW m \in PeerMessage,
         ~Silent(p), SendToDispatcher(ToPeer(p, m)),
         \/ tendermint_queue' = tendermint_queue
         \/ tendermint_queue # << >> /\ tendermint_queue' = Tail(tendermint_queue),
         addr_book' = addr_book, to_request' \subseteq to_request,
         tendermint' # "ticking" => to_request' = {},
         UNCHANGED <<connected_peers, task>>
  PROVE  SessionOrder'
<1>1. /\ \A S : Holds(dispatcher_queue', S)
                  <=> Holds(dispatcher_queue, S) \/ ToPeer(p, m) \in S
      /\ \A n, S : /\ Closes(dispatcher_queue, n, S)
                   /\ ToPeer(p, m) \in S => ~Holds(dispatcher_queue, {n})
                   => Closes(dispatcher_queue', n, S)
  BY MessageTypes, DispatcherQueueGrows
<1>2. /\ \A S : Holds(tendermint_queue', S) => Holds(tendermint_queue, S)
      /\ \A n, S : Closes(tendermint_queue, n, S) => Closes(tendermint_queue', n, S)
  BY TendermintQueueShrinks
<1>0. StaysOpened
  BY DEF StaysOpened
<1>3. ASSUME NEW r \in Peer, ~Returned(r)' PROVE PeerOrder(r)'
  <2>1. PeerOrder(r) /\ ~Returned(r)
    BY <1>0, <1>3, OrderBefore
  <2>2. /\ ToPeer(p, m) \in ToAbout(r) => p = r
        /\ ToPeer(p, m) \notin {DropPeer(r)}
    BY MessagesToPeers
  <2>3. (Silent(r) => Silent(r)') /\ (Ended(r) => Ended(r)')
    BY <1>2 DEF Silent, Ended, SubDispatcher
  <2> QED
    BY <1>1, <1>2, <2>1, <2>2, <2>3 DEF PeerOrder
<1>4. ASSUME NEW c \in Conn PROVE ConnOrder(c)'
  <2>1. ConnOrder(c)
    BY DEF SessionOrder
  <2>2. ToPeer(p, m) \notin AboutConn(c)
    BY MessagesToPeers
  <2> QED
    BY <1>1, <2>1, <2>2 DEF ConnOrder, AboutConn
<1>5. \A q \in Peer : Routed(q)'
  BY RoutedStays DEF TypeOK, Established
<1> QED
  BY <1>3, <1>4, <1>5 DEF SessionOrder

LEMMA HandlePeerConnectedOrder ==
  ASSUME TypeOK, SessionOrder, DispatcherAlive, NEW p \in Peer, HandlePeerConnected(p)
  PROVE  SessionOrder'
<1>1. /\ tendermint_queue # << >> /\ Head(tendermint_queue) = PeerConnected(p)
      /\ tendermint_queue' = Tail(tendermint_queue)
      /\ addr_book' = addr_book \cup {p}
      /\ UNCHANGED <<dispatcher_queue, tendermint, to_request, connected_peers, task>>
  BY DEF HandlePeerConnected, TendermintReceives, dispatcher_vars, conn_vars
<1>2. /\ \A S : Holds(tendermint_queue', S) => Holds(tendermint_queue, S)
      /\ Holds(tendermint_queue, FromAbout(p))
      /\ \A n, S : Closes(tendermint_queue, n, S) => Closes(tendermint_queue', n, S)
  BY <1>1, TendermintQueueShrinks DEF FromAbout
<1>0. StaysOpened
  BY <1>1 DEF StaysOpened
<1>3. ASSUME NEW r \in Peer, ~Returned(r)' PROVE PeerOrder(r)'
  <2>1. PeerOrder(r) /\ ~Returned(r)
    BY <1>0, <1>3, OrderBefore
  <2>2. ~Silent(p)
    BY <1>2 DEF Silent
  <2>3. r # p /\ Silent(r) => Silent(r)'
    BY <1>1, <1>2 DEF Silent, SubDispatcher
  <2>4. Ended(r) => Ended(r)'
    BY <1>1 DEF Ended
  <2> QED
    BY <1>1, <1>2, <2>1, <2>2, <2>3, <2>4 DEF PeerOrder
<1>4. ASSUME NEW c \in Conn PROVE ConnOrder(c)'
  BY <1>1 DEF SessionOrder, ConnOrder
<1>5. \A q \in Peer : Routed(q)'
  BY <1>1, RoutedStays DEF TypeOK, Established
<1> QED
  BY <1>1, <1>3, <1>4, <1>5 DEF SessionOrder

LEMMA HandlePeerDisconnectedOrder ==
  ASSUME TypeOK, SessionOrder, DispatcherAlive, NEW p \in Peer, HandlePeerDisconnected(p)
  PROVE  SessionOrder'
<1>1. /\ tendermint = "running"
      /\ tendermint_queue # << >> /\ Head(tendermint_queue) = PeerDisconnected(p)
      /\ tendermint_queue' = Tail(tendermint_queue)
      /\ addr_book' = addr_book \ {p}
      /\ SendToDispatcher(DropPeer(p))
      /\ UNCHANGED <<tendermint, to_request, connected_peers, task>>
  BY DEF HandlePeerDisconnected, TendermintReceives, dispatcher_vars, conn_vars
<1>2. /\ \A S : Holds(tendermint_queue', S) => Holds(tendermint_queue, S)
      /\ Holds(tendermint_queue, {PeerDisconnected(p)})
      /\ Holds(tendermint_queue, FromAbout(p))
      /\ \A n, S : Closes(tendermint_queue, n, S) =>
           /\ Closes(tendermint_queue', n, S)
           /\ n = PeerDisconnected(p) => ~Holds(tendermint_queue', S)
  BY <1>1, TendermintQueueShrinks DEF FromAbout
<1>3. /\ \A S : Holds(dispatcher_queue', S)
                  <=> Holds(dispatcher_queue, S) \/ DropPeer(p) \in S
      /\ \A n, S : /\ Closes(dispatcher_queue, n, S)
                   /\ DropPeer(p) \in S => ~Holds(dispatcher_queue, {n})
                   => Closes(dispatcher_queue', n, S)
  BY <1>1, MessageTypes, DispatcherQueueGrows
<1>4. ~Silent(p)
  BY <1>2 DEF Silent
<1>5. ASSUME ~Returned(p) PROVE Silent(p)' /\ Ended(p)'
  <2>1. PeerOrder(p)
    BY <1>5 DEF SessionOrder
  <2>2. Ended(p) /\ ~Holds(tendermint_queue', FromAbout(p))
    BY <1>2, <2>1 DEF PeerOrder
  <2>3. \A c \in Conn : PeerOf[c] = p => c \notin SubDispatcher
    BY <1>5, <2>2, EndedPeer
  <2> QED
    BY <1>1, <2>2, <2>3 DEF SessionOrder, Silent, Ended, SubDispatcher
<1>0. StaysOpened
  BY <1>1 DEF StaysOpened
<1>6. ASSUME NEW r \in Peer, ~Returned(r)' PROVE PeerOrder(r)'
  <2>1. PeerOrder(r) /\ ~Returned(r)
    BY <1>0, <1>6, OrderBefore
  <2>2. /\ DropPeer(p) \in ToAbout(r) => p = r
        /\ DropPeer(p) \in {DropPeer(r)} => p = r
    BY MessagesToPeers
  <2>3. (Silent(r) => Silent(r)') /\ (Ended(r) => Ended(r)')
    BY <1>1, <1>2 DEF Silent, Ended, SubDispatcher
  <2>4. Closes(dispatcher_queue', DropPeer(r), ToAbout(r))
    BY <1>3, <1>4, <2>1, <2>2 DEF PeerOrder
  <2> QED
    BY <1>1, <1>2, <1>3, <1>4, <1>5, <2>1, <2>2, <2>3, <2>4 DEF PeerOrder
<1>7. ASSUME NEW c \in Conn PROVE ConnOrder(c)'
  <2>1. ConnOrder(c)
    BY DEF SessionOrder
  <2>2. DropPeer(p) \notin AboutConn(c)
    BY MessagesToPeers
  <2> QED
    BY <1>1, <1>3, <2>1, <2>2 DEF ConnOrder, AboutConn
<1>8. \A q \in Peer : Routed(q)'
  BY <1>1, RoutedStays DEF TypeOK, Established
<1> QED
  BY <1>1, <1>6, <1>7, <1>8 DEF SessionOrder

LEMMA HandleExitRequestOrder ==
  ASSUME TypeOK, SessionOrder, DispatcherAlive, HandleExitRequest
  PROVE  SessionOrder'
<1>1. /\ SendToDispatcher(Exit) /\ tendermint = "running"
      /\ UNCHANGED <<tendermint_queue, addr_book, to_request, connected_peers, task>>
  BY DEF HandleExitRequest, dispatcher_vars, conn_vars
<1>2. /\ \A S : Holds(dispatcher_queue', S) <=> Holds(dispatcher_queue, S) \/ Exit \in S
      /\ \A n, S : /\ Closes(dispatcher_queue, n, S)
                   /\ Exit \in S => ~Holds(dispatcher_queue, {n})
                   => Closes(dispatcher_queue', n, S)
  BY <1>1, MessageTypes, DispatcherQueueGrows
<1>0. StaysOpened
  BY <1>1 DEF StaysOpened
<1>3. ASSUME NEW r \in Peer, ~Returned(r)' PROVE PeerOrder(r)'
  <2>1. PeerOrder(r) /\ ~Returned(r)
    BY <1>0, <1>3, OrderBefore
  <2>2. Exit \notin ToAbout(r) /\ Exit \notin {DropPeer(r)}
    BY ExitMessage DEF ToAbout
  <2>3. (Silent(r) => Silent(r)') /\ (Ended(r) => Ended(r)')
    BY <1>1 DEF Silent, Ended, SubDispatcher
  <2> QED
    BY <1>1, <1>2, <2>1, <2>2, <2>3 DEF PeerOrder
<1>4. ASSUME NEW c \in Conn PROVE ConnOrder(c)'
  <2>1. ConnOrder(c)
    BY DEF SessionOrder
  <2>2. Exit \notin AboutConn(c)
    BY ExitMessage
  <2> QED
    BY <1>1, <1>2, <2>1, <2>2 DEF ConnOrder, AboutConn
<1>5. \A q \in Peer : Routed(q)'
  BY <1>1, RoutedStays DEF TypeOK, Established
<1> QED
  BY <1>1, <1>3, <1>4, <1>5 DEF SessionOrder

-----------------------------------------------------------------------------
(* The invariant.                                                          *)

\* A panic of the dispatcher is over a message to a peer that came back.
LEMMA PanicOverReturned ==
  ASSUME SessionInv, NEW p \in Peer, NEW m \in PeerMessage, PanicOnUnknownPeer(p, m)
  PROVE  Returned(p) /\ DispatcherReceives(ToPeer(p, m))
<1> USE DEF SessionInv
<1>1. /\ DispatcherReceives(ToPeer(p, m)) /\ DispatcherAlive /\ dispatcher_queue # << >>
      /\ Head(dispatcher_queue) \in ToAbout(p) /\ connected_peers[p] = NoConn
  BY MessagesToPeers DEF PanicOnUnknownPeer, DispatcherReceives
<1>2. Holds(dispatcher_queue, ToAbout(p))
  BY <1>1, HoldsTail DEF TypeOK
<1> QED
  BY <1>1, <1>2 DEF SessionOrder, PeerOrder

\* What a step of the dispatcher sends keeps the order.
LEMMA DispatcherStepOrder ==
  ASSUME SessionInv, DispatcherStep
  PROVE  SessionOrder'
<1> USE DEF SessionInv
<1>1. ASSUME NEW c \in Conn, HandlePeerHandshake(c) \/ HandleHandshakeCompleted(c)
      PROVE  SessionOrder'
  BY <1>1, HandlePeerHandshakeOrder, HandleHandshakeCompletedOrder
<1>2. ASSUME NEW p \in Peer, NEW m \in PeerMessage, DeliverToPeer(p, m)
      PROVE  SessionOrder'
  <2>1. /\ DispatcherAlive /\ dispatcher_queue # << >>
        /\ dispatcher_queue' = Tail(dispatcher_queue)
        /\ UNCHANGED <<tendermint_queue, addr_book, to_request, tendermint, dispatcher,
                       connected_peers, task>>
    BY <1>2 DEF DeliverToPeer, DispatcherReceives, tendermint_vars, dispatcher_vars
  <2> QED
    BY <2>1, QuietStep DEF SessionOrder, SubDispatcher
<1>3. ASSUME NEW p \in Peer, NEW m \in PeerMessage, PanicOnUnknownPeer(p, m)
      PROVE  SessionOrder'
  BY <1>3 DEF PanicOnUnknownPeer, DropDispatcher, SessionOrder, DispatcherAlive
<1>4. ASSUME NEW p \in Peer, HandleDropPeer(p) PROVE SessionOrder'
  BY <1>4, HandleDropPeerOrder
<1>5. CASE HandleExit
  BY <1>5 DEF HandleExit, DropDispatcher, SessionOrder, DispatcherAlive
<1> QED
  BY <1>1, <1>2, <1>3, <1>4, <1>5 DEF DispatcherStep

\* The Tendermint thread addresses only peers it has reason to.
LEMMA TendermintStepOrder ==
  ASSUME SessionInv, TendermintStep \/ AbciReplies, DispatcherAlive
  PROVE  SessionOrder'
<1> USE DEF SessionInv, TendermintReceives, dispatcher_vars, conn_vars, queue_vars
<1>0. tendermint # "ticking" => to_request = {}
  BY DEF SessionOrder
<1>1. CASE Tick
  BY <1>1, QuietStep DEF Tick, SubDispatcher
<1>2. ASSUME NEW p \in Peer, RequestAddrBook(p) PROVE SessionOrder'
  <2>1. ~Silent(p)
    BY <1>2 DEF RequestAddrBook, Silent
  <2> QED
    BY <1>2, <2>1, MessageTypes, SendToPeerOrder DEF RequestAddrBook
<1>3. ASSUME NEW p \in Peer, HandleFromPeer(p) PROVE SessionOrder'
  <2>1. ~Silent(p)
    BY <1>3, HoldsTail DEF HandleFromPeer, Silent, FromAbout, TypeOK
  <2>2. AddressBookResponse(addr_book) \in PeerMessage
    BY MessageTypes DEF TypeOK
  <2> QED
    BY <1>0, <1>3, <2>1, <2>2, SendToPeerOrder DEF HandleFromPeer, tendermint_vars
<1>4. ASSUME NEW p \in Peer, HandlePeerConnected(p) \/ HandlePeerDisconnected(p)
      PROVE  SessionOrder'
  BY <1>4, HandlePeerConnectedOrder, HandlePeerDisconnectedOrder
<1>5. CASE DispatcherGone
  BY <1>5 DEF DispatcherGone
<1>6. CASE AbciReplies
  BY <1>0, <1>6, QuietStep DEF AbciReplies, EndThread, SubDispatcher
<1>7. CASE HandleExitRequest
  BY <1>7, HandleExitRequestOrder
<1>8. CASE ConfirmExit
  BY <1>0, <1>8, QuietStep DEF ConfirmExit, EndThread, SubDispatcher
<1>9. CASE ExitUnanswered
  BY <1>9 DEF ExitUnanswered
<1> QED
  BY <1>1, <1>2, <1>3, <1>4, <1>5, <1>6, <1>7, <1>8, <1>9 DEF TendermintStep

\* The tasks of a connection announce its session in order.
LEMMA ConnStepOrder ==
  ASSUME SessionInv, NEW c \in Conn, ConnStep(c), DispatcherAlive
  PROVE  SessionOrder'
<1> USE DEF SessionInv, queue_vars, tendermint_vars, dispatcher_vars
<1>0. /\ tendermint # "ticking" => to_request = {}
      /\ task \in [Conn -> TaskState]
  BY DEF SessionOrder, TypeOK
<1>1. CASE Accept(c)
  BY <1>1, AcceptOrder
<1>2. CASE Greet(c)
  BY <1>0, <1>2, QuietStep DEF Greet, EndTask, SubDispatcher, Established
<1>3. CASE AwaitHello(c)
  <2>1. CASE inbox' = [inbox EXCEPT ![c] = Tail(@)] /\ UNCHANGED <<dispatcher_queue, task>>
    BY <1>0, <1>3, <2>1, QuietStep DEF AwaitHello, SubDispatcher
  <2>2. CASE SendToDispatcher(HandshakeCompleted(c)) /\ task' = [task EXCEPT ![c] = "completed"]
    BY <1>3, <2>2, AwaitHelloOrder DEF AwaitHello
  <2> QED
    BY <1>3, <2>1, <2>2 DEF AwaitHello
<1>4. CASE HandshakeLost(c)
  BY <1>0, <1>4, QuietStep DEF HandshakeLost, EndTask, SubDispatcher, Established
<1>5. CASE TakeFromQueue(c)
  BY <1>0, <1>5, QuietStep DEF TakeFromQueue, SubDispatcher, Established
<1>6. CASE SenderDropped(c)
  BY <1>0, <1>6, QuietStep DEF SenderDropped, EndTask, SubDispatcher, Established
<1>7. CASE ReadFrame(c)
  <2>1. CASE UNCHANGED tendermint_queue
    BY <1>0, <1>7, <2>1, QuietStep DEF ReadFrame, SubDispatcher
  <2>2. CASE SendToTendermint(FromPeer(PeerOf[c]))
    BY <1>7, <2>2, ReadRequestOrder DEF ReadFrame
  <2> QED
    BY <1>7, <2>1, <2>2 DEF ReadFrame
<1>8. CASE PeerGone(c)
  BY <1>8, PeerGoneOrder
<1>9. CASE WriteFrame(c)
  BY <1>0, <1>9, QuietStep DEF WriteFrame, SubDispatcher, Established
<1>10. CASE WriteError(c)
  BY <1>0, <1>10, QuietStep DEF WriteError, EndTask, SubDispatcher, Established
<1> QED
  BY <1>1, <1>2, <1>3, <1>4, <1>5, <1>6, <1>7, <1>8, <1>9, <1>10
  DEF ConnStep, HandshakeStep, SelectStep, WriteStep

\* What the peers and the ABCI layer do is not seen by the queues.
LEMMA OutsideStepOrder ==
  ASSUME SessionInv, RequestExit \/ \E c \in Conn : PeerStep(c), DispatcherAlive
  PROVE  SessionOrder'
<1>1. UNCHANGED <<dispatcher_queue, tendermint_queue, tendermint, addr_book, to_request,
                  connected_peers, task>>
  BY DEF PeerStep, PeerSends, PeerReads, PeerCloses, RequestExit, queue_vars,
    tendermint_vars, dispatcher_vars, conn_vars
<1> QED
  BY <1>1, QuietStep DEF SessionInv, SessionOrder, SubDispatcher

\* The dispatcher ends only in a step of its own.
LEMMA OnlyDispatcherPanics ==
  ASSUME \/ TendermintStep \/ AbciReplies \/ RequestExit
         \/ \E c \in Conn : ConnStep(c) \/ PeerStep(c)
  PROVE  dispatcher' = dispatcher
<1> USE DEF dispatcher_vars, conn_vars, queue_vars, tendermint_vars
<1>1. CASE TendermintStep \/ AbciReplies \/ RequestExit
  BY <1>1 DEF TendermintStep, AbciReplies, RequestExit, Tick, RequestAddrBook,
    HandleFromPeer, HandlePeerConnected, HandlePeerDisconnected, DispatcherGone,
    HandleExitRequest, ConfirmExit, ExitUnanswered
<1>2. ASSUME NEW c \in Conn, ConnStep(c) PROVE dispatcher' = dispatcher
  BY <1>2 DEF ConnStep, HandshakeStep, SelectStep, WriteStep, Accept, Greet, AwaitHello,
    HandshakeLost, TakeFromQueue, SenderDropped, ReadFrame, PeerGone, WriteFrame, WriteError
<1>3. ASSUME NEW c \in Conn, PeerStep(c) PROVE dispatcher' = dispatcher
  BY <1>3 DEF PeerStep, PeerSends, PeerReads, PeerCloses
<1> QED
  BY <1>1, <1>2, <1>3

LEMMA SessionInvInitially == Init => SessionInv
<1> SUFFICES ASSUME NodeInit PROVE SessionInv
  BY DEF Init
<1>1. TypeOK
  BY InitType DEF Init
<1>2. \A p \in Peer : PeerOrder(p)
  BY EmptyQueue DEF NodeInit, PeerOrder, Silent, SubDispatcher
<1>3. \A c \in Conn : ConnOrder(c)
  BY EmptyQueue DEF NodeInit, ConnOrder
<1>4. to_request = {} /\ \A p \in Peer : Routed(p)
  BY DEF NodeInit, Routed
<1> QED
  BY <1>1, <1>2, <1>3, <1>4 DEF SessionInv, SessionOrder

LEMMA SessionInvInductive ==
  ASSUME SessionInv, [Next]_vars
  PROVE  SessionInv'
<1>1. TypeOK'
  BY NextType DEF SessionInv
<1>2. CASE DispatcherStep
  BY <1>1, <1>2, DispatcherStepOrder DEF SessionInv
<1>3. CASE TendermintStep \/ AbciReplies \/ RequestExit
           \/ \E c \in Conn : ConnStep(c) \/ PeerStep(c)
  <2>1. dispatcher' = dispatcher
    BY <1>3, OnlyDispatcherPanics
  <2>2. DispatcherAlive => SessionOrder'
    BY <1>3, TendermintStepOrder, ConnStepOrder, OutsideStepOrder
  <2> QED
    BY <1>1, <2>1, <2>2 DEF SessionInv, SessionOrder, DispatcherAlive
<1>4. CASE UNCHANGED vars
  <2>1. UNCHANGED <<dispatcher_queue, tendermint_queue, tendermint, addr_book, to_request,
                    connected_peers, task, dispatcher>>
    BY <1>4 DEF vars, queue_vars, tendermint_vars, dispatcher_vars, conn_vars
  <2>2. DispatcherAlive => SessionOrder'
    BY <2>1, QuietStep DEF SessionInv, SessionOrder, SubDispatcher
  <2> QED
    BY <1>1, <2>1, <2>2 DEF SessionInv, SessionOrder, DispatcherAlive
<1> QED
  BY <1>2, <1>3, <1>4 DEF Next

\* The messages about each peer on its first connection and about each connection
\* stay in order, and every sender leads to a session of its own peer, whoever
\* else comes back (dispatcher.rs:36-67, 79-141, tendermint.rs:131-138, 156-185).
THEOREM SessionsOrdered == Spec => []SessionOrder
<1>1. SessionInv /\ [Next]_vars => SessionInv'
  BY SessionInvInductive
<1>2. SessionInv => SessionOrder
  BY DEF SessionInv
<1> QED
  BY <1>1, <1>2, SessionInvInitially, PTL DEF Spec

\* Only a step of the dispatcher makes it panic.
LEMMA PanicIsUnknownPeer ==
  ASSUME TypeOK, [Next]_vars, dispatcher' = "panicked", dispatcher # "panicked"
  PROVE  \E p \in Peer, m \in PeerMessage : PanicOnUnknownPeer(p, m)
<1>1. DispatcherStep
  <2>1. ~UNCHANGED vars
    BY DEF vars, dispatcher_vars
  <2> QED
    BY <2>1, OnlyDispatcherPanics DEF Next
<1>2. ASSUME NEW c \in Conn PROVE ~HandlePeerHandshake(c) /\ ~HandleHandshakeCompleted(c)
  BY DEF HandlePeerHandshake, HandleHandshakeCompleted, dispatcher_vars
<1>3. ASSUME NEW p \in Peer, NEW m \in PeerMessage PROVE ~DeliverToPeer(p, m)
  BY DEF DeliverToPeer, dispatcher_vars
<1>4. ASSUME NEW p \in Peer PROVE ~HandleDropPeer(p)
  BY DEF HandleDropPeer
<1>5. ~HandleExit
  BY DEF HandleExit, DropDispatcher
<1> QED
  BY <1>1, <1>2, <1>3, <1>4, <1>5 DEF DispatcherStep

\* The expect "Attempt to send msg to disconnected peer." (dispatcher.rs:59)
\* fails, if ever, over a message to a peer that came back on a second
\* connection: the one way into that panic, for any number of peers.
THEOREM OnlyReturnedPanics == Spec => PanicsOnlyOverReturned
<1> DEFINE Step == dispatcher' = "panicked" /\ dispatcher # "panicked" =>
                     \E p \in Peer, m \in PeerMessage :
                       Returned(p) /\ DispatcherReceives(ToPeer(p, m))
<1>1. SessionInv /\ [Next]_vars => SessionInv'
  BY SessionInvInductive
<1>2. SessionInv /\ [Next]_vars => [Step]_vars
  BY PanicIsUnknownPeer, PanicOverReturned DEF SessionInv
<1> QED
  BY <1>1, <1>2, SessionInvInitially, PTL DEF Spec, PanicsOnlyOverReturned

\* As long as no peer comes back on a second connection, the expect "Attempt to
\* send msg to disconnected peer." (dispatcher.rs:59) cannot fail.
THEOREM DispatcherNeverPanics == ASSUME OneSession PROVE Spec => []NoSendToDisconnected
<1> DEFINE Inv == SessionInv /\ NoSendToDisconnected
<1>1. Init => Inv
  BY SessionInvInitially DEF Init, NodeInit, NoSendToDisconnected
<1>2. Inv /\ [Next]_vars => Inv'
  <2> SUFFICES ASSUME Inv, [Next]_vars, dispatcher' = "panicked" PROVE FALSE
    BY SessionInvInductive DEF NoSendToDisconnected
  <2>1. PICK p \in Peer, m \in PeerMessage : PanicOnUnknownPeer(p, m)
    BY PanicIsUnknownPeer DEF SessionInv, NoSendToDisconnected
  <2>2. Returned(p)
    BY <2>1, PanicOverReturned
  <2> QED
    BY <2>2 DEF Returned, OneSession
<1>3. Inv => NoSendToDisconnected
  OBVIOUS
<1> QED
  BY <1>1, <1>2, <1>3, PTL DEF Spec

-----------------------------------------------------------------------------
(* Shutdown.                                                               *)

\* The confirmation is sent exactly when the dispatcher leaves its loop for
\* Exit.
ExitInv ==
  /\ exit_ack <=> dispatcher = "exited"
  /\ OrderlyExit

\* The ABCI layer learns of the shutdown only after the dispatcher left its
\* loop, and the expect "Failed to shutdown dispatcher" (tendermint.rs:147)
\* fails only if the dispatcher panicked, whoever reconnects.
THEOREM ExitIsOrderly == Spec => []OrderlyExit
<1>1. Init => ExitInv
  BY DEF Init, NodeInit, ExitInv, OrderlyExit
<1>2. TypeOK /\ ExitInv /\ [Next]_vars => ExitInv'
  <2> SUFFICES ASSUME TypeOK, ExitInv, [Next]_vars PROVE ExitInv'
    OBVIOUS
  <2> USE DEF ExitInv, OrderlyExit, dispatcher_vars, tendermint_vars, queue_vars, conn_vars
  <2>1. CASE DispatcherStep
    <3>1. DispatcherAlive /\ UNCHANGED <<abci, tendermint>>
      BY <2>1 DEF DispatcherStep, HandlePeerHandshake, HandleHandshakeCompleted,
        DeliverToPeer, PanicOnUnknownPeer, HandleDropPeer, HandleExit, DispatcherReceives
    <3>2. \/ dispatcher' = dispatcher /\ exit_ack' = exit_ack
          \/ dispatcher' = "panicked" /\ exit_ack' = exit_ack
          \/ dispatcher' = "exited" /\ exit_ack' = TRUE
      BY <2>1 DEF DispatcherStep, HandlePeerHandshake, HandleHandshakeCompleted,
        DeliverToPeer, PanicOnUnknownPeer, HandleDropPeer, HandleExit, DropDispatcher
    <3> QED
      BY <3>1, <3>2 DEF DispatcherAlive
  <2>2. CASE TendermintStep \/ AbciReplies \/ RequestExit
    <3>1. UNCHANGED <<dispatcher, exit_ack>>
      BY <2>2 DEF TendermintStep, AbciReplies, RequestExit, Tick, RequestAddrBook,
        HandleFromPeer, HandlePeerConnected, HandlePeerDisconnected, DispatcherGone,
        HandleExitRequest, ConfirmExit, ExitUnanswered
    <3>2. \/ abci' # "confirmed" /\ tendermint' = tendermint
          \/ abci' = abci /\ tendermint' = tendermint
          \/ abci' = abci /\ tendermint' # "panicked"
          \/ exit_ack /\ tendermint' # "panicked"
          \/ ~exit_ack /\ ~DispatcherAlive /\ abci' = abci
      BY <2>2 DEF TendermintStep, AbciReplies, RequestExit, Tick, RequestAddrBook,
        HandleFromPeer, HandlePeerConnected, HandlePeerDisconnected, DispatcherGone,
        HandleExitRequest, ConfirmExit, ExitUnanswered, EndThread, TendermintReceives
    <3> QED
      BY <3>1, <3>2 DEF DispatcherAlive, TypeOK, DispatcherState
  <2>3. CASE \E c \in Conn : ConnStep(c) \/ PeerStep(c)
    <3>1. UNCHANGED <<dispatcher, exit_ack, abci, tendermint>>
      BY <2>3 DEF ConnStep, HandshakeStep, SelectStep, WriteStep, Accept, Greet, AwaitHello,
        HandshakeLost, TakeFromQueue, SenderDropped, ReadFrame, PeerGone, WriteFrame,
        WriteError, PeerStep, PeerSends, PeerReads, PeerCloses
    <3> QED
      BY <3>1
  <2>4. CASE UNCHANGED vars
    BY <2>4 DEF vars
  <2> QED
    BY <2>1, <2>2, <2>3, <2>4 DEF Next
<1>3. ExitInv => OrderlyExit
  BY DEF ExitInv
<1> QED
  BY <1>1, <1>2, <1>3, TypeCorrect, PTL DEF Spec
=============================================================================
