---------------------------- MODULE AgreementProofs ----------------------------
(***************************************************************************)
(* The Tendermint thread and the dispatcher of a `multithreaded` node keep *)
(* a record of the connected peers each, and tell the other by messages.   *)
(* On every peer that has not come back on a second connection the records *)
(* agree once the messages have arrived, and such a peer, when it asks for *)
(* the address book, finds itself in the answer.                           *)
(*                                                                         *)
(* The order of the messages is NodeInvariant's.  What this module adds is *)
(* that none is missing: a peer the dispatcher lists, or that has asked    *)
(* for something, is in the address book or about to be put there, unless  *)
(* its removal is on its way to the dispatcher.                            *)
(***************************************************************************)
EXTENDS NodeProofs

\* The Tendermint thread knows of peer p, or learns before it sees a request.
Introduced(p) ==
  /\ Closes(tendermint_queue, FromPeer(p), {PeerConnected(p)})
  /\ Holds(tendermint_queue, {FromPeer(p)}) =>
       p \in addr_book \/ Holds(tendermint_queue, {PeerConnected(p)})
  /\ connected_peers[p] # NoConn =>
       \/ p \in addr_book
       \/ Holds(tendermint_queue, {PeerConnected(p)})
       \/ Holds(dispatcher_queue, {DropPeer(p)})

\* The per-peer task of a peer on its first connection is the one its sender
\* leads to.
Owned ==
  \A c \in SubDispatcher : ~Returned(PeerOf[c]) => connected_peers[PeerOf[c]] = c

\* If m is an answer to peer p, it lists p.
Lists(p, m) == m.kind = "AddressBookResponse" => p \in m.peers

\* Answers list those they are sent to on a first connection, in both queues
\* they pass.
AnswersQueued ==
  \A p \in Peer, m \in PeerMessage :
    ~Returned(p) /\ Holds(dispatcher_queue, {ToPeer(p, m)}) => Lists(p, m)
AnswersDelivered ==
  \A c \in Conn : \A m \in PeerMessage :
    ~Returned(PeerOf[c]) /\ Holds(peer_queue[c], {m}) => Lists(PeerOf[c], m)

BothAlive == DispatcherAlive /\ TendermintAlive

Agreement ==
  /\ BothAlive => \A p \in Peer : ~Returned(p) => Introduced(p)
  /\ DispatcherAlive => Owned
  /\ AnswersQueued /\ AnswersDelivered

AgreementInv == SessionInv /\ Agreement

-----------------------------------------------------------------------------
(* Queues and messages.                                                    *)

\* What a queue holds is its head or behind it.
LEMMA HoldsSplit ==
  ASSUME NEW T, NEW q \in Seq(T), q # << >>, NEW S, Holds(q, S)
  PROVE  Head(q) \in S \/ Holds(Tail(q), S)
<1>1. /\ Len(q) \in Nat \ {0} /\ Len(Tail(q)) = Len(q) - 1
      /\ \A i \in 1 .. Len(Tail(q)) : Tail(q)[i] = q[i + 1]
      /\ Head(q) = q[1]
  BY HeadTailProperties
<1>2. PICK i \in 1 .. Len(q) : q[i] \in S
  BY DEF Holds
<1>3. CASE i = 1
  BY <1>1, <1>2, <1>3
<1>4. CASE i # 1
  <2>1. i - 1 \in 1 .. Len(Tail(q)) /\ Tail(q)[i - 1] = q[i]
    BY <1>1, <1>4
  <2> QED
    BY <1>2, <2>1 DEF Holds
<1> QED
  BY <1>3, <1>4

\* What a send and a receive change in either queue.
LEMMA SentToDispatcher ==
  ASSUME TypeOK, NEW m \in DispatcherMsg, SendToDispatcher(m)
  PROVE  \A S : /\ Holds(dispatcher_queue, S) => Holds(dispatcher_queue', S)
                /\ Holds(dispatcher_queue', S) => Holds(dispatcher_queue, S) \/ m \in S
<1>1. CASE DispatcherAlive
  BY <1>1, DispatcherQueueGrows
<1>2. CASE ~DispatcherAlive
  BY <1>2 DEF SendToDispatcher
<1> QED
  BY <1>1, <1>2

LEMMA SentToTendermint ==
  ASSUME TypeOK, NEW m \in FromDispatcherMsg, SendToTendermint(m)
  PROVE  \A S : /\ Holds(tendermint_queue, S) => Holds(tendermint_queue', S)
                /\ TendermintAlive /\ m \in S => Holds(tendermint_queue', S)
BY HoldsAppend DEF TypeOK, SendToTendermint

LEMMA ReceivedByDispatcher ==
  ASSUME TypeOK, NEW m, DispatcherReceives(m), dispatcher_queue' = Tail(dispatcher_queue)
  PROVE  \A S : /\ Holds(dispatcher_queue', S) => Holds(dispatcher_queue, S)
                /\ Holds(dispatcher_queue, S) => m \in S \/ Holds(dispatcher_queue', S)
                /\ m \in S => Holds(dispatcher_queue, S)
BY HoldsTail, HoldsSplit DEF TypeOK, DispatcherReceives

LEMMA ReceivedByTendermint ==
  ASSUME TypeOK, NEW m, TendermintReceives(m), tendermint_queue' = Tail(tendermint_queue)
  PROVE  \A S : /\ Holds(tendermint_queue', S) => Holds(tendermint_queue, S)
                /\ Holds(tendermint_queue, S) => m \in S \/ Holds(tendermint_queue', S)
                /\ m \in S => Holds(tendermint_queue, S)
BY HoldsTail, HoldsSplit DEF TypeOK, TendermintReceives

\* Messages of different kinds, or about different peers, are different.
LEMMA FromMessages ==
  ASSUME NEW p \in Peer, NEW r \in Peer
  PROVE  /\ PeerConnected(p) = PeerConnected(r) => p = r
         /\ FromPeer(p) = FromPeer(r) => p = r
         /\ PeerConnected(p) # FromPeer(r) /\ PeerConnected(p) # PeerDisconnected(r)
         /\ FromPeer(p) # PeerConnected(r) /\ FromPeer(p) # PeerDisconnected(r)
         /\ PeerDisconnected(p) # PeerConnected(r) /\ PeerDisconnected(p) # FromPeer(r)
BY DEF PeerConnected, FromPeer, PeerDisconnected

LEMMA ToMessages ==
  ASSUME NEW p \in Peer, NEW m \in PeerMessage
  PROVE  /\ \A r \in Peer : /\ DropPeer(p) = DropPeer(r) => p = r
                            /\ ToPeer(p, m) # DropPeer(r)
                            /\ \A n \in PeerMessage :
                                 ToPeer(p, m) = ToPeer(r, n) => p = r /\ m = n
         /\ \A c \in Conn : /\ DropPeer(p) # PeerHandshake(c)
                            /\ DropPeer(p) # HandshakeCompleted(c)
                            /\ ToPeer(p, m) # PeerHandshake(c)
                            /\ ToPeer(p, m) # HandshakeCompleted(c)
         /\ DropPeer(p) # Exit /\ ToPeer(p, m) # Exit
BY DEF ToPeer, DropPeer, PeerHandshake, HandshakeCompleted, Exit

\* Only answers carry ids.
LEMMA RequestLists == \A p \in Peer : Lists(p, AddressBookRequest)
BY DEF Lists, AddressBookRequest

-----------------------------------------------------------------------------
(* Agreement: no operation disturbs it.                                    *)

\* A peer that has come back has come back for good.
LEMMA ReturnedStays ==
  ASSUME StaysOpened, NEW p \in Peer, Returned(p)
  PROVE  Returned(p)'
BY DEF StaysOpened, Returned

\* What the steps that leave most of it alone owe to Agreement.
LEMMA AgreementBefore ==
  ASSUME Agreement, StaysOpened
  PROVE  /\ \A p \in Peer : ~Returned(p)' => ~Returned(p) /\ (BothAlive => Introduced(p))
         /\ DispatcherAlive =>
              \A c \in SubDispatcher : ~Returned(PeerOf[c])' => connected_peers[PeerOf[c]] = c
         /\ \A p \in Peer, m \in PeerMessage :
              ~Returned(p)' /\ Holds(dispatcher_queue, {ToPeer(p, m)}) => Lists(p, m)
         /\ \A c \in Conn : \A m \in PeerMessage :
              ~Returned(PeerOf[c])' /\ Holds(peer_queue[c], {m}) => Lists(PeerOf[c], m)
<1>1. \A p \in Peer : ~Returned(p)' => ~Returned(p)
  BY ReturnedStays
<1>2. \A c \in Conn : PeerOf[c] \in Peer /\ (~Returned(PeerOf[c])' => ~Returned(PeerOf[c]))
  BY <1>1, ConnAssumption
<1> QED
  BY <1>1, <1>2 DEF Agreement, Owned, AnswersQueued, AnswersDelivered, SubDispatcher

\* A step after which both threads have what they had from each other, and
\* that sends no answer but to a peer it lists.
LEMMA QuietAgreement ==
  ASSUME Agreement, StaysOpened,
         DispatcherAlive' => DispatcherAlive,
         BothAlive' => BothAlive /\ UNCHANGED <<tendermint_queue, addr_book>>,
         connected_peers' = connected_peers,
         \A c \in SubDispatcher' : c \in SubDispatcher,
         \A p \in Peer : Holds(dispatcher_queue, {DropPeer(p)})
                           => Holds(dispatcher_queue', {DropPeer(p)}),
         \A p \in Peer, m \in PeerMessage :
           Holds(dispatcher_queue', {ToPeer(p, m)})
             => Holds(dispatcher_queue, {ToPeer(p, m)}) \/ Lists(p, m),
         \A c \in Conn : \A m \in PeerMessage :
           ~Returned(PeerOf[c])' /\ Holds(peer_queue'[c], {m})
             => Holds(peer_queue[c], {m}) \/ Lists(PeerOf[c], m)
  PROVE  Agreement'
<1>1. ASSUME BothAlive', NEW p \in Peer, ~Returned(p)' PROVE Introduced(p)'
  <2>1. Introduced(p) /\ UNCHANGED <<tendermint_queue, addr_book, connected_peers>>
    BY <1>1, AgreementBefore
  <2> QED
    BY <2>1 DEF Introduced, DropPeer, PeerConnected, FromPeer
<1>2. DispatcherAlive' => Owned'
  BY AgreementBefore DEF Owned
<1>3. AnswersQueued'
  BY AgreementBefore DEF AnswersQueued, ToPeer, Lists
<1>4. AnswersDelivered'
  BY AgreementBefore DEF AnswersDelivered, Lists
<1> QED
  BY <1>1, <1>2, <1>3, <1>4 DEF Agreement

\* The dispatcher ends.
LEMMA DropDispatcherAgrees ==
  ASSUME Agreement, StaysOpened, NEW how \in {"exited", "panicked"}, DropDispatcher(how),
         peer_queue' = peer_queue
  PROVE  Agreement'
<1>1. ~DispatcherAlive' /\ dispatcher_queue' = << >>
  BY DEF DropDispatcher, DispatcherAlive
<1>2. AnswersQueued' /\ AnswersDelivered'
  BY <1>1, AgreementBefore, EmptyQueue DEF AnswersQueued, AnswersDelivered, Lists
<1> QED
  BY <1>1, <1>2 DEF Agreement, BothAlive

\* A peer is connected: nothing of it was left, so it is introduced first.
LEMMA HandleHandshakeCompletedAgrees ==
  ASSUME AgreementInv, NEW c \in Conn, HandleHandshakeCompleted(c)
  PROVE  Agreement'
<1> DEFINE p == PeerOf[c]
<1> USE ConnAssumption DEF AgreementInv, SessionInv
<1>1. /\ DispatcherReceives(HandshakeCompleted(c)) /\ DispatcherAlive
      /\ dispatcher_queue' = Tail(dispatcher_queue)
      /\ connected_peers' = [connected_peers EXCEPT ![p] = c]
      /\ SendToTendermint(PeerConnected(p))
      /\ task' = [task EXCEPT ![c] = "select"]
      /\ UNCHANGED <<tendermint, addr_book, dispatcher, peer_queue>>
  BY DEF HandleHandshakeCompleted, DispatcherReceives, tendermint_vars
<1>2. p \in Peer /\ PeerConnected(p) \in FromDispatcherMsg
  BY MessageTypes
<1>3. \A S : /\ Holds(dispatcher_queue', S) => Holds(dispatcher_queue, S)
             /\ Holds(dispatcher_queue, S)
                  => HandshakeCompleted(c) \in S \/ Holds(dispatcher_queue', S)
             /\ HandshakeCompleted(c) \in S => Holds(dispatcher_queue, S)
  BY <1>1, ReceivedByDispatcher
<1>0. task[c] = "completed" /\ StaysOpened
  BY <1>1, <1>3 DEF SessionOrder, ConnOrder, StaysOpened, TypeOK
<1>4. ASSUME ~Returned(p) PROVE connected_peers[p] = NoConn
  <2> SUFFICES ASSUME connected_peers[p] # NoConn PROVE FALSE
    OBVIOUS
  <2> DEFINE d == connected_peers[p]
  <2>1. d \in Conn /\ PeerOf[d] = p /\ task[d] \in Established
    BY <1>1, <1>2 DEF SessionOrder, Routed, TypeOK
  <2> HIDE DEF d
  <2> QED
    BY <1>0, <1>2, <1>4, <2>1, FirstConnection DEF Established
<1>5. ASSUME ~Returned(p) PROVE ~Holds(tendermint_queue, {FromPeer(p)})
  <2>1. Silent(p)
    BY <1>1, <1>2, <1>4, <1>5 DEF SessionOrder, PeerOrder
  <2> QED
    BY <2>1 DEF Silent, Holds, FromAbout
<1>6. \A r \in Peer : connected_peers'[r] = IF r = p THEN c ELSE connected_peers[r]
  BY <1>1 DEF TypeOK
<1> HIDE DEF p
<1>7. ASSUME BothAlive', NEW r \in Peer, ~Returned(r)' PROVE Introduced(r)'
  <2>1. BothAlive /\ Introduced(r) /\ ~Returned(r)
    BY <1>0, <1>1, <1>7, AgreementBefore DEF BothAlive, DispatcherAlive, TendermintAlive
  <2>2. /\ \A S : Holds(tendermint_queue', S)
                    => Holds(tendermint_queue, S) \/ PeerConnected(p) \in S
        /\ \A n, S : /\ Closes(tendermint_queue, n, S)
                     /\ PeerConnected(p) \in S => ~Holds(tendermint_queue, {n})
                     => Closes(tendermint_queue', n, S)
    BY <1>1, <1>2, TendermintQueueGrows
  <2>3. \A S : /\ Holds(tendermint_queue, S) => Holds(tendermint_queue', S)
               /\ PeerConnected(p) \in S => Holds(tendermint_queue', S)
    BY <1>1, <1>2, <2>1, SentToTendermint DEF BothAlive
  <2>4. PeerConnected(p) \in {PeerConnected(r)} => r = p
    BY <1>2, FromMessages
  <2>5. Closes(tendermint_queue', FromPeer(r), {PeerConnected(r)})
    BY <1>5, <2>1, <2>2, <2>4 DEF Introduced
  <2>6. Holds(tendermint_queue', {FromPeer(r)}) =>
          r \in addr_book \/ Holds(tendermint_queue', {PeerConnected(r)})
    <3>1. PeerConnected(p) \notin {FromPeer(r)}
      BY <1>2, FromMessages
    <3> QED
      BY <2>1, <2>2, <2>3, <3>1 DEF Introduced
  <2>7. connected_peers'[r] # NoConn =>
          \/ r \in addr_book
          \/ Holds(tendermint_queue', {PeerConnected(r)})
          \/ Holds(dispatcher_queue', {DropPeer(r)})
    <3>1. CASE r = p
      BY <2>3, <3>1
    <3>2. CASE r # p
      <4>1. HandshakeCompleted(c) \notin {DropPeer(r)}
        BY DEF HandshakeCompleted, DropPeer
      <4> QED
        BY <1>3, <1>6, <2>1, <2>3, <3>2, <4>1 DEF Introduced
    <3> QED
      BY <3>1, <3>2
  <2> QED
    BY <1>1, <2>5, <2>6, <2>7 DEF Introduced, FromPeer, PeerConnected, DropPeer
<1>9. Owned'
  <2> SUFFICES ASSUME NEW d \in SubDispatcher', ~Returned(PeerOf[d])'
               PROVE  connected_peers'[PeerOf[d]] = d
    BY DEF Owned
  <2>1. d \in Conn /\ PeerOf[d] \in Peer /\ (d # c => d \in SubDispatcher)
    BY <1>1 DEF SubDispatcher, TypeOK
  <2>2. ~Returned(PeerOf[d])
    BY <1>0, <2>1, AgreementBefore
  <2>3. d # c => PeerOf[d] # p
    BY <1>0, <1>2, <2>1, <2>2, FirstConnection DEF SubDispatcher, p
  <2> QED
    BY <1>0, <1>1, <1>6, <2>1, <2>3, AgreementBefore DEF p
<1>10. AnswersQueued' /\ AnswersDelivered'
  BY <1>0, <1>1, <1>3, AgreementBefore DEF AnswersQueued, AnswersDelivered, ToPeer, Lists
<1> QED
  BY <1>7, <1>9, <1>10 DEF Agreement

\* The dispatcher forgets a peer, whose task has ended.
LEMMA HandleDropPeerAgrees ==
  ASSUME AgreementInv, NEW p \in Peer, HandleDropPeer(p)
  PROVE  Agreement'
<1> USE ConnAssumption DEF AgreementInv, SessionInv
<1>1. /\ DispatcherReceives(DropPeer(p)) /\ DispatcherAlive
      /\ dispatcher_queue' = Tail(dispatcher_queue)
      /\ connected_peers' = [connected_peers EXCEPT ![p] = NoConn]
      /\ UNCHANGED <<tendermint_queue, tendermint, addr_book, dispatcher, task, peer_queue>>
  BY DEF HandleDropPeer, DispatcherReceives, tendermint_vars, conn_vars
<1>2. \A S : /\ Holds(dispatcher_queue', S) => Holds(dispatcher_queue, S)
             /\ Holds(dispatcher_queue, S) => DropPeer(p) \in S \/ Holds(dispatcher_queue', S)
             /\ DropPeer(p) \in S => Holds(dispatcher_queue, S)
  BY <1>1, ReceivedByDispatcher
<1>3. \A r \in Peer : connected_peers'[r] = IF r = p THEN NoConn ELSE connected_peers[r]
  BY <1>1 DEF TypeOK
<1>0. StaysOpened
  BY <1>1 DEF StaysOpened
<1>4. ASSUME ~Returned(p) PROVE \A c \in SubDispatcher : PeerOf[c] # p
  <2>1. Ended(p)
    BY <1>1, <1>2, <1>4 DEF SessionOrder, PeerOrder
  <2> QED
    BY <1>4, <2>1, EndedPeer DEF SubDispatcher
<1>5. ASSUME BothAlive', NEW r \in Peer, ~Returned(r)' PROVE Introduced(r)'
  <2>1. BothAlive /\ Introduced(r)
    BY <1>0, <1>1, <1>5, AgreementBefore DEF BothAlive, DispatcherAlive, TendermintAlive
  <2>2. r # p => DropPeer(p) \notin {DropPeer(r)}
    BY MessagesToPeers
  <2>3. connected_peers'[r] # NoConn =>
          \/ r \in addr_book
          \/ Holds(tendermint_queue, {PeerConnected(r)})
          \/ Holds(dispatcher_queue', {DropPeer(r)})
    BY <1>2, <1>3, <2>1, <2>2 DEF Introduced
  <2> QED
    BY <1>1, <2>1, <2>3 DEF Introduced, FromPeer, PeerConnected, DropPeer
<1>7. Owned'
  <2> SUFFICES ASSUME NEW d \in SubDispatcher', ~Returned(PeerOf[d])'
               PROVE  connected_peers'[PeerOf[d]] = d
    BY DEF Owned
  <2>1. d \in SubDispatcher /\ PeerOf[d] \in Peer
    BY <1>1 DEF SubDispatcher
  <2>2. ~Returned(PeerOf[d])
    BY <1>0, <2>1, AgreementBefore
  <2> QED
    BY <1>0, <1>1, <1>3, <1>4, <2>1, <2>2, AgreementBefore
<1>8. AnswersQueued' /\ AnswersDelivered'
  BY <1>0, <1>1, <1>2, AgreementBefore DEF AnswersQueued, AnswersDelivered, ToPeer, Lists
<1> QED
  BY <1>5, <1>7, <1>8 DEF Agreement

\* A message is passed on to the per-peer task its peer's sender leads to.
LEMMA DeliverToPeerAgrees ==
  ASSUME AgreementInv, NEW p \in Peer, NEW m \in PeerMessage, DeliverToPeer(p, m)
  PROVE  Agreement'
<1> DEFINE c == connected_peers[p]
<1> USE DEF AgreementInv, SessionInv
<1>1. /\ DispatcherReceives(ToPeer(p, m)) /\ c # NoConn
      /\ dispatcher_queue' = Tail(dispatcher_queue)
      /\ \/ peer_queue' = peer_queue
         \/ peer_queue' = [peer_queue EXCEPT ![c] = Append(@, m)]
      /\ UNCHANGED <<tendermint_queue, tendermint, addr_book, dispatcher, connected_peers, task>>
  BY DEF DeliverToPeer, tendermint_vars, dispatcher_vars
<1>2. \A S : /\ Holds(dispatcher_queue', S) => Holds(dispatcher_queue, S)
             /\ Holds(dispatcher_queue, S) => ToPeer(p, m) \in S \/ Holds(dispatcher_queue', S)
             /\ ToPeer(p, m) \in S => Holds(dispatcher_queue, S)
  BY <1>1, ReceivedByDispatcher
<1>3. c \in Conn /\ PeerOf[c] = p /\ StaysOpened
  BY <1>1 DEF SessionOrder, Routed, DispatcherReceives, StaysOpened, TypeOK
<1>0. ~Returned(p)' => Lists(p, m)
  BY <1>2, <1>3, AgreementBefore
<1> HIDE DEF c
<1>4. ASSUME NEW d \in Conn, NEW n \in PeerMessage, Holds(peer_queue'[d], {n}),
             ~Returned(PeerOf[d])'
      PROVE  Holds(peer_queue[d], {n}) \/ Lists(PeerOf[d], n)
  <2>1. peer_queue \in [Conn -> Seq(PeerMessage)]
    BY DEF TypeOK
  <2>2. CASE peer_queue' = [peer_queue EXCEPT ![c] = Append(@, m)] /\ d = c
    <3>1. peer_queue'[d] = Append(peer_queue[c], m) /\ peer_queue[c] \in Seq(PeerMessage)
      BY <1>3, <2>1, <2>2
    <3>2. Holds(peer_queue[c], {n}) \/ m \in {n}
      BY <1>4, <3>1, HoldsAppend
    <3> QED
      BY <1>0, <1>3, <1>4, <2>2, <3>2
  <2>3. CASE peer_queue'[d] = peer_queue[d]
    BY <1>4, <2>3
  <2> QED
    BY <1>1, <2>1, <2>2, <2>3
<1>5. \A r \in Peer : ToPeer(p, m) \notin {DropPeer(r)}
  BY MessagesToPeers
<1>6. \A r \in Peer : Holds(dispatcher_queue, {DropPeer(r)})
                        => Holds(dispatcher_queue', {DropPeer(r)})
  BY <1>2, <1>5
<1>7. \A d \in SubDispatcher' : d \in SubDispatcher
  BY <1>1 DEF SubDispatcher
<1>8. (DispatcherAlive' <=> DispatcherAlive) /\ (BothAlive' => BothAlive)
  BY <1>1 DEF BothAlive, DispatcherAlive, TendermintAlive
<1> QED
  BY <1>1, <1>2, <1>3, <1>4, <1>6, <1>7, <1>8, QuietAgreement

\* Every turn of the dispatcher.
LEMMA DispatcherStepAgrees ==
  ASSUME AgreementInv, DispatcherStep
  PROVE  Agreement'
<1> USE DEF AgreementInv, SessionInv
<1>1. ASSUME NEW c \in Conn, HandlePeerHandshake(c) PROVE Agreement'
  <2>1. /\ DispatcherReceives(PeerHandshake(c))
        /\ dispatcher_queue' = Tail(dispatcher_queue)
        /\ task' = [task EXCEPT ![c] = "greeting"]
        /\ UNCHANGED <<tendermint_queue, tendermint, addr_book, dispatcher,
                       connected_peers, peer_queue>>
    BY <1>1 DEF HandlePeerHandshake, tendermint_vars, dispatcher_vars
  <2>2. \A S : /\ Holds(dispatcher_queue', S) => Holds(dispatcher_queue, S)
               /\ Holds(dispatcher_queue, S)
                    => PeerHandshake(c) \in S \/ Holds(dispatcher_queue', S)
    BY <2>1, ReceivedByDispatcher
  <2>3. \A r \in Peer : PeerHandshake(c) \notin {DropPeer(r)}
    BY DEF PeerHandshake, DropPeer
  <2>4. \A d \in SubDispatcher' : d \in SubDispatcher
    BY <2>1 DEF SubDispatcher, TypeOK
  <2>5. (DispatcherAlive' <=> DispatcherAlive) /\ (BothAlive' => BothAlive) /\ StaysOpened
    BY <2>1 DEF StaysOpened, TypeOK, BothAlive, DispatcherAlive, TendermintAlive
  <2>6. \A r \in Peer : Holds(dispatcher_queue, {DropPeer(r)})
                          => Holds(dispatcher_queue', {DropPeer(r)})
    BY <2>2, <2>3
  <2> QED
    BY <2>1, <2>2, <2>4, <2>5, <2>6, QuietAgreement
<1>2. ASSUME NEW c \in Conn, HandleHandshakeCompleted(c) PROVE Agreement'
  BY <1>2, HandleHandshakeCompletedAgrees
<1>3. ASSUME NEW p \in Peer, NEW m \in PeerMessage, DeliverToPeer(p, m) PROVE Agreement'
  BY <1>3, DeliverToPeerAgrees
<1>4. ASSUME NEW p \in Peer, NEW m \in PeerMessage, PanicOnUnknownPeer(p, m) PROVE Agreement'
  BY <1>4, DropDispatcherAgrees DEF PanicOnUnknownPeer, DropDispatcher, StaysOpened
<1>5. ASSUME NEW p \in Peer, HandleDropPeer(p) PROVE Agreement'
  BY <1>5, HandleDropPeerAgrees
<1>6. CASE HandleExit
  BY <1>6, DropDispatcherAgrees DEF HandleExit, DropDispatcher, StaysOpened
<1> QED
  BY <1>1, <1>2, <1>3, <1>4, <1>5, <1>6 DEF DispatcherStep

-----------------------------------------------------------------------------
(* The Tendermint thread.                                                  *)

\* A peer asks: it was introduced before, so the answer lists it.
LEMMA HandleFromPeerAgrees ==
  ASSUME AgreementInv, NEW p \in Peer, HandleFromPeer(p)
  PROVE  Agreement'
<1> DEFINE m == AddressBookResponse(addr_book)
<1> USE DEF AgreementInv, SessionInv
<1>1. /\ TendermintReceives(FromPeer(p)) /\ TendermintAlive
      /\ tendermint_queue # << >> /\ Head(tendermint_queue) = FromPeer(p)
      /\ tendermint_queue' = Tail(tendermint_queue)
      /\ SendToDispatcher(ToPeer(p, m))
      /\ UNCHANGED <<tendermint, addr_book, dispatcher, connected_peers, task, peer_queue>>
  BY DEF HandleFromPeer, TendermintReceives, TendermintAlive, tendermint_vars,
    dispatcher_vars, conn_vars
<1>2. m \in PeerMessage /\ ToPeer(p, m) \in DispatcherMsg
  BY MessageTypes DEF TypeOK
<1>3. \A S : /\ Holds(tendermint_queue', S) => Holds(tendermint_queue, S)
             /\ Holds(tendermint_queue, S) => FromPeer(p) \in S \/ Holds(tendermint_queue', S)
             /\ FromPeer(p) \in S => Holds(tendermint_queue, S)
  BY <1>1, ReceivedByTendermint
<1>4. \A n, S : Closes(tendermint_queue, n, S) =>
        /\ Closes(tendermint_queue', n, S)
        /\ n = FromPeer(p) => ~Holds(tendermint_queue', S)
  BY <1>1, TendermintQueueShrinks
<1>0. StaysOpened
  BY <1>1 DEF StaysOpened
<1>5. DispatcherAlive /\ ~Returned(p) => Lists(p, m)
  <2> SUFFICES ASSUME DispatcherAlive, ~Returned(p) PROVE p \in addr_book
    BY DEF Lists, AddressBookResponse
  <2>1. Introduced(p)
    BY <1>1 DEF Agreement, BothAlive
  <2>2. FromPeer(p) \notin {PeerConnected(p)}
    BY FromMessages
  <2>3. ~Holds(tendermint_queue, {PeerConnected(p)})
    BY <1>3, <1>4, <2>1, <2>2 DEF Introduced
  <2> QED
    BY <1>3, <2>1, <2>3 DEF Introduced
<1> HIDE DEF m
<1>6. \A S : /\ Holds(dispatcher_queue, S) => Holds(dispatcher_queue', S)
             /\ Holds(dispatcher_queue', S) => Holds(dispatcher_queue, S) \/ ToPeer(p, m) \in S
  BY <1>1, <1>2, SentToDispatcher
<1>7. ASSUME BothAlive', NEW r \in Peer, ~Returned(r)' PROVE Introduced(r)'
  <2>1. BothAlive /\ Introduced(r)
    BY <1>0, <1>1, <1>7, AgreementBefore DEF BothAlive, DispatcherAlive, TendermintAlive
  <2>2. FromPeer(p) \notin {PeerConnected(r)}
    BY FromMessages
  <2>3. Holds(tendermint_queue, {PeerConnected(r)}) => Holds(tendermint_queue', {PeerConnected(r)})
    BY <1>3, <2>2
  <2> QED
    BY <1>1, <1>3, <1>4, <1>6, <2>1, <2>3 DEF Introduced, FromPeer, PeerConnected, DropPeer
<1>8. DispatcherAlive' => Owned'
  BY <1>0, <1>1, AgreementBefore DEF Owned, SubDispatcher, DispatcherAlive
<1>9. AnswersQueued'
  <2> SUFFICES ASSUME NEW r \in Peer, NEW n \in PeerMessage,
                      ~Returned(r)', Holds(dispatcher_queue', {ToPeer(r, n)})
               PROVE  Lists(r, n)
    BY DEF AnswersQueued, ToPeer, Lists
  <2>1. CASE Holds(dispatcher_queue, {ToPeer(r, n)})
    BY <1>0, <2>1, AgreementBefore
  <2>2. CASE ~Holds(dispatcher_queue, {ToPeer(r, n)})
    <3>1. p = r /\ m = n
      BY <1>2, <1>6, <2>2, ToMessages
    <3>2. DispatcherAlive
      BY <1>1, <2>2 DEF SendToDispatcher
    <3> QED
      BY <1>0, <1>5, <3>1, <3>2, AgreementBefore
  <2> QED
    BY <2>1, <2>2
<1>10. AnswersDelivered'
  BY <1>0, <1>1, AgreementBefore DEF AnswersDelivered, Lists
<1> QED
  BY <1>7, <1>8, <1>9, <1>10 DEF Agreement

\* A peer enters the address book.
LEMMA HandlePeerConnectedAgrees ==
  ASSUME AgreementInv, NEW p \in Peer, HandlePeerConnected(p)
  PROVE  Agreement'
<1> USE DEF AgreementInv, SessionInv
<1>1. /\ TendermintReceives(PeerConnected(p))
      /\ tendermint_queue # << >>
      /\ tendermint_queue' = Tail(tendermint_queue)
      /\ addr_book' = addr_book \cup {p}
      /\ UNCHANGED <<dispatcher_queue, tendermint, dispatcher, connected_peers, task, peer_queue>>
  BY DEF HandlePeerConnected, TendermintReceives, dispatcher_vars, conn_vars
<1>2. \A S : /\ Holds(tendermint_queue', S) => Holds(tendermint_queue, S)
             /\ Holds(tendermint_queue, S)
                  => PeerConnected(p) \in S \/ Holds(tendermint_queue', S)
  BY <1>1, ReceivedByTendermint
<1>3. \A n, S : Closes(tendermint_queue, n, S) => Closes(tendermint_queue', n, S)
  BY <1>1, TendermintQueueShrinks
<1>0. StaysOpened
  BY <1>1 DEF StaysOpened
<1>4. ASSUME BothAlive', NEW r \in Peer, ~Returned(r)' PROVE Introduced(r)'
  <2>1. BothAlive /\ Introduced(r)
    BY <1>0, <1>1, <1>4, AgreementBefore DEF BothAlive, DispatcherAlive, TendermintAlive
  <2>2. PeerConnected(p) \in {PeerConnected(r)} => r = p
    BY FromMessages
  <2>3. Holds(tendermint_queue, {PeerConnected(r)}) =>
          r \in addr_book' \/ Holds(tendermint_queue', {PeerConnected(r)})
    BY <1>1, <1>2, <2>2
  <2> QED
    BY <1>1, <1>2, <1>3, <2>1, <2>3 DEF Introduced, FromPeer, PeerConnected, DropPeer
<1>5. DispatcherAlive' => Owned'
  BY <1>0, <1>1, AgreementBefore DEF Owned, SubDispatcher, DispatcherAlive
<1>6. AnswersQueued' /\ AnswersDelivered'
  BY <1>0, <1>1, AgreementBefore DEF AnswersQueued, AnswersDelivered, ToPeer, Lists
<1> QED
  BY <1>4, <1>5, <1>6 DEF Agreement

\* A peer leaves the address book: it has nothing more to ask, and the
\* dispatcher is told.
LEMMA HandlePeerDisconnectedAgrees ==
  ASSUME AgreementInv, NEW p \in Peer, HandlePeerDisconnected(p)
  PROVE  Agreement'
<1> USE DEF AgreementInv, SessionInv
<1>1. /\ TendermintReceives(PeerDisconnected(p))
      /\ tendermint_queue # << >> /\ Head(tendermint_queue) = PeerDisconnected(p)
      /\ tendermint_queue' = Tail(tendermint_queue)
      /\ addr_book' = addr_book \ {p}
      /\ SendToDispatcher(DropPeer(p))
      /\ UNCHANGED <<tendermint, dispatcher, connected_peers, task, peer_queue>>
  BY DEF HandlePeerDisconnected, TendermintReceives, dispatcher_vars, conn_vars
<1>2. \A S : /\ Holds(tendermint_queue', S) => Holds(tendermint_queue, S)
             /\ Holds(tendermint_queue, S)
                  => PeerDisconnected(p) \in S \/ Holds(tendermint_queue', S)
  BY <1>1, ReceivedByTendermint
<1>3. \A n, S : Closes(tendermint_queue, n, S) =>
        /\ Closes(tendermint_queue', n, S)
        /\ n = PeerDisconnected(p) => ~Holds(tendermint_queue', S)
  BY <1>1, TendermintQueueShrinks
<1>4. \A S : /\ Holds(dispatcher_queue, S) => Holds(dispatcher_queue', S)
             /\ Holds(dispatcher_queue', S) => Holds(dispatcher_queue, S) \/ DropPeer(p) \in S
  BY <1>1, MessageTypes, SentToDispatcher
<1>0. StaysOpened
  BY <1>1 DEF StaysOpened
<1>5. ASSUME BothAlive', NEW r \in Peer, ~Returned(r)' PROVE Introduced(r)'
  <2>1. BothAlive /\ Introduced(r) /\ ~Returned(r)
    BY <1>0, <1>1, <1>5, AgreementBefore DEF BothAlive, DispatcherAlive, TendermintAlive
  <2>2. Closes(tendermint_queue', FromPeer(r), {PeerConnected(r)})
    BY <1>3, <2>1 DEF Introduced
  <2>3. CASE r = p
    <3>1. ~Holds(tendermint_queue', {FromPeer(r)})
      <4>1. Closes(tendermint_queue, PeerDisconnected(p), FromAbout(p))
        BY <2>1, <2>3 DEF BothAlive, SessionOrder, PeerOrder
      <4>2. ~Holds(tendermint_queue', FromAbout(p))
        BY <1>3, <4>1
      <4> QED
        BY <2>3, <4>2 DEF Holds, FromAbout
    <3>2. Holds(dispatcher_queue', {DropPeer(r)})
      BY <1>1, <2>1, <2>3, MessageTypes, DispatcherQueueGrows DEF BothAlive
    <3> QED
      BY <2>2, <3>1, <3>2 DEF Introduced, FromPeer, PeerConnected, DropPeer
  <2>4. CASE r # p
    <3>1. PeerDisconnected(p) \notin {PeerConnected(r)}
      BY FromMessages
    <3>2. Holds(tendermint_queue, {PeerConnected(r)})
            => Holds(tendermint_queue', {PeerConnected(r)})
      BY <1>2, <3>1
    <3>3. r \in addr_book => r \in addr_book'
      BY <1>1, <2>4
    <3> QED
      BY <1>1, <1>2, <1>4, <2>1, <2>2, <3>2, <3>3
         DEF Introduced, FromPeer, PeerConnected, DropPeer
  <2> QED
    BY <2>3, <2>4
<1>6. DispatcherAlive' => Owned'
  BY <1>0, <1>1, AgreementBefore DEF Owned, SubDispatcher, DispatcherAlive
<1>7. AnswersQueued'
  <2> SUFFICES ASSUME NEW r \in Peer, NEW n \in PeerMessage,
                      ~Returned(r)', Holds(dispatcher_queue', {ToPeer(r, n)})
               PROVE  Lists(r, n)
    BY DEF AnswersQueued, ToPeer, Lists
  <2>1. DropPeer(p) \notin {ToPeer(r, n)}
    BY MessagesToPeers
  <2> QED
    BY <1>0, <1>4, <2>1, AgreementBefore
<1>8. AnswersDelivered'
  BY <1>0, <1>1, AgreementBefore DEF AnswersDelivered, Lists
<1> QED
  BY <1>5, <1>6, <1>7, <1>8 DEF Agreement

\* The thread sends a message that is no answer, or none.
LEMMA QuietTendermintStep ==
  ASSUME AgreementInv,
         \/ dispatcher_queue' = dispatcher_queue
         \/ \E m \in {Exit} \cup {ToPeer(p, AddressBookRequest) : p \in Peer} :
              SendToDispatcher(m),
         BothAlive' => BothAlive /\ tendermint_queue' = tendermint_queue,
         UNCHANGED <<addr_book, dispatcher, connected_peers, task, peer_queue>>
  PROVE  Agreement'
<1> USE DEF AgreementInv, SessionInv
<1>1. \A S : Holds(dispatcher_queue, S) => Holds(dispatcher_queue', S)
  <2>1. \A m \in {Exit} \cup {ToPeer(p, AddressBookRequest) : p \in Peer} : m \in DispatcherMsg
    BY MessageTypes
  <2> QED
    BY <2>1, SentToDispatcher
<1>2. ASSUME NEW p \in Peer, NEW n \in PeerMessage, Holds(dispatcher_queue', {ToPeer(p, n)})
      PROVE  Holds(dispatcher_queue, {ToPeer(p, n)}) \/ Lists(p, n)
  <2>1. CASE dispatcher_queue' = dispatcher_queue
    BY <1>2, <2>1
  <2>2. CASE SendToDispatcher(Exit)
    <3>1. Exit \notin {ToPeer(p, n)}
      BY ToMessages
    <3> QED
      BY <1>2, <2>2, <3>1, MessageTypes, SentToDispatcher
  <2>3. ASSUME NEW r \in Peer, SendToDispatcher(ToPeer(r, AddressBookRequest))
        PROVE  Holds(dispatcher_queue, {ToPeer(p, n)}) \/ Lists(p, n)
    <3>1. Holds(dispatcher_queue, {ToPeer(p, n)}) \/ ToPeer(r, AddressBookRequest) \in {ToPeer(p, n)}
      BY <1>2, <2>3, MessageTypes, SentToDispatcher
    <3>2. ToPeer(r, AddressBookRequest) = ToPeer(p, n) => n = AddressBookRequest
      BY MessageTypes, ToMessages
    <3> QED
      BY <3>1, <3>2, RequestLists
  <2> QED
    BY <2>1, <2>2, <2>3
<1>3. /\ DispatcherAlive' => DispatcherAlive
      /\ StaysOpened /\ \A c \in SubDispatcher' : c \in SubDispatcher
  BY DEF DispatcherAlive, SubDispatcher, StaysOpened
<1> QED
  BY <1>1, <1>2, <1>3, QuietAgreement

\* Every step of the thread, and the ABCI layer's answer to it.
LEMMA TendermintStepAgrees ==
  ASSUME AgreementInv, TendermintStep \/ AbciReplies
  PROVE  Agreement'
<1> USE DEF dispatcher_vars, conn_vars, queue_vars, BothAlive, TendermintAlive,
            DispatcherAlive, EndThread
<1>1. CASE Tick \/ DispatcherGone
  BY <1>1, QuietTendermintStep DEF Tick, DispatcherGone
<1>2. ASSUME NEW p \in Peer, RequestAddrBook(p) PROVE Agreement'
  BY <1>2, QuietTendermintStep DEF RequestAddrBook
<1>3. CASE HandleExitRequest
  BY <1>3, QuietTendermintStep DEF HandleExitRequest
<1>4. CASE ConfirmExit \/ ExitUnanswered \/ AbciReplies
  BY <1>4, QuietTendermintStep DEF ConfirmExit, ExitUnanswered, AbciReplies
<1> QED
  BY <1>1, <1>2, <1>3, <1>4, HandleFromPeerAgrees, HandlePeerConnectedAgrees,
     HandlePeerDisconnectedAgrees DEF TendermintStep

-----------------------------------------------------------------------------
(* The tasks that own connections, and the peers.                          *)

\* What a task of a connection tells the Tendermint thread comes after the
\* introduction of its peer, and while the dispatcher lists it.
LEMMA TaskReports ==
  ASSUME AgreementInv, NEW c \in Conn, c \in SubDispatcher,
         NEW m \in {FromPeer(PeerOf[c]), PeerDisconnected(PeerOf[c])},
         SendToTendermint(m),
         StaysOpened, \A d \in SubDispatcher' : d \in SubDispatcher,
         UNCHANGED <<dispatcher_queue, tendermint, addr_book, dispatcher, connected_peers>>,
         \A d \in Conn : \A n \in PeerMessage :
           Holds(peer_queue'[d], {n}) => Holds(peer_queue[d], {n})
  PROVE  Agreement'
<1> DEFINE p == PeerOf[c]
<1> USE ConnAssumption DEF AgreementInv, SessionInv
<1>1. p \in Peer /\ m \in FromDispatcherMsg /\ m \in {FromPeer(p), PeerDisconnected(p)}
  BY MessageTypes
<1> HIDE DEF p
<1>2. /\ \A S : Holds(tendermint_queue', S) => Holds(tendermint_queue, S) \/ m \in S
      /\ \A n, S : /\ Closes(tendermint_queue, n, S)
                   /\ m \in S => ~Holds(tendermint_queue, {n})
                   => Closes(tendermint_queue', n, S)
  BY <1>1, TendermintQueueGrows
<1>3. \A S : Holds(tendermint_queue, S) => Holds(tendermint_queue', S)
  BY <1>1, SentToTendermint
<1>4. ASSUME BothAlive', NEW r \in Peer, ~Returned(r)' PROVE Introduced(r)'
  <2>1. BothAlive /\ Introduced(r) /\ ~Returned(r)
    BY <1>4, AgreementBefore DEF BothAlive, DispatcherAlive, TendermintAlive
  <2>2. m \notin {PeerConnected(r)} /\ (m \in {FromPeer(r)} => r = p)
    BY <1>1, FromMessages
  <2>3. Closes(tendermint_queue', FromPeer(r), {PeerConnected(r)})
    BY <1>2, <2>1, <2>2 DEF Introduced
  <2>4. Holds(tendermint_queue', {FromPeer(r)}) =>
          r \in addr_book \/ Holds(tendermint_queue', {PeerConnected(r)})
    <3>1. CASE r # p
      BY <1>2, <1>3, <2>1, <2>2, <3>1 DEF Introduced
    <3>2. CASE r = p
      <4>1. connected_peers[p] = c /\ c # NoConn
        BY <1>4, <2>1, <3>2, AgreementBefore, ConnAssumption DEF BothAlive, SubDispatcher, p
      <4>2. ~Holds(dispatcher_queue, {DropPeer(p)})
        <5>1. ~Ended(p)
          BY <1>1, <2>1, <3>2, EndedPeer DEF SubDispatcher, p
        <5> QED
          BY <1>1, <2>1, <3>2, <5>1 DEF SessionOrder, PeerOrder, BothAlive
      <4> QED
        BY <1>3, <2>1, <3>2, <4>1, <4>2 DEF Introduced
    <3> QED
      BY <3>1, <3>2
  <2>5. connected_peers[r] # NoConn =>
          \/ r \in addr_book
          \/ Holds(tendermint_queue', {PeerConnected(r)})
          \/ Holds(dispatcher_queue, {DropPeer(r)})
    BY <1>3, <2>1 DEF Introduced
  <2> QED
    BY <2>3, <2>4, <2>5 DEF Introduced, FromPeer, PeerConnected, DropPeer
<1>5. DispatcherAlive' => Owned'
  BY AgreementBefore DEF Owned, DispatcherAlive
<1>6. AnswersQueued' /\ AnswersDelivered'
  BY AgreementBefore DEF AnswersQueued, AnswersDelivered, ToPeer, Lists
<1> QED
  BY <1>4, <1>5, <1>6 DEF Agreement

\* A task goes on or ends, and takes messages from its queue or none.
LEMMA QuietTask ==
  ASSUME AgreementInv, NEW c \in Conn,
         \/ dispatcher_queue' = dispatcher_queue
         \/ \E m \in {PeerHandshake(c), HandshakeCompleted(c)} : SendToDispatcher(m),
         UNCHANGED <<tendermint_queue, tendermint, addr_book, dispatcher, connected_peers>>,
         \/ task' = task
         \/ \E how \in TaskState \ {"none", "select", "writing"} :
              task' = [task EXCEPT ![c] = how]
         \/ /\ task[c] \in {"select", "writing"} /\ task'[c] # "none"
            /\ \A d \in Conn : d # c => task'[d] = task[d],
         \/ peer_queue' = peer_queue
         \/ peer_queue[c] # << >> /\ peer_queue' = [peer_queue EXCEPT ![c] = Tail(@)]
         \/ peer_queue' = [peer_queue EXCEPT ![c] = << >>]
  PROVE  Agreement'
<1> USE DEF AgreementInv, SessionInv
<1>1. \A S : /\ Holds(dispatcher_queue, S) => Holds(dispatcher_queue', S)
             /\ Holds(dispatcher_queue', S) =>
                  Holds(dispatcher_queue, S) \/ PeerHandshake(c) \in S \/ HandshakeCompleted(c) \in S
  BY MessageTypes, SentToDispatcher
<1>2. \A r \in Peer, m \in PeerMessage :
        PeerHandshake(c) \notin {ToPeer(r, m)} /\ HandshakeCompleted(c) \notin {ToPeer(r, m)}
  BY ToMessages
<1>3. StaysOpened /\ \A d \in SubDispatcher' : d \in SubDispatcher
  BY DEF SubDispatcher, StaysOpened, TypeOK
<1>4. (DispatcherAlive' <=> DispatcherAlive) /\ (BothAlive' => BothAlive)
  BY DEF BothAlive, DispatcherAlive, TendermintAlive
<1>5. ASSUME NEW d \in Conn, NEW m \in PeerMessage, Holds(peer_queue'[d], {m})
      PROVE  Holds(peer_queue[d], {m})
  <2>1. peer_queue \in [Conn -> Seq(PeerMessage)]
    BY DEF TypeOK
  <2>2. CASE peer_queue'[d] = peer_queue[d]
    BY <1>5, <2>2
  <2>3. CASE d = c /\ peer_queue'[d] = << >>
    BY <1>5, <2>3, EmptyQueue
  <2>4. CASE d = c /\ peer_queue[c] # << >> /\ peer_queue'[d] = Tail(peer_queue[c])
    BY <1>5, <2>1, <2>4, HoldsTail
  <2> QED
    BY <2>1, <2>2, <2>3, <2>4
<1> QED
  BY <1>1, <1>2, <1>3, <1>4, <1>5, QuietAgreement

\* Every step of the tasks of a connection.
LEMMA ConnStepAgrees ==
  ASSUME AgreementInv, NEW c \in Conn, ConnStep(c)
  PROVE  Agreement'
<1> USE DEF tendermint_vars, dispatcher_vars, conn_vars, queue_vars, EndTask, TaskState
<1>1. CASE Accept(c)
  BY <1>1, QuietTask DEF Accept
<1>2. CASE HandshakeStep(c)
  BY <1>2, QuietTask DEF HandshakeStep, Greet, AwaitHello, HandshakeLost
<1>3. CASE TakeFromQueue(c)
  <2>1. /\ task[c] \in {"select", "writing"} /\ task'[c] # "none"
        /\ \A d \in Conn : d # c => task'[d] = task[d]
        /\ peer_queue[c] # << >> /\ peer_queue' = [peer_queue EXCEPT ![c] = Tail(@)]
        /\ UNCHANGED <<dispatcher_queue, tendermint_queue, tendermint, addr_book,
                       dispatcher, connected_peers>>
    BY <1>3 DEF TakeFromQueue, AgreementInv, SessionInv, TypeOK
  <2> QED
    BY <2>1, QuietTask
<1>4. CASE SenderDropped(c) \/ WriteError(c)
  BY <1>4, QuietTask DEF SenderDropped, WriteError
<1>5. CASE WriteFrame(c)
  <2>1. /\ task[c] \in {"select", "writing"} /\ task'[c] # "none"
        /\ \A d \in Conn : d # c => task'[d] = task[d]
        /\ peer_queue' = peer_queue
        /\ UNCHANGED <<dispatcher_queue, tendermint_queue, tendermint, addr_book,
                       dispatcher, connected_peers>>
    BY <1>5 DEF WriteFrame, AgreementInv, SessionInv, TypeOK
  <2> QED
    BY <2>1, QuietTask
<1>6. CASE ReadFrame(c)
  <2>1. /\ task[c] = "select" /\ UNCHANGED <<task, peer_queue>>
        /\ UNCHANGED <<dispatcher_queue, tendermint, addr_book, dispatcher, connected_peers>>
    BY <1>6 DEF ReadFrame
  <2>2. CASE tendermint_queue' = tendermint_queue
    BY <2>1, <2>2, QuietTask
  <2>3. CASE SendToTendermint(FromPeer(PeerOf[c]))
    BY <2>1, <2>3, TaskReports DEF SubDispatcher, StaysOpened
  <2> QED
    BY <1>6, <2>2, <2>3 DEF ReadFrame
<1>7. CASE PeerGone(c)
  <2>1. /\ task[c] = "select" /\ task' = [task EXCEPT ![c] = "done"]
        /\ peer_queue' = [peer_queue EXCEPT ![c] = << >>]
        /\ SendToTendermint(PeerDisconnected(PeerOf[c]))
        /\ UNCHANGED <<dispatcher_queue, tendermint, addr_book, dispatcher, connected_peers>>
    BY <1>7 DEF PeerGone
  <2>2. StaysOpened /\ \A d \in SubDispatcher' : d \in SubDispatcher
    BY <2>1 DEF SubDispatcher, StaysOpened, AgreementInv, SessionInv, TypeOK
  <2>3. \A d \in Conn : \A n \in PeerMessage :
          Holds(peer_queue'[d], {n}) => Holds(peer_queue[d], {n})
    <3>1. \A d \in Conn : peer_queue'[d] = IF d = c THEN << >> ELSE peer_queue[d]
      BY <2>1 DEF AgreementInv, SessionInv, TypeOK
    <3> QED
      BY <3>1, EmptyQueue
  <2> QED
    BY <2>1, <2>2, <2>3, TaskReports DEF SubDispatcher
<1> QED
  BY <1>1, <1>2, <1>3, <1>4, <1>5, <1>6, <1>7 DEF ConnStep, SelectStep, WriteStep

\* What the peers and the ABCI layer do concerns neither record.
LEMMA OutsideStepAgrees ==
  ASSUME AgreementInv, RequestExit \/ (\E c \in Conn : PeerStep(c)) \/ UNCHANGED vars
  PROVE  Agreement'
<1>1. UNCHANGED <<dispatcher_queue, tendermint_queue, tendermint, addr_book,
                  connected_peers, task, dispatcher, peer_queue>>
  BY DEF PeerStep, PeerSends, PeerReads, PeerCloses, RequestExit, queue_vars,
    tendermint_vars, dispatcher_vars, conn_vars, vars
<1> QED
  BY <1>1, QuietTendermintStep DEF BothAlive, DispatcherAlive, TendermintAlive

-----------------------------------------------------------------------------
(* Theorems.                                                               *)

LEMMA AgreementInitially == Init => AgreementInv
<1> SUFFICES ASSUME Init PROVE Agreement
  BY SessionInvInitially DEF AgreementInv
<1> USE DEF Init, NodeInit
<1>1. \A p \in Peer : Introduced(p)
  BY EmptyQueue DEF Introduced
<1>2. Owned
  BY DEF Owned, SubDispatcher
<1>3. AnswersQueued /\ AnswersDelivered
  BY EmptyQueue DEF AnswersQueued, AnswersDelivered
<1> QED
  BY <1>1, <1>2, <1>3 DEF Agreement

LEMMA AgreementInductive ==
  ASSUME AgreementInv, [Next]_vars
  PROVE  AgreementInv'
<1>1. SessionInv'
  BY SessionInvInductive DEF AgreementInv
<1>2. Agreement'
  BY DispatcherStepAgrees, TendermintStepAgrees, ConnStepAgrees, OutsideStepAgrees DEF Next
<1> QED
  BY <1>1, <1>2 DEF AgreementInv

-----------------------------------------------------------------------------
(* Messages on their way to a peer.                                        *)

\* Message m to peer p is in a queue.
Underway(p, m) ==
  \/ Holds(dispatcher_queue, {ToPeer(p, m)})
  \/ \E c \in Conn : PeerOf[c] = p /\ Holds(peer_queue[c], {m})

\* What the dispatcher's queue has for a peer.
LEMMA QueuedFor ==
  ASSUME NEW p \in Peer, NEW q \in Seq(DispatcherMsg), NEW m
  PROVE  (m \in {d.msg : d \in {e \in Contents(q) : e.type = "ToPeer" /\ e.peer = p}})
           <=> m \in PeerMessage /\ Holds(q, {ToPeer(p, m)})
<1>1. ASSUME NEW d \in DispatcherMsg, d.type = "ToPeer", d.peer = p
      PROVE  d.msg \in PeerMessage /\ d = ToPeer(p, d.msg)
  BY <1>1 DEF DispatcherMsg, ToPeer, Exit
<1>2. ToPeer(p, m).type = "ToPeer" /\ ToPeer(p, m).peer = p /\ ToPeer(p, m).msg = m
  BY DEF ToPeer
<1>3. \A i \in 1 .. Len(q) : q[i] \in DispatcherMsg
  OBVIOUS
<1> QED
  BY <1>1, <1>2, <1>3 DEF Contents, Holds

LEMMA ContentsHold ==
  ASSUME NEW q, NEW m
  PROVE  m \in Contents(q) <=> Holds(q, {m})
BY DEF Contents, Holds

LEMMA OutboundIs ==
  ASSUME TypeOK, NEW p \in Peer
  PROVE  Outbound(p) = {m \in PeerMessage : Underway(p, m)}
<1>1. dispatcher_queue \in Seq(DispatcherMsg) /\ peer_queue \in [Conn -> Seq(PeerMessage)]
  BY DEF TypeOK
<1>2. \A c \in Conn : \A m : Holds(peer_queue[c], {m}) => m \in PeerMessage
  BY <1>1 DEF Holds
<1>3. \A m : m \in Outbound(p) <=>
        \/ m \in {d.msg : d \in {e \in Contents(dispatcher_queue) : e.type = "ToPeer" /\ e.peer = p}}
        \/ \E c \in Conn : PeerOf[c] = p /\ Holds(peer_queue[c], {m})
  BY ContentsHold DEF Outbound
<1> QED
  BY <1>1, <1>2, <1>3, QueuedFor DEF Underway

-----------------------------------------------------------------------------
(* The theorems.                                                           *)

\* Whenever both queues are drained the address book and the map of senders
\* agree on every peer that has not come back, and its per-peer task is the one
\* its sender leads to (dispatcher.rs:62-64, 79-85, tendermint.rs:174-185).
THEOREM RecordsAgreeWhenIdle == Spec => []IdleAgreement
<1>1. AgreementInv /\ [Next]_vars => AgreementInv'
  BY AgreementInductive
<1>2. AgreementInv => IdleAgreement
  <2> SUFFICES ASSUME AgreementInv, tendermint = "running", DispatcherAlive,
                      dispatcher_queue = << >>, tendermint_queue = << >>,
                      NEW p \in Peer, ~Returned(p)
               PROVE  /\ p \in addr_book <=> connected_peers[p] # NoConn
                      /\ \A c \in SubDispatcher : PeerOf[c] = p => connected_peers[p] = c
    BY DEF IdleAgreement
  <2> USE DEF AgreementInv, SessionInv
  <2>1. BothAlive
    BY DEF BothAlive, TendermintAlive
  <2>2. Introduced(p) /\ PeerOrder(p)
    BY <2>1 DEF Agreement, SessionOrder, BothAlive
  <2>3. connected_peers[p] # NoConn => p \in addr_book
    BY <2>2, EmptyQueue DEF Introduced
  <2>4. connected_peers[p] = NoConn => p \notin addr_book
    BY <2>2 DEF PeerOrder, Silent
  <2>5. \A c \in SubDispatcher : PeerOf[c] = p => connected_peers[p] = c
    BY DEF Agreement, Owned
  <2> QED
    BY <2>3, <2>4, <2>5
<1> QED
  BY <1>1, <1>2, AgreementInitially, PTL DEF Spec

\* A peer that asks for the address book on its first connection finds itself in
\* the answer, wherever the answer is, and whoever else comes back
\* (dispatcher.rs:83-85, 112-114, tendermint.rs:160-165).
THEOREM RequesterAlwaysListed == Spec => []RequesterListed
<1>1. AgreementInv /\ [Next]_vars => AgreementInv'
  BY AgreementInductive
<1>2. AgreementInv => RequesterListed
  <2> SUFFICES ASSUME AgreementInv, NEW p \in Peer, ~Returned(p), NEW m \in Outbound(p)
               PROVE  Lists(p, m)
    BY DEF RequesterListed, Lists
  <2>1. m \in PeerMessage /\ Underway(p, m)
    BY OutboundIs DEF AgreementInv, SessionInv
  <2> QED
    BY <2>1 DEF Underway, AgreementInv, Agreement, AnswersQueued, AnswersDelivered
<1> QED
  BY <1>1, <1>2, AgreementInitially, PTL DEF Spec
=============================================================================
