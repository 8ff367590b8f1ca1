--------------------------- MODULE MembershipProofs ---------------------------
(***************************************************************************)
(* A `multithreaded` node implements Membership, for every set of peers    *)
(* and connections and any bounds.                                         *)
(*                                                                         *)
(* A step concerns at most one peer; for the others it does not change     *)
(* what Membership sees of them.  AgreementProofs says that the message    *)
(* that makes the node take a step about a peer finds the peer where       *)
(* Membership wants it.  What this module adds is when the threads and     *)
(* queues are at rest.                                                     *)
(***************************************************************************)
EXTENDS AgreementProofs

\* The dispatcher outlives the thread's wish to leave, exits only when asked,
\* the ticker asks listed peers only, and a task takes its queue with it.
Tidy ==
  /\ tendermint = "stopping" => abci # "idle"
  /\ DispatcherAlive =>
       /\ tendermint \in {"running", "ticking", "stopping"} /\ ~exit_ack
       /\ Holds(dispatcher_queue, {Exit}) => abci # "idle"
       /\ to_request \subseteq addr_book
       /\ \A c \in Conn : c \notin SubDispatcher => peer_queue[c] = << >>

ClubInv == AgreementInv /\ Tidy

-----------------------------------------------------------------------------
(* Tidy.                                                                   *)

\* Only Exit is Exit.
LEMMA OnlyExit ==
  /\ \A c \in Conn : PeerHandshake(c) # Exit /\ HandshakeCompleted(c) # Exit
  /\ \A p \in Peer : DropPeer(p) # Exit /\ \A m \in PeerMessage : ToPeer(p, m) # Exit
BY DEF PeerHandshake, HandshakeCompleted, DropPeer, ToPeer, Exit

\* A step that tells the dispatcher nothing new, asks nobody and gives no task
\* that has ended a message.
LEMMA QuietTidy ==
  ASSUME Tidy, UNCHANGED <<abci, tendermint, exit_ack, to_request>>,
         DispatcherAlive' => DispatcherAlive,
         DispatcherAlive' /\ Holds(dispatcher_queue', {Exit}) => Holds(dispatcher_queue, {Exit}),
         \/ addr_book \subseteq addr_book'
         \/ tendermint # "ticking" /\ (DispatcherAlive => to_request = {}),
         DispatcherAlive' =>
           \A c \in Conn : c \notin SubDispatcher' => peer_queue'[c] = << >>
  PROVE  Tidy'
BY DEF Tidy, Exit

\* What the dispatcher does.
LEMMA DispatcherStepTidy ==
  ASSUME ClubInv, DispatcherStep
  PROVE  Tidy'
<1> USE DEF ClubInv, AgreementInv, SessionInv
<1>1. ASSUME NEW c \in Conn, HandlePeerHandshake(c) \/ HandleHandshakeCompleted(c)
      PROVE  Tidy'
  <2>1. /\ dispatcher_queue # << >> /\ dispatcher_queue' = Tail(dispatcher_queue)
        /\ UNCHANGED <<abci, tendermint, exit_ack, to_request, dispatcher, addr_book, peer_queue>>
        /\ Head(dispatcher_queue) \in {PeerHandshake(c), HandshakeCompleted(c)}
        /\ task' = [task EXCEPT ![c] = task'[c]] /\ DispatcherAlive
    BY <1>1 DEF HandlePeerHandshake, HandleHandshakeCompleted, DispatcherReceives,
      tendermint_vars, dispatcher_vars, TypeOK
  <2>2. task[c] \in {"queued", "completed"}
    BY <2>1, DispatcherQueueShrinks DEF SessionOrder, ConnOrder
  <2>3. \A d \in Conn : d \notin SubDispatcher' => d \notin SubDispatcher
    BY <2>1, <2>2 DEF SubDispatcher, TypeOK
  <2> QED
    BY <2>1, <2>3, DispatcherQueueShrinks, QuietTidy DEF Tidy, DispatcherAlive
<1>2. ASSUME NEW p \in Peer, NEW m \in PeerMessage, DeliverToPeer(p, m) PROVE Tidy'
  <2>1. /\ dispatcher_queue # << >> /\ dispatcher_queue' = Tail(dispatcher_queue)
        /\ UNCHANGED <<abci, tendermint, exit_ack, to_request, dispatcher, addr_book, task>>
        /\ \A c \in Conn : c \notin SubDispatcher => peer_queue'[c] = peer_queue[c]
    BY <1>2 DEF DeliverToPeer, DispatcherReceives, tendermint_vars, dispatcher_vars, TypeOK
  <2> QED
    BY <2>1, DispatcherQueueShrinks, QuietTidy DEF Tidy, DispatcherAlive, SubDispatcher
<1>3. ASSUME NEW p \in Peer, HandleDropPeer(p) PROVE Tidy'
  <2>1. /\ dispatcher_queue # << >> /\ dispatcher_queue' = Tail(dispatcher_queue)
        /\ UNCHANGED <<abci, tendermint, exit_ack, to_request, dispatcher, addr_book, task, peer_queue>>
    BY <1>3 DEF HandleDropPeer, DispatcherReceives, tendermint_vars, conn_vars
  <2> QED
    BY <2>1, DispatcherQueueShrinks, QuietTidy DEF Tidy, DispatcherAlive, SubDispatcher
<1>4. CASE HandleExit \/ \E p \in Peer, m \in PeerMessage : PanicOnUnknownPeer(p, m)
  <2>1. ~DispatcherAlive' /\ UNCHANGED <<abci, tendermint>>
    BY <1>4 DEF HandleExit, PanicOnUnknownPeer, DropDispatcher, DispatcherAlive, tendermint_vars
  <2> QED
    BY <2>1 DEF Tidy
<1> QED
  BY <1>1, <1>2, <1>3, <1>4 DEF DispatcherStep

\* What the Tendermint thread does.
LEMMA TendermintStepTidy ==
  ASSUME ClubInv, TendermintStep \/ AbciReplies
  PROVE  Tidy'
<1> USE DEF ClubInv, AgreementInv, SessionInv
<1>1. CASE Tick \/ HandleExitRequest
  <2>1. /\ tendermint = "running" /\ tendermint' \in {"ticking", "stopping"}
        /\ to_request' \in {to_request, addr_book}
        /\ UNCHANGED <<abci, exit_ack, dispatcher, addr_book, task, peer_queue>>
        /\ tendermint' = "stopping" => abci = "exiting"
        /\ dispatcher_queue' # dispatcher_queue => abci = "exiting"
    BY <1>1 DEF Tick, HandleExitRequest, tendermint_vars, dispatcher_vars, conn_vars, queue_vars
  <2> QED
    BY <2>1 DEF Tidy, DispatcherAlive, SubDispatcher, Exit
<1>2. ASSUME NEW p \in Peer, RequestAddrBook(p) PROVE Tidy'
  <2>1. /\ SendToDispatcher(ToPeer(p, AddressBookRequest)) /\ to_request' = to_request \ {p}
        /\ tendermint = "ticking" /\ tendermint' \in {"ticking", "running"}
        /\ UNCHANGED <<abci, exit_ack, dispatcher, addr_book, task, peer_queue>>
    BY <1>2 DEF RequestAddrBook, dispatcher_vars, conn_vars
  <2>2. Holds(dispatcher_queue', {Exit}) => Holds(dispatcher_queue, {Exit})
    BY <2>1, OnlyExit, MessageTypes, SentToDispatcher
  <2> QED
    BY <2>1, <2>2 DEF Tidy, DispatcherAlive, SubDispatcher, Exit
<1>3. ASSUME NEW p \in Peer, HandleFromPeer(p) \/ HandlePeerConnected(p) \/ HandlePeerDisconnected(p)
      PROVE  Tidy'
  <2>1. /\ \/ dispatcher_queue' = dispatcher_queue
           \/ SendToDispatcher(ToPeer(p, AddressBookResponse(addr_book)))
           \/ SendToDispatcher(DropPeer(p))
        /\ UNCHANGED <<abci, tendermint, exit_ack, to_request, dispatcher, task, peer_queue>>
        /\ tendermint = "running"
    BY <1>3 DEF HandleFromPeer, HandlePeerConnected, HandlePeerDisconnected, TendermintReceives,
      tendermint_vars, dispatcher_vars, conn_vars
  <2>2. AddressBookResponse(addr_book) \in PeerMessage
    BY MessageTypes DEF TypeOK
  <2>3. Holds(dispatcher_queue', {Exit}) => Holds(dispatcher_queue, {Exit})
    BY <2>1, <2>2, OnlyExit, MessageTypes, SentToDispatcher
  <2>4. DispatcherAlive => to_request = {}
    BY <2>1 DEF SessionOrder
  <2> QED
    BY <2>1, <2>3, <2>4, QuietTidy DEF Tidy, DispatcherAlive, SubDispatcher
<1>4. CASE DispatcherGone \/ ConfirmExit \/ ExitUnanswered \/ AbciReplies
  <2>1. ~DispatcherAlive /\ dispatcher' = dispatcher
        /\ tendermint' \in {"reporting", "stopped", "panicked", "halted"}
    BY <1>4 DEF DispatcherGone, ConfirmExit, ExitUnanswered, AbciReplies, Tidy, EndThread,
      dispatcher_vars
  <2> QED
    BY <2>1 DEF Tidy, DispatcherAlive
<1> QED
  BY <1>1, <1>2, <1>3, <1>4 DEF TendermintStep

\* What the tasks of a connection do.
LEMMA ConnStepTidy ==
  ASSUME ClubInv, NEW c \in Conn, ConnStep(c)
  PROVE  Tidy'
<1> USE DEF ClubInv, AgreementInv, SessionInv
<1>1. /\ UNCHANGED <<abci, tendermint, exit_ack, to_request, addr_book, dispatcher>>
      /\ \A d \in Conn : d # c => task'[d] = task[d] /\ peer_queue'[d] = peer_queue[d]
      /\ \/ dispatcher_queue' = dispatcher_queue
         \/ SendToDispatcher(PeerHandshake(c))
         \/ SendToDispatcher(HandshakeCompleted(c))
  BY DEF ConnStep, Accept, HandshakeStep, Greet, AwaitHello, HandshakeLost, SelectStep,
    TakeFromQueue, SenderDropped, ReadFrame, PeerGone, WriteStep, WriteFrame, WriteError,
    EndTask, tendermint_vars, dispatcher_vars, queue_vars, TypeOK
<1>2. Holds(dispatcher_queue', {Exit}) => Holds(dispatcher_queue, {Exit})
  BY <1>1, OnlyExit, MessageTypes, SentToDispatcher
<1>3. c \notin SubDispatcher' =>
        \/ peer_queue'[c] = << >>
        \/ c \notin SubDispatcher /\ peer_queue'[c] = peer_queue[c]
  BY DEF ConnStep, Accept, HandshakeStep, Greet, AwaitHello, HandshakeLost, SelectStep,
    TakeFromQueue, SenderDropped, ReadFrame, PeerGone, WriteStep, WriteFrame, WriteError,
    EndTask, TypeOK, SubDispatcher
<1> QED
  BY <1>1, <1>2, <1>3, QuietTidy DEF Tidy, DispatcherAlive, SubDispatcher

LEMMA ClubInductive ==
  ASSUME ClubInv, [Next]_vars
  PROVE  ClubInv'
<1>1. AgreementInv'
  BY AgreementInductive DEF ClubInv
<1>2. ASSUME RequestExit \/ (\E c \in Conn : PeerStep(c)) \/ UNCHANGED vars PROVE Tidy'
  <2>1. /\ UNCHANGED <<dispatcher_queue, tendermint, addr_book, to_request, exit_ack, task,
                       dispatcher, peer_queue>>
        /\ abci' = abci \/ abci' = "exiting"
    BY <1>2 DEF PeerStep, PeerSends, PeerReads, PeerCloses, RequestExit, queue_vars,
      tendermint_vars, dispatcher_vars, conn_vars, vars
  <2> QED
    BY <2>1 DEF ClubInv, Tidy, DispatcherAlive, SubDispatcher, Exit
<1> QED
  BY <1>1, <1>2, DispatcherStepTidy, TendermintStepTidy, ConnStepTidy DEF Next, ClubInv

LEMMA ClubInitially == Init => ClubInv
BY AgreementInitially, EmptyQueue DEF ClubInv, Init, NodeInit, Tidy

-----------------------------------------------------------------------------
(* What Membership sees of a peer, and of a step that concerns one peer.   *)

\* Mail after a step.
LEMMA OutboundBecomes ==
  ASSUME TypeOK', NEW p \in Peer
  PROVE  Outbound(p)' = {m \in PeerMessage : Underway(p, m)'}
<1>1. dispatcher_queue' \in Seq(DispatcherMsg) /\ peer_queue' \in [Conn -> Seq(PeerMessage)]
  BY DEF TypeOK
<1>2. \A c \in Conn : \A m : Holds(peer_queue'[c], {m}) => m \in PeerMessage
  BY <1>1 DEF Holds
<1>3. \A m : m \in Outbound(p)' <=>
        \/ m \in {d.msg : d \in {e \in Contents(dispatcher_queue') : e.type = "ToPeer" /\ e.peer = p}}
        \/ \E c \in Conn : PeerOf[c] = p /\ Holds(peer_queue'[c], {m})
  BY ContentsHold DEF Outbound
<1>4. \A m : Underway(p, m)' <=>
        \/ Holds(dispatcher_queue', {ToPeer(p, m)})
        \/ \E c \in Conn : PeerOf[c] = p /\ Holds(peer_queue'[c], {m})
  BY DEF Underway, ToPeer
<1> QED
  BY <1>1, <1>2, <1>3, <1>4, QueuedFor

Rests(p) ==
  /\ Stage(p)' = Stage(p)
  /\ Served(p)' <=> Served(p)
  /\ MailTo(p)' = MailTo(p)

\* The step concerns peer p at most, and neither the end of the dispatcher, nor
\* the wish of the ABCI layer, nor what the peers do.
Concerns(p) ==
  /\ DispatcherAlive /\ DispatcherAlive'
  /\ HungUp' = HungUp
  /\ (abci' # "idle") = (abci # "idle")
  /\ \A r \in Peer : r # p => Rests(r)

LEMMA SightBefore ==
  ASSUME NEW p \in Peer, DispatcherAlive
  PROVE  /\ Stages[p] = Stage(p)
         /\ p \in InSession <=> Served(p)
         /\ Mail[p] = MailTo(p)
BY DEF Stages, InSession, Mail

LEMMA StagesMove ==
  ASSUME NEW p \in Peer, Concerns(p)
  PROVE  Stages' = [Stages EXCEPT ![p] = Stage(p)']
BY DEF Concerns, Stages, Rests

LEMMA MailMoves ==
  ASSUME NEW p \in Peer, Concerns(p)
  PROVE  Mail' = [Mail EXCEPT ![p] = MailTo(p)']
BY DEF Concerns, Mail, Rests

LEMMA SessionsMove ==
  ASSUME NEW p \in Peer, Concerns(p)
  PROVE  InSession' = IF Served(p)' THEN InSession \cup {p} ELSE InSession \ {p}
<1>1. \A r : r \in InSession => r \in Peer
  BY DEF InSession
<1>2. \A r : r \in InSession' => r \in Peer
  BY DEF InSession
<1>3. \A r \in Peer : r # p => (r \in InSession' <=> r \in InSession)
  BY DEF Concerns, Rests, InSession
<1>4. p \in InSession' <=> Served(p)'
  BY DEF Concerns, InSession
<1> QED
  BY <1>1, <1>2, <1>3, <1>4

LEMMA SeenOfOne ==
  ASSUME NEW p \in Peer, Concerns(p)
  PROVE  /\ Stages[p] = Stage(p)
         /\ p \in InSession <=> Served(p)
         /\ Mail[p] = MailTo(p)
         /\ Stages' = [Stages EXCEPT ![p] = Stage(p)']
         /\ InSession' = IF Served(p)' THEN InSession \cup {p} ELSE InSession \ {p}
         /\ Mail' = [Mail EXCEPT ![p] = MailTo(p)']
<1>1. DispatcherAlive
  BY DEF Concerns
<1> QED
  BY <1>1, SightBefore, StagesMove, MailMoves, SessionsMove

ClubStep == Club!Next \/ UNCHANGED Club!vars

\* What a step may do to a peer, named for what Membership calls it.
Joins(p) ==
  /\ Stage(p) = "away" /\ Stage(p)' = "joined"
  /\ Served(p)' /\ MailTo(p)' = MailTo(p)

Misses(p) ==
  /\ Stage(p) = "away" /\ Stage(p)' = "gone" /\ p \in HungUp
  /\ (Served(p)' <=> Served(p)) /\ MailTo(p)' = MailTo(p)

Enlists(p) ==
  /\ Stage(p) = "joined" /\ Stage(p)' = "member"
  /\ (Served(p)' <=> Served(p)) /\ MailTo(p)' = MailTo(p)

Leaves(p) ==
  /\ Stage(p) = "member" /\ Stage(p)' = "leaving" /\ ~Served(p)
  /\ ~Served(p)' /\ MailTo(p)' = MailTo(p)

IsForgotten(p) ==
  /\ Stage(p) = "leaving" /\ Stage(p)' = "gone" /\ MailTo(p) = {}
  /\ (Served(p)' <=> Served(p)) /\ MailTo(p)' = {}

Listed   == {r \in Peer : Stage(r) = "member"}
CameBack == {r \in Peer : Stage(r) = "back"}

IsWritten(p) ==
  /\ Stage(p) = "member" /\ Stage(p)' = Stage(p) /\ (Served(p)' <=> Served(p))
  /\ \E m \in PeerMessage :
       /\ MailTo(p)' = MailTo(p) \cup {m}
       /\ \/ m = AddressBookRequest
          \/ \E S \in SUBSET Peer : /\ m = AddressBookResponse(S)
                                    /\ Listed \subseteq S /\ S \subseteq Listed \cup CameBack

IsDelivered(p) ==
  /\ Stage(p)' = Stage(p) /\ (Served(p)' <=> Served(p))
  /\ MailTo(p) # {} /\ MailTo(p)' \subseteq MailTo(p)

Ends(p) ==
  /\ Stage(p)' = Stage(p) /\ Served(p) /\ ~Served(p)' /\ p \in HungUp
  /\ MailTo(p)' \subseteq MailTo(p)

Returns(p) ==
  /\ Stage(p) # "back" /\ Stage(p)' = "back" /\ p \in HungUp
  /\ ~Served(p)' /\ MailTo(p)' = {}

Moves(p) ==
  \/ Rests(p)
  \/ Joins(p) \/ Misses(p) \/ Enlists(p) \/ Leaves(p) \/ IsForgotten(p)
  \/ IsWritten(p) \/ IsDelivered(p) \/ Ends(p) \/ Returns(p)

LEMMA Unmoved ==
  ASSUME NEW p \in Peer, Concerns(p), Served(p)' <=> Served(p)
  PROVE  InSession' = InSession
<1>1. \A r : r \in InSession => r \in Peer
  BY DEF InSession
<1>2. \A r : r \in InSession' => r \in Peer
  BY DEF InSession
<1>3. \A r \in Peer : r \in InSession' <=> r \in InSession
  BY DEF Concerns, Rests, InSession
<1> QED
  BY <1>1, <1>2, <1>3

\* Membership follows.
LEMMA Follows ==
  ASSUME NEW p \in Peer, Concerns(p), Moves(p)
  PROVE  ClubStep
<1>1. /\ DispatcherAlive' = DispatcherAlive
      /\ (abci # "idle")' = (abci # "idle")
      /\ HungUp' = HungUp
  BY DEF Concerns
<1>2. CASE Rests(p)
  <2>1. Stages' = Stages
    BY <1>2 DEF Concerns, Rests, Stages
  <2>2. Mail' = Mail
    BY <1>2 DEF Concerns, Rests, Mail
  <2>3. InSession' = InSession
    BY <1>2, Unmoved DEF Rests
  <2> QED
    BY <1>1, <2>1, <2>2, <2>3 DEF ClubStep, Club!vars
<1>3. ASSUME Stage(p)' = Stage(p) PROVE Stages' = Stages
  BY <1>3 DEF Concerns, Rests, Stages
<1>4. ASSUME MailTo(p)' = MailTo(p) PROVE Mail' = Mail
  BY <1>4 DEF Concerns, Rests, Mail
<1>5. CASE Joins(p)
  <2>1. Mail' = Mail
    BY <1>4, <1>5 DEF Joins
  <2> QED
    BY <1>1, <1>5, <2>1, SeenOfOne DEF Joins, Club!Join, Club!Next, ClubStep
<1>6. CASE Misses(p) \/ Enlists(p) \/ Leaves(p) \/ IsForgotten(p)
  <2>1. Mail' = Mail
    BY <1>4, <1>6 DEF Misses, Enlists, Leaves, IsForgotten
  <2>2. InSession' = InSession
    BY <1>6, Unmoved DEF Misses, Enlists, Leaves, IsForgotten
  <2>3. Club!Miss(p) \/ Club!List(p) \/ Club!Unlist(p) \/ Club!Forget(p)
    BY <1>1, <1>6, <2>1, <2>2, SeenOfOne
      DEF Misses, Enlists, Leaves, IsForgotten, Club!Miss, Club!List, Club!Unlist, Club!Forget
  <2> QED
    BY <2>3 DEF Club!Next, ClubStep
<1>7. CASE IsWritten(p)
  <2>1. Stages' = Stages
    BY <1>3, <1>7 DEF IsWritten
  <2>2. InSession' = InSession
    BY <1>7, Unmoved DEF IsWritten
  <2>3. Club!Members = Listed /\ Club!Back = CameBack
    BY DEF Club!Members, Club!Back, Listed, CameBack, Stages, Concerns
  <2>4. \E m \in {Club!Request} \cup {Club!Answer(Club!Members \cup B) : B \in SUBSET Club!Back} :
          MailTo(p)' = MailTo(p) \cup {m}
    <3>1. PICK m \in PeerMessage :
            /\ MailTo(p)' = MailTo(p) \cup {m}
            /\ \/ m = AddressBookRequest
               \/ \E S \in SUBSET Peer :
                    /\ m = AddressBookResponse(S)
                    /\ Listed \subseteq S /\ S \subseteq Listed \cup CameBack
      BY <1>7 DEF IsWritten
    <3>2. CASE m = AddressBookRequest
      BY <3>1, <3>2 DEF AddressBookRequest, Club!Request
    <3>3. ASSUME NEW S \in SUBSET Peer, m = AddressBookResponse(S),
                 Listed \subseteq S, S \subseteq Listed \cup CameBack
          PROVE  m \in {Club!Answer(Club!Members \cup B) : B \in SUBSET Club!Back}
      <4>1. S = Club!Members \cup (S \cap CameBack) /\ S \cap CameBack \in SUBSET Club!Back
        BY <2>3, <3>3
      <4> QED
        BY <3>3, <4>1 DEF AddressBookResponse, Club!Answer
    <3> QED
      BY <3>1, <3>2, <3>3
  <2>5. Club!Write(p)
    BY <1>1, <1>7, <2>1, <2>2, <2>4, SeenOfOne DEF IsWritten, Club!Write
  <2> QED
    BY <2>5 DEF Club!Next, ClubStep
<1>8. CASE IsDelivered(p)
  <2>1. Stages' = Stages
    BY <1>3, <1>8 DEF IsDelivered
  <2>2. InSession' = InSession
    BY <1>8, Unmoved DEF IsDelivered
  <2>3. Club!Deliver(p)
    BY <1>1, <1>8, <2>1, <2>2, SeenOfOne DEF IsDelivered, Club!Deliver
  <2> QED
    BY <2>3 DEF Club!Next, ClubStep
<1>9. CASE Ends(p)
  <2>1. Stages' = Stages
    BY <1>3, <1>9 DEF Ends
  <2>2. Club!EndSession(p)
    BY <1>1, <1>9, <2>1, SeenOfOne DEF Ends, Club!EndSession
  <2> QED
    BY <2>2 DEF Club!Next, ClubStep
<1>10. CASE Returns(p)
  <2>1. Club!ComeBack(p)
    BY <1>1, <1>10, SeenOfOne DEF Returns, Club!ComeBack, Concerns
  <2> QED
    BY <2>1 DEF Club!Next, ClubStep
<1> QED
  BY <1>2, <1>5, <1>6, <1>7, <1>8, <1>9, <1>10 DEF Moves

-----------------------------------------------------------------------------
(* Peers a step does not concern.                                          *)

\* What the node knows of peer r, its tasks, its mail and its introduction are
\* as before.
Undisturbed(r) ==
  /\ Returned(r)' <=> Returned(r)
  /\ \A c \in Conn : PeerOf[c] = r =>
       /\ task'[c] = "done" <=> task[c] = "done"
       /\ c \in SubDispatcher' <=> c \in SubDispatcher
       /\ peer_queue'[c] = peer_queue[c]
  /\ connected_peers'[r] = connected_peers[r]
  /\ r \in addr_book' <=> r \in addr_book
  /\ \A m \in PeerMessage :
       Holds(dispatcher_queue', {ToPeer(r, m)}) <=> Holds(dispatcher_queue, {ToPeer(r, m)})
  /\ Holds(tendermint_queue', {PeerConnected(r)}) <=> Holds(tendermint_queue, {PeerConnected(r)})

LEMMA SameMail ==
  ASSUME TypeOK, TypeOK', NEW p \in Peer, Returned(p)' <=> Returned(p),
         \A m \in PeerMessage : Underway(p, m)' <=> Underway(p, m)
  PROVE  MailTo(p)' = MailTo(p)
<1>1. Outbound(p) = {m \in PeerMessage : Underway(p, m)}
  BY OutboundIs
<1>2. Outbound(p)' = {m \in PeerMessage : Underway(p, m)'}
  BY OutboundBecomes
<1> QED
  BY <1>1, <1>2 DEF MailTo

LEMMA UndisturbedRests ==
  ASSUME TypeOK, TypeOK', NEW r \in Peer, Undisturbed(r)
  PROVE  Rests(r)
<1>1. \A m \in PeerMessage : Underway(r, m)' <=> Underway(r, m)
  BY DEF Undisturbed, Underway, ToPeer
<1>3. MailTo(r)' = MailTo(r)
  BY <1>1, SameMail DEF Undisturbed
<1>4. Served(r)' <=> Served(r)
  BY DEF Served, Undisturbed, SubDispatcher
<1>5. Ended(r)' <=> Ended(r)
  BY DEF Ended, Undisturbed
<1>6. Stage(r)' = Stage(r)
  BY <1>5 DEF Stage, Undisturbed, PeerConnected
<1> QED
  BY <1>3, <1>4, <1>6 DEF Rests

\* A peer that has come back stays so, and nothing is seen of it any more.
LEMMA ReturnedRests ==
  ASSUME NEW r, Returned(r), Returned(r)'
  PROVE  Rests(r)
BY DEF Rests, Stage, Served, MailTo

LEMMA SameReturned ==
  ASSUME \A c \in Conn : task'[c] = "none" <=> task[c] = "none"
  PROVE  \A r \in Peer : Returned(r)' <=> Returned(r)
BY DEF Returned

\* Mail after a step that puts nothing new on its way to p.
LEMMA NothingNew ==
  ASSUME TypeOK, TypeOK', NEW p \in Peer, Returned(p)' <=> Returned(p),
         \A m \in PeerMessage : Underway(p, m)' => Underway(p, m)
  PROVE  MailTo(p)' \subseteq MailTo(p)
<1>1. Outbound(p) = {m \in PeerMessage : Underway(p, m)}
  BY OutboundIs
<1>2. Outbound(p)' = {m \in PeerMessage : Underway(p, m)'}
  BY OutboundBecomes
<1> QED
  BY <1>1, <1>2 DEF MailTo

\* Nobody gives up a connection, and no task ends.
LEMMA SameHungUp ==
  ASSUME UNCHANGED <<closed, inbox>>, DispatcherAlive' <=> DispatcherAlive,
         \A c \in Conn : task'[c] = "done" <=> task[c] = "done",
         \A r \in Peer : Returned(r)' <=> Returned(r)
  PROVE  HungUp' = HungUp
<1>1. \A r \in Peer : Ended(r)' <=> Ended(r)
  BY DEF Ended
<1>2. \A c \in Conn : GivenUp(c)' <=> GivenUp(c)
  BY DEF GivenUp, Contents
<1> QED
  BY <1>1, <1>2 DEF HungUp

\* A step the peers and the ABCI layer have no part in, while the dispatcher
\* runs, moves at most peer p.
LEMMA OneMoves ==
  ASSUME TypeOK, TypeOK', DispatcherAlive, DispatcherAlive',
         HungUp' = HungUp, abci' = abci, NEW p \in Peer,
         \A r \in Peer : r # p => Undisturbed(r),
         Moves(p)
  PROVE  ClubStep
<1>1. \A r \in Peer : r # p => Rests(r)
  BY UndisturbedRests
<1> QED
  BY <1>1, Follows DEF Concerns

LEMMA NoneMoves ==
  ASSUME TypeOK, TypeOK', DispatcherAlive, DispatcherAlive',
         HungUp' = HungUp, abci' = abci,
         \A r \in Peer : Undisturbed(r)
  PROVE  UNCHANGED Club!vars
<1>1. \A r \in Peer : Rests(r)
  BY UndisturbedRests
<1>3. Stages' = Stages
  BY <1>1 DEF Stages, Rests
<1>4. Mail' = Mail
  BY <1>1 DEF Mail, Rests
<1>5. InSession' = InSession
  <2>1. \A r \in Peer : Served(r)' <=> Served(r)
    BY <1>1 DEF Rests
  <2> QED
    BY <2>1 DEF InSession
<1>6. DispatcherAlive' = DispatcherAlive /\ (abci # "idle")' = (abci # "idle")
  OBVIOUS
<1> QED
  BY <1>3, <1>4, <1>5, <1>6 DEF Club!vars

-----------------------------------------------------------------------------
(* What the dispatcher does, seen from Membership.                         *)

\* What every operation may assume.
Before == ClubInv /\ TypeOK' /\ DispatcherAlive

\* The connection a message of p's travels with is p's only one, unless p has
\* come back.
LEMMA OnlyConnection ==
  ASSUME NEW p \in Peer, ~Returned(p), NEW c \in Conn, PeerOf[c] = p, task[c] # "none"
  PROVE  \A d \in Conn : PeerOf[d] = p /\ d # c => task[d] = "none"
BY DEF Returned

\* A handshake that is not over: the node knows nothing of the peer.
LEMMA Unknown ==
  ASSUME ClubInv, DispatcherAlive, NEW c \in Conn, ~Returned(PeerOf[c]),
         task[c] \in {"queued", "greeting", "awaiting", "completed"}
  PROVE  /\ connected_peers[PeerOf[c]] = NoConn /\ ~Ended(PeerOf[c])
         /\ Silent(PeerOf[c]) /\ Stage(PeerOf[c]) = "away"
         /\ \A d \in Conn : PeerOf[d] = PeerOf[c] => d \notin SubDispatcher
<1> DEFINE p == PeerOf[c]
<1>1. p \in Peer
  BY ConnAssumption
<1>2. \A d \in Conn : PeerOf[d] = p /\ d # c => task[d] = "none"
  BY <1>1, OnlyConnection
<1>3. connected_peers[p] = NoConn
  <2>1. Routed(p) /\ connected_peers[p] \in Conn \cup {NoConn}
    BY <1>1 DEF ClubInv, AgreementInv, SessionInv, SessionOrder, TypeOK
  <2> QED
    BY <1>2, <2>1 DEF Routed, Established
<1>4. ~Ended(p)
  BY <1>2 DEF Ended
<1>5. Silent(p)
  BY <1>1, <1>3 DEF ClubInv, AgreementInv, SessionInv, SessionOrder, PeerOrder
<1>6. \A d \in Conn : PeerOf[d] = p => d \notin SubDispatcher
  BY <1>2 DEF SubDispatcher
<1> QED
  BY <1>3, <1>4, <1>5, <1>6 DEF Stage

LEMMA HandlePeerHandshakeSeen ==
  ASSUME Before, NEW c \in Conn, HandlePeerHandshake(c)
  PROVE  ClubStep
<1> USE DEF Before, ClubInv, AgreementInv, SessionInv
<1>1. task[c] = "queued" /\ task' = [task EXCEPT ![c] = "greeting"]
  <2>1. Holds(dispatcher_queue, {PeerHandshake(c)})
    BY ReceivedByDispatcher DEF HandlePeerHandshake
  <2> QED
    BY <2>1 DEF SessionOrder, ConnOrder, HandlePeerHandshake
<1>2. \A r \in Peer : Returned(r)' <=> Returned(r)
  BY <1>1, SameReturned DEF TypeOK
<1>3. \A r \in Peer : \A m \in PeerMessage :
        Holds(dispatcher_queue', {ToPeer(r, m)}) <=> Holds(dispatcher_queue, {ToPeer(r, m)})
  <2>1. \A r \in Peer : \A m \in PeerMessage : ToPeer(r, m) # PeerHandshake(c)
    BY ToMessages
  <2> QED
    BY <2>1, ReceivedByDispatcher DEF HandlePeerHandshake
<1>4. \A r \in Peer : Undisturbed(r)
  <2>1. \A d \in Conn : /\ task'[d] = "done" <=> task[d] = "done"
                        /\ d \in SubDispatcher' <=> d \in SubDispatcher
    BY <1>1 DEF SubDispatcher, TypeOK
  <2> QED
    BY <1>2, <1>3, <2>1
      DEF Undisturbed, HandlePeerHandshake, conn_vars, dispatcher_vars, tendermint_vars, PeerConnected
<1>5. HungUp' = HungUp
  BY <1>1, <1>2, SameHungUp DEF HandlePeerHandshake, dispatcher_vars, DispatcherAlive, TypeOK
<1> QED
  BY <1>4, <1>5, NoneMoves
    DEF ClubStep, HandlePeerHandshake, dispatcher_vars, tendermint_vars, DispatcherAlive

LEMMA HandleHandshakeCompletedSeen ==
  ASSUME Before, NEW c \in Conn, HandleHandshakeCompleted(c)
  PROVE  ClubStep
<1> USE DEF Before, ClubInv, AgreementInv, SessionInv
<1> DEFINE p == PeerOf[c]
<1>1. task[c] = "completed" /\ task' = [task EXCEPT ![c] = "select"] /\ p \in Peer
  <2>1. Holds(dispatcher_queue, {HandshakeCompleted(c)})
    BY ReceivedByDispatcher DEF HandleHandshakeCompleted
  <2> QED
    BY <2>1, ConnAssumption DEF SessionOrder, ConnOrder, HandleHandshakeCompleted
<1>2. \A r \in Peer : Returned(r)' <=> Returned(r)
  BY <1>1, SameReturned DEF TypeOK
<1>3. \A r \in Peer : \A m \in PeerMessage :
        Holds(dispatcher_queue', {ToPeer(r, m)}) <=> Holds(dispatcher_queue, {ToPeer(r, m)})
  <2>1. \A r \in Peer : \A m \in PeerMessage : ToPeer(r, m) # HandshakeCompleted(c)
    BY ToMessages
  <2> QED
    BY <2>1, ReceivedByDispatcher DEF HandleHandshakeCompleted
<1>4. /\ \A S : Holds(tendermint_queue', S) => Holds(tendermint_queue, S) \/ PeerConnected(p) \in S
      /\ \A S : Holds(tendermint_queue, S) => Holds(tendermint_queue', S)
      /\ Holds(tendermint_queue', {PeerConnected(p)})
  <2>1. TendermintAlive /\ PeerConnected(p) \in FromDispatcherMsg
    BY <1>1, MessageTypes DEF Tidy, TendermintAlive
  <2> QED
    BY <1>1, <2>1, SentToTendermint, TendermintQueueGrows DEF HandleHandshakeCompleted, SendToTendermint
<1>5. \A r \in Peer : r # p => Undisturbed(r)
  <2>1. \A d \in Conn : PeerOf[d] # p => task'[d] = task[d]
    BY <1>1 DEF TypeOK
  <2>2. \A r \in Peer : r # p => connected_peers'[r] = connected_peers[r]
    BY DEF HandleHandshakeCompleted, TypeOK
  <2>3. \A r \in Peer : r # p => PeerConnected(p) # PeerConnected(r)
    BY <1>1, FromMessages
  <2> QED
    BY <1>2, <1>3, <1>4, <2>1, <2>2, <2>3
      DEF Undisturbed, HandleHandshakeCompleted, tendermint_vars, SubDispatcher, PeerConnected
<1>6. ASSUME ~Returned(p) PROVE Joins(p)
  <2>1. /\ Silent(p) /\ Stage(p) = "away"
        /\ \A d \in Conn : PeerOf[d] = p => d \notin SubDispatcher
    BY <1>1, <1>6, Unknown
  <2>2. connected_peers'[p] = c /\ c # NoConn
    BY <1>1, ConnAssumption DEF HandleHandshakeCompleted, TypeOK
  <2>3. p \notin addr_book'
    BY <2>1 DEF Silent, HandleHandshakeCompleted, tendermint_vars
  <2>4. ~Returned(p)'
    BY <1>1, <1>2, <1>6
  <2>5. Stage(p)' = "joined"
    BY <1>4, <2>2, <2>3, <2>4 DEF Stage, PeerConnected
  <2>6. Served(p)'
    BY <1>1, <2>4 DEF Served, SubDispatcher, TypeOK
  <2>7. \A m \in PeerMessage : Underway(p, m)' <=> Underway(p, m)
    BY <1>1, <1>3 DEF Underway, HandleHandshakeCompleted, ToPeer
  <2>8. MailTo(p)' = MailTo(p)
    BY <1>1, <1>2, <2>7, SameMail
  <2> QED
    BY <2>1, <2>5, <2>6, <2>8 DEF Joins
<1>7. Moves(p)
  BY <1>1, <1>2, <1>6, ReturnedRests DEF Moves
<1>8. HungUp' = HungUp
  BY <1>1, <1>2, SameHungUp DEF HandleHandshakeCompleted, DispatcherAlive, TypeOK
<1> QED
  BY <1>1, <1>5, <1>7, <1>8, OneMoves DEF HandleHandshakeCompleted, tendermint_vars, DispatcherAlive

LEMMA DeliverToPeerSeen ==
  ASSUME Before, NEW p \in Peer, NEW m \in PeerMessage, DeliverToPeer(p, m)
  PROVE  ClubStep
<1> USE DEF Before, ClubInv, AgreementInv, SessionInv
<1> DEFINE c == connected_peers[p]
<1>1. c \in Conn /\ PeerOf[c] = p
  BY DEF DeliverToPeer, TypeOK, SessionOrder, Routed
<1>2. \A r \in Peer : Returned(r)' <=> Returned(r)
  BY SameReturned DEF DeliverToPeer
<1>3. /\ \A S : Holds(dispatcher_queue', S) => Holds(dispatcher_queue, S)
      /\ \A S : Holds(dispatcher_queue, S) => ToPeer(p, m) \in S \/ Holds(dispatcher_queue', S)
      /\ Holds(dispatcher_queue, {ToPeer(p, m)})
  BY ReceivedByDispatcher DEF DeliverToPeer
<1>4. \A d \in Conn : d # c => peer_queue'[d] = peer_queue[d]
  BY DEF DeliverToPeer, TypeOK
<1>5. \A r \in Peer : r # p => Undisturbed(r)
  <2>1. \A r \in Peer : \A n \in PeerMessage : r # p => ToPeer(r, n) # ToPeer(p, m)
    BY ToMessages
  <2> QED
    BY <1>1, <1>2, <1>3, <1>4, <2>1
      DEF Undisturbed, DeliverToPeer, dispatcher_vars, tendermint_vars, SubDispatcher, PeerConnected
<1>6. ASSUME ~Returned(p) PROVE IsDelivered(p)
  <2>1. Stage(p)' = Stage(p) /\ (Served(p)' <=> Served(p))
    BY <1>2
      DEF Stage, Served, Ended, SubDispatcher, DeliverToPeer, dispatcher_vars, tendermint_vars, PeerConnected
  <2>2. m \in MailTo(p)
    BY <1>3, <1>6, OutboundIs DEF MailTo, Underway
  <2>3. \A n \in PeerMessage : Underway(p, n)' => Underway(p, n)
    <3>1. \A n : Holds(peer_queue'[c], {n}) => Holds(peer_queue[c], {n}) \/ n = m
      <4>1. peer_queue[c] \in Seq(PeerMessage)
        BY <1>1 DEF TypeOK
      <4>2. peer_queue'[c] \in {peer_queue[c], Append(peer_queue[c], m)}
        BY <1>1 DEF DeliverToPeer, TypeOK
      <4> QED
        BY <4>1, <4>2, HoldsAppend
    <3> QED
      BY <1>1, <1>3, <1>4, <3>1 DEF Underway, ToPeer
  <2>4. MailTo(p)' \subseteq MailTo(p)
    BY <1>2, <2>3, NothingNew
  <2> QED
    BY <2>1, <2>2, <2>4 DEF IsDelivered
<1>7. Moves(p)
  BY <1>2, <1>6, ReturnedRests DEF Moves
<1>8. HungUp' = HungUp
  BY <1>2, SameHungUp DEF DeliverToPeer, dispatcher_vars, DispatcherAlive
<1> QED
  BY <1>5, <1>7, <1>8, OneMoves DEF DeliverToPeer, tendermint_vars, dispatcher_vars, DispatcherAlive

LEMMA HandleDropPeerSeen ==
  ASSUME Before, NEW p \in Peer, HandleDropPeer(p)
  PROVE  ClubStep
<1> USE DEF Before, ClubInv, AgreementInv, SessionInv
<1>1. \A r \in Peer : Returned(r)' <=> Returned(r)
  BY SameReturned DEF HandleDropPeer, conn_vars
<1>2. \A r \in Peer : \A m \in PeerMessage :
        Holds(dispatcher_queue', {ToPeer(r, m)}) <=> Holds(dispatcher_queue, {ToPeer(r, m)})
  <2>1. \A r \in Peer : \A m \in PeerMessage : ToPeer(r, m) # DropPeer(p)
    BY ToMessages
  <2> QED
    BY <2>1, ReceivedByDispatcher DEF HandleDropPeer
<1>3. \A r \in Peer : r # p => Undisturbed(r)
  <2>1. \A r \in Peer : r # p => connected_peers'[r] = connected_peers[r]
    BY DEF HandleDropPeer, TypeOK
  <2> QED
    BY <1>1, <1>2, <2>1
      DEF Undisturbed, HandleDropPeer, conn_vars, tendermint_vars, SubDispatcher, PeerConnected
<1>4. ASSUME ~Returned(p) PROVE Rests(p) \/ IsForgotten(p)
  <2>1. Silent(p) /\ Ended(p)
    <3>1. Holds(dispatcher_queue, {DropPeer(p)})
      BY ReceivedByDispatcher DEF HandleDropPeer
    <3> QED
      BY <1>4, <3>1 DEF SessionOrder, PeerOrder
  <2>2. \A m \in PeerMessage : ~Holds(dispatcher_queue', {ToPeer(p, m)})
    <3>1. /\ Closes(dispatcher_queue, DropPeer(p), ToAbout(p))
          /\ dispatcher_queue \in Seq(DispatcherMsg)
          /\ dispatcher_queue # << >> /\ Head(dispatcher_queue) = DropPeer(p)
      BY <1>4 DEF SessionOrder, PeerOrder, TypeOK, HandleDropPeer, DispatcherReceives
    <3>2. ~Holds(dispatcher_queue', ToAbout(p))
      BY <3>1, ClosesTail DEF HandleDropPeer
    <3> QED
      BY <3>2 DEF Holds, ToAbout
  <2>3. \A c \in Conn : PeerOf[c] = p => c \notin SubDispatcher /\ peer_queue[c] = << >>
    BY <2>1 DEF Silent, Tidy
  <2>4. \A m \in PeerMessage : ~Underway(p, m)
    BY <1>2, <2>2, <2>3, EmptyQueue DEF Underway
  <2>5. MailTo(p) = {}
    BY <2>4, OutboundIs DEF MailTo
  <2>6. MailTo(p)' \subseteq MailTo(p)
    BY <1>1, <1>2, NothingNew DEF Underway, HandleDropPeer, conn_vars, ToPeer
  <2>7. ~Served(p) /\ ~Served(p)'
    BY <2>3 DEF Served, SubDispatcher, HandleDropPeer, conn_vars
  <2>8. Stage(p)' = "gone"
    BY <1>1, <1>4, <2>1 DEF Stage, Ended, HandleDropPeer, conn_vars, TypeOK
  <2>9. Stage(p) \in {"gone", "leaving"}
    <3>1. ~Holds(tendermint_queue, {PeerConnected(p)})
      BY <2>1 DEF Silent, FromAbout, Holds
    <3> QED
      BY <1>4, <2>1, <3>1 DEF Stage, Silent
  <2> QED
    BY <2>5, <2>6, <2>7, <2>8, <2>9 DEF IsForgotten, Rests
<1>5. Moves(p)
  BY <1>1, <1>4, ReturnedRests DEF Moves
<1>6. HungUp' = HungUp
  BY <1>1, SameHungUp DEF HandleDropPeer, conn_vars, DispatcherAlive
<1> QED
  BY <1>3, <1>5, <1>6, OneMoves DEF HandleDropPeer, tendermint_vars, conn_vars, DispatcherAlive

\* The dispatcher ends.
LEMMA ClosingSeen ==
  ASSUME Before, ~DispatcherAlive', abci' = abci,
         abci # "idle" \/ CameBack # {}
  PROVE  ClubStep
<1>1. HungUp' = {}
  BY DEF HungUp
<1>2. /\ Stages' = [p \in Peer |-> "void"]
      /\ InSession' = {}
      /\ Mail' = [p \in Peer |-> {}]
  BY DEF Stages, InSession, Mail
<1>3. CameBack \subseteq Club!Back
  BY DEF CameBack, Club!Back, Stages, Before
<1>4. /\ (abci # "idle")' = (abci # "idle")
      /\ DispatcherAlive /\ DispatcherAlive' = FALSE
  BY DEF Before, DispatcherAlive
<1>5. Club!Close
  BY <1>1, <1>2, <1>3, <1>4 DEF Club!Close
<1> QED
  BY <1>5 DEF ClubStep, Club!Next

LEMMA DispatcherSeen ==
  ASSUME Before, DispatcherStep
  PROVE  ClubStep
<1> USE DEF Before, ClubInv, AgreementInv, SessionInv
<1>1. ASSUME NEW p \in Peer, NEW m \in PeerMessage, PanicOnUnknownPeer(p, m)
      PROVE  ClubStep
  <2>1. Returned(p)
    BY <1>1, PanicOverReturned
  <2>2. p \in CameBack
    BY <2>1 DEF CameBack, Stage
  <2> QED
    BY <1>1, <2>2, ClosingSeen
      DEF PanicOnUnknownPeer, DropDispatcher, DispatcherAlive, tendermint_vars
<1>2. CASE HandleExit
  <2>1. abci # "idle"
    BY <1>2, ReceivedByDispatcher DEF HandleExit, Tidy, DropDispatcher, DispatcherReceives, Holds, TypeOK
  <2> QED
    BY <1>2, <2>1, ClosingSeen DEF HandleExit, DropDispatcher, DispatcherAlive, tendermint_vars
<1> QED
  BY <1>1, <1>2, HandlePeerHandshakeSeen, HandleHandshakeCompletedSeen, DeliverToPeerSeen,
    HandleDropPeerSeen DEF DispatcherStep

-----------------------------------------------------------------------------
(* What the Tendermint thread does, seen from Membership.                  *)

\* A listed peer is a member.
LEMMA ListedAreMembers ==
  ASSUME ClubInv, DispatcherAlive, NEW p \in Peer, ~Returned(p), p \in addr_book
  PROVE  Stage(p) = "member"
<1>1. connected_peers[p] # NoConn
  BY DEF ClubInv, AgreementInv, SessionInv, SessionOrder, PeerOrder, Silent
<1> QED
  BY <1>1 DEF Stage

\* What a message to a peer that is listed does.
LEMMA SendSeen ==
  ASSUME Before, NEW p \in Peer, NEW m \in PeerMessage, SendToDispatcher(ToPeer(p, m)),
         UNCHANGED <<addr_book, abci, dispatcher_vars, conn_vars>>,
         \A r \in Peer : Holds(tendermint_queue', {PeerConnected(r)})
                           <=> Holds(tendermint_queue, {PeerConnected(r)}),
         ~Returned(p) => p \in addr_book,
         m \in {AddressBookRequest, AddressBookResponse(addr_book)}
  PROVE  ClubStep
<1> USE DEF Before, ClubInv, AgreementInv, SessionInv
<1>1. \A r \in Peer : Returned(r)' <=> Returned(r)
  BY SameReturned DEF conn_vars
<1>2. \A S : Holds(dispatcher_queue', S) <=> Holds(dispatcher_queue, S) \/ ToPeer(p, m) \in S
  BY MessageTypes, DispatcherQueueGrows
<1>3. \A r \in Peer : r # p => Undisturbed(r)
  <2>1. \A r \in Peer : \A n \in PeerMessage : r # p => ToPeer(r, n) # ToPeer(p, m)
    BY ToMessages
  <2> QED
    BY <1>1, <1>2, <2>1
      DEF Undisturbed, conn_vars, dispatcher_vars, SubDispatcher, PeerConnected
<1>4. ASSUME ~Returned(p) PROVE IsWritten(p)
  <2>1. Stage(p) = "member"
    BY <1>4, ListedAreMembers
  <2>2. Stage(p)' = Stage(p) /\ (Served(p)' <=> Served(p))
    BY <1>1, <1>4
      DEF Stage, Served, Ended, SubDispatcher, conn_vars, dispatcher_vars, PeerConnected
  <2>3. MailTo(p)' = MailTo(p) \cup {m}
    <3>1. \A n \in PeerMessage : Underway(p, n)' <=> Underway(p, n) \/ n = m
      <4>1. \A n \in PeerMessage : ToPeer(p, n) = ToPeer(p, m) <=> n = m
        BY ToMessages
      <4> QED
        BY <1>2, <4>1 DEF Underway, conn_vars, ToPeer
    <3>2. Outbound(p) = {n \in PeerMessage : Underway(p, n)}
      BY OutboundIs
    <3>3. Outbound(p)' = {n \in PeerMessage : Underway(p, n)'}
      BY OutboundBecomes
    <3> QED
      BY <1>1, <1>4, <3>1, <3>2, <3>3 DEF MailTo
  <2>4. Listed \subseteq addr_book /\ addr_book \subseteq Listed \cup CameBack
    <3>1. \A r \in Listed : r \in addr_book
      BY DEF Listed, Stage
    <3>2. \A r \in addr_book : r \in Listed \cup CameBack
      <4>1. \A r \in addr_book : r \in Peer
        BY DEF TypeOK
      <4>2. \A r \in Peer : Returned(r) => r \in CameBack
        BY DEF CameBack, Stage
      <4>3. \A r \in addr_book : ~Returned(r) => r \in Listed
        BY <4>1, ListedAreMembers DEF Listed
      <4> QED
        BY <4>1, <4>2, <4>3
    <3> QED
      BY <3>1, <3>2
  <2>5. addr_book \in SUBSET Peer
    BY DEF TypeOK
  <2> QED
    BY <2>1, <2>2, <2>3, <2>4, <2>5 DEF IsWritten
<1>5. Moves(p)
  BY <1>1, <1>4, ReturnedRests DEF Moves
<1>6. HungUp' = HungUp
  BY <1>1, SameHungUp DEF conn_vars, dispatcher_vars, DispatcherAlive
<1> QED
  BY <1>3, <1>5, <1>6, OneMoves DEF conn_vars, dispatcher_vars, DispatcherAlive

LEMMA RequestAddrBookSeen ==
  ASSUME Before, NEW p \in Peer, RequestAddrBook(p)
  PROVE  ClubStep
<1>1. p \in addr_book
  BY DEF RequestAddrBook, Before, ClubInv, Tidy
<1> QED
  BY <1>1, MessageTypes, SendSeen DEF RequestAddrBook, PeerConnected

LEMMA HandleFromPeerSeen ==
  ASSUME Before, NEW p \in Peer, HandleFromPeer(p)
  PROVE  ClubStep
<1> USE DEF Before, ClubInv, AgreementInv, SessionInv
<1>1. \A S : Holds(tendermint_queue, S) <=> FromPeer(p) \in S \/ Holds(tendermint_queue', S)
  BY ReceivedByTendermint DEF HandleFromPeer
<1>2. \A r \in Peer : PeerConnected(r) # FromPeer(p)
  BY FromMessages
<1>3. ASSUME ~Returned(p) PROVE p \in addr_book
  <2>1. Introduced(p)
    BY <1>3 DEF Agreement, BothAlive, TendermintAlive, HandleFromPeer, TendermintReceives
  <2>2. /\ tendermint_queue \in Seq(FromDispatcherMsg) /\ tendermint_queue # << >>
        /\ Head(tendermint_queue) = FromPeer(p) /\ tendermint_queue' = Tail(tendermint_queue)
    BY DEF TypeOK, HandleFromPeer, TendermintReceives
  <2>3. ~Holds(tendermint_queue', {PeerConnected(p)})
    BY <2>1, <2>2, ClosesTail DEF Introduced
  <2> QED
    BY <1>1, <1>2, <2>1, <2>3 DEF Introduced
<1>4. AddressBookResponse(addr_book) \in PeerMessage
  BY MessageTypes DEF TypeOK
<1> QED
  BY <1>1, <1>2, <1>3, <1>4, SendSeen DEF HandleFromPeer, tendermint_vars, PeerConnected

LEMMA HandlePeerConnectedSeen ==
  ASSUME Before, NEW p \in Peer, HandlePeerConnected(p)
  PROVE  ClubStep
<1> USE DEF Before, ClubInv, AgreementInv, SessionInv
<1>1. \A S : Holds(tendermint_queue, S) <=> PeerConnected(p) \in S \/ Holds(tendermint_queue', S)
  BY ReceivedByTendermint DEF HandlePeerConnected
<1>2. \A r \in Peer : Returned(r)' <=> Returned(r)
  BY SameReturned DEF HandlePeerConnected, conn_vars
<1>3. \A r \in Peer : r # p => Undisturbed(r)
  <2>1. \A r \in Peer : r # p => PeerConnected(r) # PeerConnected(p)
    BY FromMessages
  <2> QED
    BY <1>1, <1>2, <2>1
      DEF Undisturbed, HandlePeerConnected, conn_vars, dispatcher_vars, SubDispatcher, PeerConnected,
        ToPeer
<1>4. ASSUME ~Returned(p) PROVE Rests(p) \/ Enlists(p)
  <2>1. connected_peers[p] # NoConn
    <3>1. Holds(tendermint_queue, FromAbout(p))
      BY <1>1 DEF FromAbout
    <3> QED
      BY <1>4, <3>1 DEF SessionOrder, PeerOrder, Silent
  <2>2. Stage(p) \in {"joined", "member"}
    BY <1>1, <1>4, <2>1 DEF Stage
  <2>3. Stage(p)' = "member"
    BY <1>2, <1>4, <2>1 DEF Stage, HandlePeerConnected, dispatcher_vars
  <2>4. MailTo(p)' = MailTo(p)
    BY <1>2, SameMail DEF Underway, HandlePeerConnected, conn_vars, ToPeer
  <2>5. Served(p)' <=> Served(p)
    BY <1>2 DEF Served, SubDispatcher, HandlePeerConnected, conn_vars
  <2> QED
    BY <2>2, <2>3, <2>4, <2>5 DEF Rests, Enlists
<1>5. Moves(p)
  BY <1>2, <1>4, ReturnedRests DEF Moves
<1>6. HungUp' = HungUp
  BY <1>2, SameHungUp DEF HandlePeerConnected, conn_vars, dispatcher_vars, DispatcherAlive
<1> QED
  BY <1>3, <1>5, <1>6, OneMoves DEF HandlePeerConnected, conn_vars, dispatcher_vars, DispatcherAlive

LEMMA HandlePeerDisconnectedSeen ==
  ASSUME Before, NEW p \in Peer, HandlePeerDisconnected(p)
  PROVE  ClubStep
<1> USE DEF Before, ClubInv, AgreementInv, SessionInv
<1>1. \A S : Holds(tendermint_queue, S) <=> PeerDisconnected(p) \in S \/ Holds(tendermint_queue', S)
  BY ReceivedByTendermint DEF HandlePeerDisconnected
<1>2. \A r \in Peer : Returned(r)' <=> Returned(r)
  BY SameReturned DEF HandlePeerDisconnected, conn_vars
<1>3. \A r \in Peer : \A m \in PeerMessage :
        Holds(dispatcher_queue', {ToPeer(r, m)}) <=> Holds(dispatcher_queue, {ToPeer(r, m)})
  <2>1. \A r \in Peer : \A m \in PeerMessage : ToPeer(r, m) # DropPeer(p)
    BY ToMessages
  <2> QED
    BY <2>1, MessageTypes, DispatcherQueueGrows DEF HandlePeerDisconnected
<1>4. \A r \in Peer : PeerConnected(r) # PeerDisconnected(p)
  BY FromMessages
<1>5. \A r \in Peer : r # p => Undisturbed(r)
  BY <1>1, <1>2, <1>3, <1>4
    DEF Undisturbed, HandlePeerDisconnected, conn_vars, dispatcher_vars, SubDispatcher, PeerConnected
<1>6. ASSUME ~Returned(p) PROVE Leaves(p)
  <2>1. Introduced(p) /\ PeerOrder(p)
    BY <1>6 DEF Agreement, BothAlive, TendermintAlive, HandlePeerDisconnected, TendermintReceives,
      SessionOrder
  <2>2. Holds(tendermint_queue, {PeerDisconnected(p)}) /\ Holds(tendermint_queue, FromAbout(p))
    BY <1>1 DEF FromAbout
  <2>3. ~Holds(tendermint_queue', FromAbout(p))
    <3>1. /\ tendermint_queue \in Seq(FromDispatcherMsg) /\ tendermint_queue # << >>
          /\ Head(tendermint_queue) = PeerDisconnected(p)
          /\ tendermint_queue' = Tail(tendermint_queue)
      BY DEF TypeOK, HandlePeerDisconnected, TendermintReceives
    <3> QED
      BY <2>1, <3>1, ClosesTail DEF PeerOrder
  <2>4. ~Holds(tendermint_queue', {PeerConnected(p)})
    BY <2>3 DEF Holds, FromAbout
  <2>5. connected_peers[p] # NoConn /\ p \in addr_book
    BY <1>1, <1>4, <2>1, <2>2, <2>4 DEF PeerOrder, Silent, Introduced
  <2>6. Stage(p) = "member"
    BY <1>6, <2>5 DEF Stage
  <2>7. Stage(p)' = "leaving"
    BY <1>2, <1>6, <2>4, <2>5 DEF Stage, HandlePeerDisconnected, dispatcher_vars, PeerConnected
  <2>8. ~Served(p) /\ ~Served(p)'
    <3>1. PICK d \in Conn : PeerOf[d] = p /\ task[d] = "done"
      BY <2>1, <2>2 DEF PeerOrder, Ended
    <3>2. \A c \in Conn : PeerOf[c] = p /\ c # d => task[c] = "none"
      BY <1>6, <3>1, OnlyConnection
    <3> QED
      BY <3>1, <3>2 DEF Served, SubDispatcher, HandlePeerDisconnected, conn_vars
  <2>9. MailTo(p)' = MailTo(p)
    BY <1>2, <1>3, SameMail DEF Underway, HandlePeerDisconnected, conn_vars, ToPeer
  <2> QED
    BY <2>6, <2>7, <2>8, <2>9 DEF Leaves
<1>7. Moves(p)
  BY <1>2, <1>6, ReturnedRests DEF Moves
<1>8. HungUp' = HungUp
  BY <1>2, SameHungUp DEF HandlePeerDisconnected, conn_vars, dispatcher_vars, DispatcherAlive
<1> QED
  BY <1>5, <1>7, <1>8, OneMoves
    DEF HandlePeerDisconnected, conn_vars, dispatcher_vars, DispatcherAlive

LEMMA TendermintSeen ==
  ASSUME Before, TendermintStep \/ AbciReplies
  PROVE  ClubStep
<1> USE DEF Before, ClubInv, AgreementInv, SessionInv
<1>1. CASE Tick \/ HandleExitRequest
  <2>1. \A r \in Peer : Returned(r)' <=> Returned(r)
    BY <1>1, SameReturned DEF Tick, HandleExitRequest, conn_vars
  <2>2. \A r \in Peer : \A m \in PeerMessage :
          Holds(dispatcher_queue', {ToPeer(r, m)}) <=> Holds(dispatcher_queue, {ToPeer(r, m)})
    <3>1. \A r \in Peer : \A m \in PeerMessage : ToPeer(r, m) # Exit
      BY ToMessages
    <3>2. CASE Tick
      BY <3>2 DEF Tick, queue_vars, ToPeer
    <3>3. CASE HandleExitRequest
      BY <3>1, <3>3, MessageTypes, DispatcherQueueGrows DEF HandleExitRequest
    <3> QED
      BY <1>1, <3>2, <3>3
  <2>3. \A r \in Peer : Undisturbed(r)
    BY <1>1, <2>1, <2>2
      DEF Undisturbed, Tick, HandleExitRequest, conn_vars, dispatcher_vars, queue_vars,
        SubDispatcher, PeerConnected
  <2>4. HungUp' = HungUp
    BY <1>1, <2>1, SameHungUp
      DEF Tick, HandleExitRequest, conn_vars, dispatcher_vars, DispatcherAlive
  <2> QED
    BY <1>1, <2>3, <2>4, NoneMoves
      DEF ClubStep, Tick, HandleExitRequest, conn_vars, dispatcher_vars, DispatcherAlive
<1>2. ~DispatcherGone /\ ~ConfirmExit /\ ~ExitUnanswered /\ ~AbciReplies
  BY DEF DispatcherGone, ConfirmExit, ExitUnanswered, AbciReplies, Tidy
<1> QED
  BY <1>1, <1>2, RequestAddrBookSeen, HandleFromPeerSeen, HandlePeerConnectedSeen,
    HandlePeerDisconnectedSeen DEF TendermintStep

-----------------------------------------------------------------------------
(* What the tasks of a connection do, seen from Membership.                *)

\* Of the other peers they know nothing.
LEMMA OthersUndisturbed ==
  ASSUME Before, NEW c \in Conn, ConnStep(c)
  PROVE  /\ \A r \in Peer : r # PeerOf[c] => Undisturbed(r)
         /\ \A r \in Peer : \A m \in PeerMessage :
              Holds(dispatcher_queue', {ToPeer(r, m)}) <=> Holds(dispatcher_queue, {ToPeer(r, m)})
         /\ \A r \in Peer : Holds(tendermint_queue', {PeerConnected(r)})
                              <=> Holds(tendermint_queue, {PeerConnected(r)})
         /\ UNCHANGED <<connected_peers, addr_book, abci, dispatcher, closed>>
         /\ \A d \in Conn : d # c => task'[d] = task[d] /\ peer_queue'[d] = peer_queue[d]
<1> USE DEF Before, ClubInv, AgreementInv, SessionInv
<1>1. /\ UNCHANGED <<connected_peers, addr_book, abci, dispatcher, closed>>
      /\ \A d \in Conn : d # c => task'[d] = task[d] /\ peer_queue'[d] = peer_queue[d]
      /\ \/ dispatcher_queue' = dispatcher_queue
         \/ SendToDispatcher(PeerHandshake(c))
         \/ SendToDispatcher(HandshakeCompleted(c))
      /\ \/ tendermint_queue' = tendermint_queue
         \/ SendToTendermint(FromPeer(PeerOf[c]))
         \/ SendToTendermint(PeerDisconnected(PeerOf[c]))
  BY DEF ConnStep, Accept, HandshakeStep, Greet, AwaitHello, HandshakeLost, SelectStep,
    TakeFromQueue, SenderDropped, ReadFrame, PeerGone, WriteStep, WriteFrame, WriteError,
    EndTask, tendermint_vars, dispatcher_vars, queue_vars, TypeOK
<1>2. PeerOf[c] \in Peer
  BY ConnAssumption
<1>3. \A r \in Peer : \A m \in PeerMessage :
        Holds(dispatcher_queue', {ToPeer(r, m)}) <=> Holds(dispatcher_queue, {ToPeer(r, m)})
  <2>1. \A r \in Peer : \A m \in PeerMessage :
          ToPeer(r, m) # PeerHandshake(c) /\ ToPeer(r, m) # HandshakeCompleted(c)
    BY ToMessages
  <2>2. dispatcher_queue' = dispatcher_queue \/
          \E n \in {PeerHandshake(c), HandshakeCompleted(c)} :
            n \in DispatcherMsg /\ SendToDispatcher(n)
    BY <1>1, MessageTypes
  <2> QED
    BY <2>1, <2>2, DispatcherQueueGrows DEF ToPeer
<1>4. \A r \in Peer : Holds(tendermint_queue', {PeerConnected(r)})
                        <=> Holds(tendermint_queue, {PeerConnected(r)})
  <2>1. \A r \in Peer : /\ PeerConnected(r) # FromPeer(PeerOf[c])
                        /\ PeerConnected(r) # PeerDisconnected(PeerOf[c])
    BY <1>2, FromMessages
  <2>2. tendermint_queue' = tendermint_queue \/
          \E n \in {FromPeer(PeerOf[c]), PeerDisconnected(PeerOf[c])} :
            n \in FromDispatcherMsg /\ SendToTendermint(n)
    BY <1>1, <1>2, MessageTypes
  <2> QED
    BY <2>1, <2>2, SentToTendermint, TendermintQueueGrows DEF PeerConnected
<1>5. ASSUME NEW r \in Peer, r # PeerOf[c] PROVE Undisturbed(r)
  <2>1. \A d \in Conn : PeerOf[d] = r => task'[d] = task[d] /\ peer_queue'[d] = peer_queue[d]
    BY <1>1, <1>5
  <2>2. Returned(r)' <=> Returned(r)
    BY <2>1 DEF Returned
  <2> QED
    BY <1>1, <1>3, <1>4, <2>1, <2>2 DEF Undisturbed, SubDispatcher, PeerConnected
<1> QED
  BY <1>1, <1>3, <1>4, <1>5

\* A stream without anything left to decode was given up.
LEMMA UnreadableIsGivenUp ==
  ASSUME TypeOK, NEW c \in Conn, Unreadable(c)
  PROVE  GivenUp(c)
<1>1. inbox[c] \in Seq(Frame)
  BY DEF TypeOK
<1>2. CASE inbox[c] # << >> /\ Head(inbox[c]) = "Malformed"
  <2>1. Len(inbox[c]) >= 1 /\ inbox[c][1] = "Malformed" /\ Len(inbox[c]) \in Nat
    BY <1>1, <1>2
  <2> QED
    BY <2>1 DEF GivenUp, Contents
<1> QED
  BY <1>2 DEF Unreadable, GivenUp

\* To read what decodes does not change that.
LEMMA StillGivenUp ==
  ASSUME TypeOK, NEW c \in Conn, closed' = closed,
         \/ inbox'[c] = inbox[c]
         \/ inbox[c] # << >> /\ ~Unreadable(c) /\ inbox'[c] = Tail(inbox[c])
  PROVE  GivenUp(c)' <=> GivenUp(c)
<1>1. CASE inbox'[c] = inbox[c]
  BY <1>1 DEF GivenUp, Contents
<1>2. CASE inbox[c] # << >> /\ ~Unreadable(c) /\ inbox'[c] = Tail(inbox[c])
  <2>1. inbox[c] \in Seq(Frame) /\ inbox[c][1] # "Malformed"
    BY <1>2 DEF TypeOK, Unreadable
  <2>2. /\ Len(inbox'[c]) = Len(inbox[c]) - 1 /\ Len(inbox[c]) \in Nat
        /\ \A i \in 1 .. Len(inbox'[c]) : inbox'[c][i] = inbox[c][i + 1]
    BY <1>2, <2>1
  <2>3. \A i \in 1 .. Len(inbox[c]) :
          inbox[c][i] = "Malformed" => i - 1 \in 1 .. Len(inbox'[c]) /\ inbox'[c][i - 1] = inbox[c][i]
    BY <2>1, <2>2
  <2>4. \A i \in 1 .. Len(inbox'[c]) : i + 1 \in 1 .. Len(inbox[c])
    BY <2>2
  <2>5. "Malformed" \in Contents(inbox[c])' <=> "Malformed" \in Contents(inbox[c])
    BY <2>2, <2>3, <2>4 DEF Contents
  <2> QED
    BY <2>5 DEF GivenUp
<1> QED
  BY <1>1, <1>2

\* The tasks read only what decodes, and end only connections that the peer gave
\* up or replaced by another.
LEMMA TasksKeepHungUp ==
  ASSUME Before, NEW c \in Conn, ConnStep(c)
  PROVE  HungUp' = HungUp
<1> USE DEF Before, ClubInv, AgreementInv, SessionInv
<1> DEFINE p == PeerOf[c]
<1>1. /\ closed' = closed /\ dispatcher' = dispatcher
      /\ \A d \in Conn : d # c => task'[d] = task[d] /\ inbox'[d] = inbox[d]
  BY DEF ConnStep, Accept, HandshakeStep, Greet, AwaitHello, HandshakeLost, SelectStep,
    TakeFromQueue, SenderDropped, ReadFrame, PeerGone, WriteStep, WriteFrame, WriteError,
    EndTask, dispatcher_vars, TypeOK
<1>2. DispatcherAlive' /\ p \in Peer
  BY <1>1, ConnAssumption DEF DispatcherAlive
<1>3. \A r \in Peer : r # p => (r \in HungUp' <=> r \in HungUp)
  BY <1>1, <1>2 DEF HungUp, Returned, Ended, GivenUp, Contents
<1>4. p \in HungUp' <=> p \in HungUp
  <2>1. StaysOpened
    BY <1>1 DEF ConnStep, Accept, HandshakeStep, Greet, AwaitHello, HandshakeLost, SelectStep,
      TakeFromQueue, SenderDropped, ReadFrame, PeerGone, WriteStep, WriteFrame, WriteError,
      EndTask, StaysOpened, TypeOK
  <2>2. CASE Returned(p)
    BY <1>2, <2>1, <2>2, ReturnedStays DEF HungUp
  <2>3. CASE Accept(c) /\ MayConnect(c)
    <3>1. /\ task[c] = "none" /\ task' = [task EXCEPT ![c] = "queued"] /\ inbox' = inbox
      BY <2>3 DEF Accept
    <3>2. Ended(p)' <=> Ended(p)
      BY <3>1 DEF Ended, TypeOK
    <3>3. \A d \in Conn : GivenUp(d)' <=> GivenUp(d)
      BY <1>1, <3>1 DEF GivenUp, Contents
    <3>4. ASSUME Returned(p)' PROVE p \in HungUp
      <4>1. PICK d \in Conn : d # c /\ PeerOf[d] = p /\ task'[d] # "none"
        BY <3>4 DEF Returned
      <4>2. task[d] = "done" \/ closed[d]
        BY <1>1, <2>3, <4>1 DEF MayConnect
      <4> QED
        BY <1>2, <4>1, <4>2 DEF HungUp, Ended, GivenUp
    <3> QED
      BY <1>2, <3>2, <3>3, <3>4, <2>1, ReturnedStays DEF HungUp
  <2>4. CASE EndTask(c) /\ GivenUp(c)
    BY <1>2, <2>4 DEF EndTask, HungUp, Ended, TypeOK
  <2>5. ASSUME task[c] # "none", task'[c] \notin {"none", "done"}, task[c] # "done",
               \/ inbox'[c] = inbox[c]
               \/ inbox[c] # << >> /\ ~Unreadable(c) /\ inbox'[c] = Tail(inbox[c])
        PROVE  p \in HungUp' <=> p \in HungUp
    <3>1. \A d \in Conn : task'[d] = "none" <=> task[d] = "none"
      BY <1>1, <2>5
    <3>2. Returned(p)' <=> Returned(p)
      BY <1>2, <3>1, SameReturned
    <3>3. Ended(p)' <=> Ended(p)
      BY <1>1, <2>5 DEF Ended
    <3>4. \A d \in Conn : d # c => (GivenUp(d)' <=> GivenUp(d))
      BY <1>1 DEF GivenUp, Contents
    <3>5. GivenUp(c)' <=> GivenUp(c)
      BY <1>1, <2>5, StillGivenUp
    <3>6. \A d \in Conn : GivenUp(d)' <=> GivenUp(d)
      BY <3>4, <3>5
    <3> QED
      BY <1>2, <3>2, <3>3, <3>6 DEF HungUp
  <2>6. CASE HandshakeStep(c)
    <3>1. CASE Greet(c)
      BY <2>4, <2>5, <3>1 DEF Greet, WriteFails, GivenUp, TypeOK
    <3>2. CASE AwaitHello(c)
      BY <2>5, <3>2 DEF AwaitHello, TypeOK
    <3>3. CASE HandshakeLost(c)
      BY <2>4, <3>3, UnreadableIsGivenUp DEF HandshakeLost
    <3> QED
      BY <2>6, <3>1, <3>2, <3>3 DEF HandshakeStep
  <2>7. CASE SelectStep(c)
    <3>1. CASE TakeFromQueue(c) \/ ReadFrame(c)
      BY <2>5, <3>1 DEF TakeFromQueue, ReadFrame, TypeOK
    <3>2. CASE SenderDropped(c)
      <4>1. c \in SubDispatcher /\ connected_peers[p] # c
        BY <3>2 DEF SenderDropped, SubDispatcher
      <4> QED
        BY <2>2, <4>1 DEF Agreement, Owned
    <3>3. CASE PeerGone(c)
      BY <2>4, <3>3, UnreadableIsGivenUp DEF PeerGone
    <3> QED
      BY <2>7, <3>1, <3>2, <3>3 DEF SelectStep
  <2>8. CASE WriteStep(c)
    <3>1. CASE WriteFrame(c)
      BY <2>5, <3>1 DEF WriteFrame, TypeOK
    <3>2. CASE WriteError(c)
      BY <2>4, <3>2 DEF WriteError, WriteFails, GivenUp
    <3> QED
      BY <2>8, <3>1, <3>2 DEF WriteStep
  <2> QED
    BY <2>3, <2>6, <2>7, <2>8 DEF ConnStep
<1> QED
  BY <1>3, <1>4 DEF HungUp

\* Steps within one stage: nobody notices.
LEMMA QuietConnSeen ==
  ASSUME Before, NEW c \in Conn, ConnStep(c),
         \A r \in Peer : Returned(r)' <=> Returned(r),
         task'[c] = "done" <=> task[c] = "done",
         c \in SubDispatcher' <=> c \in SubDispatcher,
         peer_queue'[c] = peer_queue[c]
  PROVE  ClubStep
<1> USE DEF Before, ClubInv, AgreementInv, SessionInv
<1>1. \A d \in Conn : /\ task'[d] = "done" <=> task[d] = "done"
                      /\ d \in SubDispatcher' <=> d \in SubDispatcher
                      /\ peer_queue'[d] = peer_queue[d]
  BY OthersUndisturbed DEF SubDispatcher
<1>2. \A r \in Peer : Undisturbed(r)
  <2> SUFFICES ASSUME NEW r \in Peer PROVE Undisturbed(r)
    OBVIOUS
  <2>1. /\ connected_peers'[r] = connected_peers[r] /\ addr_book' = addr_book
        /\ Holds(tendermint_queue', {PeerConnected(r)}) <=> Holds(tendermint_queue, {PeerConnected(r)})
        /\ \A m \in PeerMessage :
             Holds(dispatcher_queue', {ToPeer(r, m)}) <=> Holds(dispatcher_queue, {ToPeer(r, m)})
    BY OthersUndisturbed
  <2> QED
    BY <1>1, <2>1 DEF Undisturbed
<1> QED
  BY <1>2, OthersUndisturbed, TasksKeepHungUp, NoneMoves DEF ClubStep, DispatcherAlive

\* A connection is accepted.
LEMMA AcceptSeen ==
  ASSUME Before, NEW c \in Conn, ConnStep(c), Accept(c), MayConnect(c)
  PROVE  ClubStep
<1> USE DEF Before, ClubInv, AgreementInv, SessionInv
<1> DEFINE p == PeerOf[c]
<1>1. p \in Peer /\ task[c] = "none" /\ task' = [task EXCEPT ![c] = "queued"]
      /\ peer_queue' = peer_queue
  BY ConnAssumption DEF Accept
<1>2. StaysOpened
  BY <1>1 DEF StaysOpened, TypeOK
<1>3. CASE Returned(p)' <=> Returned(p)
  <2>1. \A r \in Peer : r # p => (Returned(r)' <=> Returned(r))
    BY OthersUndisturbed DEF Undisturbed
  <2>2. \A r \in Peer : Returned(r)' <=> Returned(r)
    BY <1>3, <2>1
  <2> QED
    BY <1>1, <2>2, QuietConnSeen DEF SubDispatcher, TypeOK
<1>4. CASE ~(Returned(p)' <=> Returned(p))
  <2>1. Returned(p)' /\ ~Returned(p)
    BY <1>1, <1>2, <1>4, ReturnedStays
  <2>2. p \in HungUp
    BY <1>1, <2>1, TasksKeepHungUp DEF HungUp, DispatcherAlive, Accept, dispatcher_vars
  <2>3. Returns(p)
    BY <2>1, <2>2 DEF Returns, Stage, Served, MailTo
  <2>4. Moves(p)
    BY <2>3 DEF Moves
  <2> QED
    BY <1>1, <2>4, OthersUndisturbed, TasksKeepHungUp, OneMoves DEF DispatcherAlive
<1> QED
  BY <1>3, <1>4

\* A handshake fails.
LEMMA HandshakeEndsSeen ==
  ASSUME Before, NEW c \in Conn, ConnStep(c),
         task[c] \in {"greeting", "awaiting"}, GivenUp(c), EndTask(c)
  PROVE  ClubStep
<1> USE DEF Before, ClubInv, AgreementInv, SessionInv
<1> DEFINE p == PeerOf[c]
<1>1. p \in Peer /\ task'[c] = "done" /\ peer_queue'[c] = << >>
  BY ConnAssumption DEF EndTask, TypeOK
<1>2. \A r \in Peer : Returned(r)' <=> Returned(r)
  BY SameReturned DEF EndTask, TypeOK
<1>3. ASSUME ~Returned(p) PROVE Misses(p)
  <2>1. /\ connected_peers[p] = NoConn /\ Stage(p) = "away"
        /\ \A d \in Conn : PeerOf[d] = p => d \notin SubDispatcher
    BY <1>3, Unknown
  <2>2. Stage(p)' = "gone"
    BY <1>1, <1>2, <1>3, <2>1, OthersUndisturbed DEF Stage, Ended
  <2>3. ~Served(p) /\ ~Served(p)'
    BY <1>1, <2>1, OthersUndisturbed DEF Served, SubDispatcher
  <2>4. peer_queue'[c] = peer_queue[c]
    BY <1>1, <2>1 DEF Tidy
  <2>5. MailTo(p)' = MailTo(p)
    <3>1. \A d \in Conn : peer_queue'[d] = peer_queue[d]
      BY <2>4, OthersUndisturbed
    <3>2. \A m \in PeerMessage : Underway(p, m)' <=> Underway(p, m)
      BY <1>1, <3>1, OthersUndisturbed DEF Underway, ToPeer
    <3> QED
      BY <1>1, <1>2, <3>2, SameMail
  <2>6. p \in HungUp
    BY <1>1 DEF HungUp
  <2> QED
    BY <2>1, <2>2, <2>3, <2>5, <2>6 DEF Misses
<1>4. Moves(p)
  BY <1>1, <1>2, <1>3, ReturnedRests DEF Moves
<1> QED
  BY <1>1, <1>4, OthersUndisturbed, TasksKeepHungUp, OneMoves DEF DispatcherAlive

\* A message leaves the queue of a per-peer task.
LEMMA TakeFromQueueSeen ==
  ASSUME Before, NEW c \in Conn, ConnStep(c), TakeFromQueue(c)
  PROVE  ClubStep
<1> USE DEF Before, ClubInv, AgreementInv, SessionInv
<1> DEFINE p == PeerOf[c]
<1>1. /\ p \in Peer /\ task[c] = "select" /\ task'[c] = "writing"
      /\ peer_queue[c] \in Seq(PeerMessage) /\ peer_queue[c] # << >>
      /\ peer_queue'[c] = Tail(peer_queue[c])
  BY ConnAssumption DEF TakeFromQueue, TypeOK
<1>2. \A r \in Peer : Returned(r)' <=> Returned(r)
  BY SameReturned DEF TakeFromQueue, TypeOK
<1>3. ASSUME ~Returned(p) PROVE IsDelivered(p)
  <2>1. \A d \in Conn : /\ task'[d] = "done" <=> task[d] = "done"
                        /\ d \in SubDispatcher' <=> d \in SubDispatcher
    BY <1>1, OthersUndisturbed DEF SubDispatcher
  <2>2. Stage(p)' = Stage(p) /\ (Served(p)' <=> Served(p))
    BY <1>1, <1>2, <2>1, OthersUndisturbed DEF Stage, Ended, Served, SubDispatcher, PeerConnected
  <2>3. MailTo(p) # {}
    <3>1. Head(peer_queue[c]) \in PeerMessage /\ Holds(peer_queue[c], {Head(peer_queue[c])})
      BY <1>1 DEF Holds
    <3> QED
      BY <1>1, <1>3, <3>1, OutboundIs DEF MailTo, Underway
  <2>4. \A m \in PeerMessage : Underway(p, m)' => Underway(p, m)
    <3>1. \A m : Holds(peer_queue'[c], {m}) => Holds(peer_queue[c], {m})
      BY <1>1, HoldsTail
    <3> QED
      BY <1>1, <3>1, OthersUndisturbed DEF Underway, ToPeer
  <2> QED
    BY <1>1, <1>2, <2>2, <2>3, <2>4, NothingNew DEF IsDelivered
<1>4. Moves(p)
  BY <1>1, <1>2, <1>3, ReturnedRests DEF Moves
<1> QED
  BY <1>1, <1>4, OthersUndisturbed, TasksKeepHungUp, OneMoves DEF DispatcherAlive

\* A per-peer task ends.
LEMMA SessionEndsSeen ==
  ASSUME Before, NEW c \in Conn, ConnStep(c), c \in SubDispatcher, EndTask(c),
         GivenUp(c) \/ connected_peers[PeerOf[c]] # c
  PROVE  ClubStep
<1> USE DEF Before, ClubInv, AgreementInv, SessionInv
<1> DEFINE p == PeerOf[c]
<1>1. p \in Peer /\ task'[c] = "done" /\ peer_queue'[c] = << >>
  BY ConnAssumption DEF EndTask, TypeOK
<1>2. \A r \in Peer : Returned(r)' <=> Returned(r)
  BY SameReturned DEF EndTask, TypeOK, SubDispatcher
<1>3. ASSUME ~Returned(p) PROVE Ends(p)
  <2>1. connected_peers[p] = c /\ c # NoConn
    BY <1>3, ConnAssumption DEF Agreement, Owned
  <2>2. Stage(p)' = Stage(p)
    BY <1>1, <1>2, <1>3, <2>1, OthersUndisturbed DEF Stage, PeerConnected
  <2>3. Served(p)
    BY <1>3 DEF Served
  <2>4. ~Served(p)'
    <3>1. \A d \in Conn : PeerOf[d] = p /\ d # c => task[d] = "none"
      BY <1>1, <1>3, OnlyConnection DEF SubDispatcher
    <3> QED
      BY <1>1, <3>1, OthersUndisturbed DEF Served, SubDispatcher
  <2>5. p \in HungUp
    BY <1>1, <2>1 DEF HungUp
  <2>6. \A m \in PeerMessage : Underway(p, m)' => Underway(p, m)
    <3>1. \A d \in Conn : \A m : Holds(peer_queue'[d], {m}) => Holds(peer_queue[d], {m})
      BY <1>1, EmptyQueue, OthersUndisturbed
    <3> QED
      BY <1>1, <3>1, OthersUndisturbed DEF Underway, ToPeer
  <2> QED
    BY <1>1, <1>2, <2>2, <2>3, <2>4, <2>5, <2>6, NothingNew DEF Ends
<1>4. Moves(p)
  BY <1>1, <1>2, <1>3, ReturnedRests DEF Moves
<1> QED
  BY <1>1, <1>4, OthersUndisturbed, TasksKeepHungUp, OneMoves DEF DispatcherAlive

LEMMA ConnSeen ==
  ASSUME Before, NEW c \in Conn, ConnStep(c)
  PROVE  ClubStep
<1> USE DEF Before, ClubInv, AgreementInv, SessionInv
<1>1. ASSUME task[c] \in {"greeting", "awaiting", "select", "writing"},
             \/ task'[c] = task[c]
             \/ task[c] = "greeting" /\ task'[c] = "awaiting"
             \/ task[c] = "awaiting" /\ task'[c] = "completed"
             \/ task[c] = "writing" /\ task'[c] = "select",
             peer_queue'[c] = peer_queue[c]
      PROVE  ClubStep
  <2>1. \A d \in Conn : task'[d] = "none" <=> task[d] = "none"
    BY <1>1, OthersUndisturbed
  <2> QED
    BY <1>1, <2>1, SameReturned, QuietConnSeen DEF SubDispatcher
<1>2. CASE Greet(c)
  <2>1. CASE EndTask(c) /\ WriteFails(c)
    BY <1>2, <2>1, HandshakeEndsSeen DEF Greet, WriteFails, GivenUp
  <2>2. CASE task'[c] = "awaiting" /\ peer_queue' = peer_queue
    BY <1>1, <1>2, <2>2 DEF Greet
  <2> QED
    BY <1>2, <2>1, <2>2 DEF Greet, TypeOK
<1>3. CASE AwaitHello(c)
  <2>1. task[c] = "awaiting" /\ task'[c] \in {"awaiting", "completed"} /\ peer_queue' = peer_queue
    BY <1>3 DEF AwaitHello, TypeOK
  <2> QED
    BY <1>1, <2>1
<1>4. CASE HandshakeLost(c)
  BY <1>4, HandshakeEndsSeen, UnreadableIsGivenUp DEF HandshakeLost
<1>5. CASE SenderDropped(c) \/ PeerGone(c) \/ WriteError(c)
  BY <1>5, SessionEndsSeen, UnreadableIsGivenUp
    DEF SenderDropped, PeerGone, WriteError, WriteFails, SubDispatcher, GivenUp
<1>6. CASE ReadFrame(c) \/ WriteFrame(c)
  <2>1. /\ task[c] \in {"select", "writing"} /\ peer_queue' = peer_queue
        /\ task'[c] = task[c] \/ (task[c] = "writing" /\ task'[c] = "select")
    BY <1>6 DEF ReadFrame, WriteFrame, TypeOK
  <2> QED
    BY <1>1, <2>1
<1> QED
  BY <1>2, <1>3, <1>4, <1>5, <1>6, AcceptSeen, TakeFromQueueSeen
    DEF ConnStep, HandshakeStep, SelectStep, WriteStep

-----------------------------------------------------------------------------
(* What is not the node's doing, and what comes after the dispatcher.      *)

\* The node does nothing, for its peers or in their stead.
Idles ==
  /\ UNCHANGED <<Stages, InSession, Mail>>
  /\ DispatcherAlive' <=> DispatcherAlive

LEMMA OutsideSeen ==
  ASSUME TypeOK, Idles, RequestExit \/ \E c \in Conn : PeerStep(c)
  PROVE  ClubStep
<1>1. DispatcherAlive' = DispatcherAlive
  BY DEF Idles
<1>2. CASE RequestExit
  <2>1. HungUp' = HungUp
    BY <1>1, <1>2, SameHungUp DEF RequestExit, conn_vars, Returned
  <2>2. ~(abci # "idle") /\ (abci # "idle")' = TRUE
    BY <1>2 DEF RequestExit
  <2>3. Club!AskToClose
    BY <1>1, <2>1, <2>2 DEF Idles, Club!AskToClose
  <2> QED
    BY <2>3 DEF ClubStep, Club!Next
<1>3. ASSUME NEW c \in Conn, PeerStep(c) PROVE ClubStep
  <2>1. (abci # "idle")' = (abci # "idle")
    BY <1>3 DEF PeerStep, PeerSends, PeerReads, PeerCloses, tendermint_vars
  <2>2. HungUp' = HungUp \/ HungUp' = HungUp \cup {PeerOf[c]}
    <3>1. task' = task /\ \A d \in Conn : d # c => closed'[d] = closed[d] /\ inbox'[d] = inbox[d]
      BY <1>3 DEF PeerStep, PeerSends, PeerReads, PeerCloses, TypeOK
    <3>2. GivenUp(c) => GivenUp(c)'
      <4>1. CASE closed' = closed /\ inbox' = inbox
        BY <4>1 DEF GivenUp, Contents
      <4>2. ASSUME NEW frame, inbox' = [inbox EXCEPT ![c] = Append(@, frame)], closed' = closed
            PROVE  GivenUp(c) => GivenUp(c)'
        <5>1. inbox[c] \in Seq(Frame) /\ inbox'[c] = Append(inbox[c], frame)
          BY <4>2 DEF TypeOK
        <5>2. \A i \in 1 .. Len(inbox[c]) :
                i \in 1 .. Len(inbox'[c]) /\ inbox'[c][i] = inbox[c][i]
          BY <5>1
        <5> QED
          BY <4>2, <5>2 DEF GivenUp, Contents
      <4>3. CASE PeerCloses(c)
        BY <4>3 DEF PeerCloses, GivenUp, TypeOK
      <4> QED
        BY <1>3, <4>1, <4>2, <4>3 DEF PeerStep, PeerSends, PeerReads
    <3>3. \A r \in Peer : (Returned(r)' <=> Returned(r)) /\ (Ended(r)' <=> Ended(r))
      BY <3>1 DEF Returned, Ended
    <3>4. \A d \in Conn : d # c => (GivenUp(d)' <=> GivenUp(d))
      BY <3>1 DEF GivenUp, Contents
    <3>5. PeerOf[c] \in Peer
      BY ConnAssumption
    <3>6. \A r \in Peer :
            (r \in HungUp' <=> r \in HungUp) \/ (r = PeerOf[c] /\ r \in HungUp')
      BY <1>1, <3>2, <3>3, <3>4 DEF HungUp
    <3> QED
      BY <3>5, <3>6 DEF HungUp
  <2>3. CASE HungUp' = HungUp
    BY <1>1, <2>1, <2>3 DEF Idles, ClubStep, Club!vars
  <2>4. CASE HungUp' # HungUp
    <3>1. PeerOf[c] \in Peer /\ PeerOf[c] \notin HungUp /\ DispatcherAlive
      BY <1>1, <2>2, <2>4, ConnAssumption DEF HungUp
    <3>2. Club!HangUp(PeerOf[c])
      BY <1>1, <2>1, <2>2, <2>4, <3>1 DEF Idles, Club!HangUp
    <3> QED
      BY <3>1, <3>2 DEF ClubStep, Club!Next
  <2> QED
    BY <2>3, <2>4
<1> QED
  BY <1>2, <1>3

\* The peers and the ABCI layer do not touch what the node knows.
LEMMA OutsideIdles ==
  ASSUME ClubInv, TypeOK', RequestExit \/ \E c \in Conn : PeerStep(c)
  PROVE  Idles
<1>1. UNCHANGED <<queue_vars, addr_book, dispatcher_vars, task, peer_queue>>
  BY DEF RequestExit, PeerStep, PeerSends, PeerReads, PeerCloses, tendermint_vars, conn_vars
<1>2. \A r \in Peer : Undisturbed(r)
  BY <1>1
    DEF Undisturbed, Returned, SubDispatcher, queue_vars, dispatcher_vars, ToPeer, PeerConnected
<1>3. \A r \in Peer : Rests(r)
  BY <1>2, UndisturbedRests DEF ClubInv, AgreementInv, SessionInv
<1>4. DispatcherAlive' <=> DispatcherAlive
  BY <1>1 DEF DispatcherAlive, dispatcher_vars
<1> QED
  BY <1>3, <1>4 DEF Idles, Stages, InSession, Mail, Rests

\* Once the dispatcher has ended the node promises nothing.
LEMMA AfterTheEnd ==
  ASSUME ClubInv, ~DispatcherAlive, [Next]_vars
  PROVE  ClubStep
<1>1. dispatcher' = dispatcher
  BY DEF Next, vars, DispatcherStep, HandlePeerHandshake, HandleHandshakeCompleted, DeliverToPeer,
    PanicOnUnknownPeer, HandleDropPeer, HandleExit, DispatcherReceives,
    TendermintStep, Tick, RequestAddrBook, HandleFromPeer, HandlePeerConnected,
    HandlePeerDisconnected, DispatcherGone, HandleExitRequest, ConfirmExit, ExitUnanswered,
    AbciReplies, RequestExit, ConnStep, Accept, HandshakeStep, Greet, AwaitHello, HandshakeLost,
    SelectStep, TakeFromQueue, SenderDropped, ReadFrame, PeerGone, WriteStep, WriteFrame, WriteError,
    PeerStep, PeerSends, PeerReads, PeerCloses, dispatcher_vars
<1>2. Idles
  BY <1>1 DEF Idles, Stages, InSession, Mail, DispatcherAlive
<1>3. CASE RequestExit \/ \E c \in Conn : PeerStep(c)
  BY <1>2, <1>3, OutsideSeen DEF ClubInv, AgreementInv, SessionInv
<1>4. ASSUME (abci' = "idle") <=> (abci = "idle") PROVE ClubStep
  <2>1. HungUp' = HungUp /\ (abci # "idle")' = (abci # "idle") /\ DispatcherAlive' = DispatcherAlive
    BY <1>1, <1>4 DEF HungUp, DispatcherAlive
  <2> QED
    BY <1>2, <2>1 DEF Idles, ClubStep, Club!vars
<1>5. CASE TendermintStep \/ AbciReplies
  <2>1. abci' = abci \/ (tendermint = "stopping" /\ abci' = "confirmed")
    <3>1. CASE ConfirmExit
      BY <3>1 DEF ConfirmExit
    <3>2. CASE \E p \in Peer : RequestAddrBook(p) \/ HandleFromPeer(p) \/ HandlePeerConnected(p)
                                 \/ HandlePeerDisconnected(p)
      BY <3>2 DEF RequestAddrBook, HandleFromPeer, HandlePeerConnected, HandlePeerDisconnected,
        tendermint_vars
    <3>3. CASE Tick \/ DispatcherGone \/ HandleExitRequest \/ ExitUnanswered \/ AbciReplies
      BY <3>3 DEF Tick, DispatcherGone, HandleExitRequest, ExitUnanswered, AbciReplies
    <3> QED
      BY <1>5, <3>1, <3>2, <3>3 DEF TendermintStep
  <2>2. (abci' = "idle") <=> (abci = "idle")
    BY <2>1 DEF ClubInv, Tidy
  <2> QED
    BY <1>4, <2>2
<1>6. CASE (\E c \in Conn : ConnStep(c)) \/ UNCHANGED vars
  <2>1. abci' = abci
    BY <1>6 DEF ConnStep, Accept, HandshakeStep, Greet, AwaitHello, HandshakeLost,
      SelectStep, TakeFromQueue, SenderDropped, ReadFrame, PeerGone, WriteStep, WriteFrame, WriteError,
      tendermint_vars, conn_vars, vars
  <2> QED
    BY <1>4, <2>1
<1>7. ~DispatcherStep
  BY DEF DispatcherStep, HandlePeerHandshake, HandleHandshakeCompleted, DeliverToPeer,
    PanicOnUnknownPeer, HandleDropPeer, HandleExit, DispatcherReceives
<1> QED
  BY <1>3, <1>5, <1>6, <1>7 DEF Next

LEMMA EveryStepSeen ==
  ASSUME ClubInv, ClubInv', [Next]_vars
  PROVE  ClubStep
<1>1. CASE ~DispatcherAlive
  BY <1>1, AfterTheEnd
<1>2. CASE DispatcherAlive
  <2>1. Before
    BY <1>2 DEF Before, ClubInv, AgreementInv, SessionInv
  <2>2. CASE RequestExit \/ \E c \in Conn : PeerStep(c)
    BY <2>1, <2>2, OutsideIdles, OutsideSeen DEF Before, ClubInv, AgreementInv, SessionInv
  <2>3. CASE UNCHANGED vars
    <3>1. \A r \in Peer : Undisturbed(r)
      BY <2>3 DEF Undisturbed, Returned, SubDispatcher, vars, queue_vars, dispatcher_vars, conn_vars,
        tendermint_vars, ToPeer, PeerConnected
    <3>2. HungUp' = HungUp
      BY <2>3, SameHungUp DEF vars, conn_vars, dispatcher_vars, DispatcherAlive, Returned
    <3> QED
      BY <1>2, <2>1, <2>3, <3>1, <3>2, NoneMoves DEF ClubStep, Before, ClubInv, AgreementInv, SessionInv,
        vars, dispatcher_vars, conn_vars, tendermint_vars, DispatcherAlive
  <2> QED
    BY <2>1, <2>2, <2>3, DispatcherSeen, TendermintSeen, ConnSeen DEF Next
<1> QED
  BY <1>1, <1>2

LEMMA ClubOpens == Init => Club!Init
<1> SUFFICES ASSUME Init PROVE Club!Init
  OBVIOUS
<1>1. ClubInv
  BY ClubInitially
<1>2. \A p \in Peer : Stage(p) = "away" /\ ~Served(p)
  BY DEF Init, NodeInit, Stage, Returned, Ended, Served, SubDispatcher
<1>3. \A p \in Peer : MailTo(p) = {}
  <2>1. \A p \in Peer, m \in PeerMessage : ~Underway(p, m)
    BY EmptyQueue DEF Init, NodeInit, Underway
  <2> QED
    BY <1>1, <2>1, OutboundIs DEF MailTo, ClubInv, AgreementInv, SessionInv
<1>4. HungUp = {} /\ DispatcherAlive = TRUE /\ (abci # "idle") = FALSE
  BY DEF Init, NodeInit, HungUp, DispatcherAlive, Returned, Ended, GivenUp, Contents
<1> QED
  BY <1>2, <1>3, <1>4 DEF Club!Init, Stages, InSession, Mail

-----------------------------------------------------------------------------
(* The theorems.                                                           *)

\* The threads and queues are at rest when Membership needs them to be: the
\* dispatcher is asked to exit only on request and outlives the thread's wish,
\* only listed peers are asked for their addresses, and a task takes its queue
\* with it (dispatcher.rs:68-72, 80-140, tendermint.rs:131-155).
THEOREM NodeIsTidy == Spec => []Tidy
<1>1. ClubInv => Tidy
  BY DEF ClubInv
<1> QED
  BY <1>1, ClubInductive, ClubInitially, PTL DEF Spec

\* The node implements Membership: what it is to each peer on its first
\* connection does not depend on the order in which tasks, threads and queues
\* proceed, nor on what the other peers do, as long as none of them comes back
\* (dispatcher.rs:36-76, 79-141, tendermint.rs:131-138, 156-185).
THEOREM MembershipImplemented == Spec => ImplementsMembership
<1>1. ClubInv /\ ClubInv' /\ [Next]_vars => [Club!Next]_(Club!vars)
  BY EveryStepSeen DEF ClubStep
<1> QED
  BY <1>1, ClubInductive, ClubInitially, ClubOpens, PTL DEF Spec, ImplementsMembership, Club!Spec
=============================================================================
