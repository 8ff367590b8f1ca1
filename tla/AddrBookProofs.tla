---------------------------- MODULE AddrBookProofs ----------------------------
(***************************************************************************)
(* Proofs about AddrBook, for every set of nodes: the threads are told to  *)
(* exit only when each of them knows every other.                          *)
(*                                                                         *)
(* The main thread counts reports and compares the count to the number of  *)
(* nodes.  The count stands for a set: done_count + reports is the number  *)
(* of nodes whose done_sender is gone, and all of these know everyone.  A  *)
(* set of nodes as large as Node is Node.                                  *)
(***************************************************************************)
EXTENDS AddrBook, FiniteSetTheorems, TLAPS

Done == {n \in Node : ~done_sender[n]}

\* Some message of queue q is m.
Has(q, m) == \E i \in 1 .. Len(q) : q[i] = m

\* Exit is on its way only after the last report was counted.
ExitAnnounced ==
  /\ main \in {"exiting", "finished"} => Done = Node
  /\ \A n \in Node : thread[n] = "exited" \/ Has(queue[n], Exit)
                       => main \in {"exiting", "finished"}

\* A thread that has not started has not reported.
NewUnreported == \A n \in Node : thread[n] = "new" => done_sender[n]

BookInv == TypeOK /\ ReportsCounted /\ ExitAnnounced /\ NewUnreported

-----------------------------------------------------------------------------
(* Queues.                                                                 *)

\* What append adds to a queue.
LEMMA HasAppend ==
  ASSUME NEW q \in Seq(PeerMsg), NEW m \in PeerMsg, NEW x, Has(Append(q, m), x)
  PROVE  Has(q, x) \/ m = x
  BY DEF Has

\* What stays in a queue whose head is taken off was there before.
LEMMA HasTail ==
  ASSUME NEW q \in Seq(PeerMsg), q # << >>, NEW x, Has(Tail(q), x)
  PROVE  Has(q, x)
  BY DEF Has

\* An empty queue has no message.
LEMMA HasEmpty == << >> \in Seq(PeerMsg) /\ \A x : ~Has(<< >>, x)
  BY DEF Has

\* A message at the head of a queue is in it.
LEMMA HasHead ==
  ASSUME NEW q \in Seq(PeerMsg), q # << >>
  PROVE  Head(q) \in PeerMsg /\ Has(q, Head(q)) /\ Tail(q) \in Seq(PeerMsg)
  BY DEF Has

\* Sending keeps the type of the queues and adds nothing but the message sent.
LEMMA SendTo ==
  ASSUME NEW q \in [Everyone -> Seq(PeerMsg)], NEW n \in Everyone, NEW m \in PeerMsg
  PROVE  /\ Send(q, n, m) \in [Everyone -> Seq(PeerMsg)]
         /\ \A k \in Everyone : \A x : Has(Send(q, n, m)[k], x) => Has(q[k], x) \/ m = x
  <1>1. CASE Listening(n)
    <2>1. Send(q, n, m) = [q EXCEPT ![n] = Append(@, m)]
      BY <1>1 DEF Send
    <2>2. Append(q[n], m) \in Seq(PeerMsg)
      OBVIOUS
    <2>3. Send(q, n, m) \in [Everyone -> Seq(PeerMsg)]
      BY <2>1, <2>2
    <2>4. ASSUME NEW k \in Everyone, NEW x, Has(Send(q, n, m)[k], x)
          PROVE  Has(q[k], x) \/ m = x
      <3>1. CASE k = n
        <4>1. Send(q, n, m)[k] = Append(q[n], m)
          BY <2>1, <3>1
        <4> QED
          BY <2>4, <4>1, <3>1, HasAppend
      <3>2. CASE k # n
        BY <2>1, <2>4, <3>2
      <3> QED
        BY <3>1, <3>2
    <2> QED
      BY <2>3, <2>4
  <1>2. CASE ~Listening(n)
    BY <1>2 DEF Send
  <1> QED
    BY <1>1, <1>2

\* Handling a message leaves the other messages of the queue.
LEMMA TakeFrom ==
  ASSUME TypeOK, NEW n \in Everyone, queue[n] # << >>
  PROVE  /\ Rest(n) \in [Everyone -> Seq(PeerMsg)]
         /\ \A k \in Everyone : \A x : Has(Rest(n)[k], x) => Has(queue[k], x)
  <1>1. Tail(queue[n]) \in Seq(PeerMsg)
    BY HasHead DEF TypeOK
  <1>2. ASSUME NEW k \in Everyone, NEW x, Has(Rest(n)[k], x)
        PROVE  Has(queue[k], x)
    <2>1. CASE k = n
      <3>1. Rest(n)[k] = Tail(queue[n])
        BY <2>1 DEF Rest, TypeOK
      <3> QED
        BY <1>2, <2>1, <3>1, HasTail DEF TypeOK
    <2>2. CASE k # n
      BY <1>2, <2>2 DEF Rest, TypeOK
    <2> QED
      BY <2>1, <2>2
  <1> QED
    BY <1>1, <1>2 DEF Rest, TypeOK

\* What a queue q' that only gained messages other than Exit shows of Exit.
LEMMA MessageTypes ==
  ASSUME NEW n \in Node
  PROVE  /\ Request(n) \in PeerMsg /\ Request(n) # Exit
         /\ Response(n) \in PeerMsg /\ Response(n) # Exit
         /\ Ping(n) \in PeerMsg /\ Ping(n) # Exit
         /\ Pong(n) \in PeerMsg /\ Pong(n) # Exit
         /\ Exit \in PeerMsg
  BY DEF Request, Response, Ping, Pong, Exit, PeerMsg

-----------------------------------------------------------------------------
(* Counting.                                                               *)

\* The books that are done are a finite set, no larger than Node.
LEMMA DoneFinite ==
  /\ IsFiniteSet(Done) /\ Cardinality(Done) \in Nat
  /\ IsFiniteSet(Node) /\ Cardinality(Node) \in Nat
  /\ Cardinality(Done) <= Cardinality(Node)
  /\ Cardinality(Done) = Cardinality(Node) => Done = Node
  <1>1. Done \subseteq Node
    BY DEF Done
  <1> QED
    BY <1>1, NodeAssumption, FS_Subset, FS_CardinalityType

\* A book as large as the number of threads and the seed node names them all.
LEMMA FullBook ==
  ASSUME NEW S \in SUBSET Everyone, Cardinality(S) = Cardinality(Node) + 1
  PROVE  S = Everyone
  <1>1. IsFiniteSet(Everyone) /\ Cardinality(Everyone) = Cardinality(Node) + 1
    BY NodeAssumption, FS_AddElement DEF Everyone
  <1> QED
    BY <1>1, FS_Subset

-----------------------------------------------------------------------------
(* Steps.                                                                  *)

\* A step that neither reports nor counts, and brings no Exit, preserves the
\* invariant.
LEMMA QuietBook ==
  ASSUME BookInv, TypeOK',
         UNCHANGED <<done_sender, main, done_count, reports>>,
         \A n \in Node : thread'[n] \in {thread[n], "running"},
         \A n \in Done : known_peers'[n] = known_peers[n],
         \A n \in Node : Has(queue'[n], Exit) => Has(queue[n], Exit)
  PROVE  BookInv'
  <1>1. Done' = Done
    BY DEF Done
  <1>2. ReportsCounted'
    BY <1>1 DEF BookInv, ReportsCounted, Done
  <1>3. ExitAnnounced'
    BY <1>1 DEF BookInv, ExitAnnounced
  <1>4. NewUnreported'
    BY DEF BookInv, NewUnreported
  <1> QED
    BY <1>2, <1>3, <1>4 DEF BookInv

LEMMA InitBook == Init => BookInv
  <1> SUFFICES ASSUME Init PROVE BookInv
    OBVIOUS
  <1>1. TypeOK
    BY DEF Init, TypeOK
  <1>2. Done = {}
    BY DEF Init, Done
  <1>3. ReportsCounted
    <2>1. Cardinality(Done) = 0
      BY <1>2, FS_EmptySet
    <2>2. done_count + reports = 0
      BY DEF Init
    <2> QED
      BY <1>2, <2>1, <2>2 DEF ReportsCounted, Done
  <1>4. ExitAnnounced
    BY HasEmpty DEF Init, ExitAnnounced, Everyone
  <1>5. NewUnreported
    BY DEF Init, NewUnreported
  <1> QED
    BY <1>1, <1>3, <1>4, <1>5 DEF BookInv

LEMMA StartStep ==
  ASSUME BookInv, NEW n \in Node, Start(n)
  PROVE  BookInv'
  <1>1. queue \in [Everyone -> Seq(PeerMsg)] /\ Seed \in Everyone /\ Node \subseteq Everyone
    BY DEF BookInv, TypeOK, Everyone
  <1>2. /\ queue' \in [Everyone -> Seq(PeerMsg)]
        /\ \A k \in Node : Has(queue'[k], Exit) => Has(queue[k], Exit)
    BY <1>1, SendTo, MessageTypes DEF Start
  <1>3. TypeOK'
    BY <1>1, <1>2 DEF BookInv, TypeOK, Start, main_vars
  <1>4. n \notin Done
    BY DEF BookInv, NewUnreported, Start, Done
  <1> QED
    BY <1>2, <1>3, <1>4, QuietBook DEF Start, main_vars, Done, BookInv, TypeOK

LEMMA TickStep ==
  ASSUME BookInv, NEW n \in Node, Tick(n)
  PROVE  BookInv'
  <1>1. TypeOK'
    BY DEF BookInv, TypeOK, Tick, main_vars
  <1> QED
    BY <1>1, QuietBook DEF Tick, main_vars

LEMMA AskStep ==
  ASSUME BookInv, NEW n \in Node, NEW q \in Everyone, Ask(n, q)
  PROVE  BookInv'
  <1>1. queue \in [Everyone -> Seq(PeerMsg)] /\ Node \subseteq Everyone
    BY DEF BookInv, TypeOK, Everyone
  <1>2. /\ queue' \in [Everyone -> Seq(PeerMsg)]
        /\ \A k \in Node : Has(queue'[k], Exit) => Has(queue[k], Exit)
    BY <1>1, SendTo, MessageTypes DEF Ask
  <1>3. TypeOK'
    BY <1>2 DEF BookInv, TypeOK, Ask, main_vars
  <1> QED
    BY <1>2, <1>3, QuietBook DEF Ask, main_vars

\* A handled message other than Pong and Exit is answered by at most one
\* message that is not Exit either.
LEMMA ReplyStep ==
  ASSUME BookInv, NEW n \in Everyone, queue[n] # << >>,
         NEW k \in Everyone, NEW m \in PeerMsg, m # Exit,
         queue' \in {Rest(n), Send(Rest(n), k, m)},
         UNCHANGED <<book_vars, main_vars, reports>>
  PROVE  BookInv'
  <1>1. /\ Rest(n) \in [Everyone -> Seq(PeerMsg)]
        /\ \A j \in Everyone : \A x : Has(Rest(n)[j], x) => Has(queue[j], x)
    BY TakeFrom DEF BookInv
  <1>2. /\ queue' \in [Everyone -> Seq(PeerMsg)]
        /\ \A j \in Node : Has(queue'[j], Exit) => Has(queue[j], Exit)
    <2>1. CASE queue' = Rest(n)
      BY <1>1, <2>1 DEF Everyone
    <2>2. CASE queue' = Send(Rest(n), k, m)
      BY <1>1, <2>2, SendTo DEF Everyone
    <2> QED
      BY <2>1, <2>2
  <1>3. TypeOK'
    BY <1>2 DEF BookInv, TypeOK, book_vars, main_vars
  <1> QED
    BY <1>2, <1>3, QuietBook DEF book_vars, main_vars

LEMMA IntroduceStep ==
  ASSUME BookInv, NEW n \in Node, NEW r \in Node, NEW pick \in Node
  PROVE  /\ HandleRequest(n, r, pick) => BookInv'
         /\ SeedHandlesRequest(r, pick) => BookInv'
  <1>1. r \in Everyone /\ n \in Everyone /\ Seed \in Everyone
    BY DEF Everyone
  <1>2. ASSUME HandleRequest(n, r, pick) PROVE BookInv'
    <2>1. queue' \in {Rest(n), Send(Rest(n), r, Response(pick))}
      BY <1>2 DEF HandleRequest
    <2> QED
      BY <1>1, <1>2, <2>1, ReplyStep, MessageTypes DEF HandleRequest, Takes
  <1>3. ASSUME SeedHandlesRequest(r, pick) PROVE BookInv'
    <2>1. queue' \in {Rest(Seed), Send(Rest(Seed), r, Response(pick))}
      BY <1>3 DEF SeedHandlesRequest
    <2> QED
      BY <1>1, <1>3, <2>1, ReplyStep, MessageTypes DEF SeedHandlesRequest
  <1> QED
    BY <1>2, <1>3

LEMMA HandshakeStep ==
  ASSUME BookInv, NEW n \in Node, NEW q \in Node
  PROVE  (HandleResponse(n, q) \/ HandlePing(n, q)) => BookInv'
  <1>1. q \in Everyone /\ n \in Everyone
    BY DEF Everyone
  <1>2. ASSUME HandleResponse(n, q) PROVE BookInv'
    BY <1>1, <1>2, ReplyStep, MessageTypes DEF HandleResponse, Takes
  <1>3. ASSUME HandlePing(n, q) PROVE BookInv'
    BY <1>1, <1>3, ReplyStep, MessageTypes DEF HandlePing, Takes
  <1> QED
    BY <1>2, <1>3

\* The step that may report.
LEMMA PongStep ==
  ASSUME BookInv, NEW n \in Node, NEW q \in Node, HandlePong(n, q)
  PROVE  BookInv'
  <1>0. n \in Everyone /\ Node \subseteq Everyone
    BY DEF Everyone
  <1>1. /\ Rest(n) \in [Everyone -> Seq(PeerMsg)]
        /\ \A j \in Everyone : \A x : Has(Rest(n)[j], x) => Has(queue[j], x)
    BY <1>0, TakeFrom DEF BookInv, HandlePong, Takes
  <1>2. /\ known_peers' \in [Node -> SUBSET Everyone]
        /\ known_peers'[n] = known_peers[n] \cup {q}
        /\ \A k \in Node \ {n} : known_peers'[k] = known_peers[k]
    BY <1>0 DEF BookInv, TypeOK, HandlePong
  <1>3. CASE UNCHANGED <<reports, done_sender>>
    <2>1. TypeOK'
      BY <1>1, <1>2, <1>3 DEF BookInv, TypeOK, HandlePong, main_vars
    <2>2. \A k \in Done : known_peers'[k] = known_peers[k]
      <3>1. n \in Done => known_peers[n] = Everyone
        BY DEF BookInv, ReportsCounted, Done
      <3> QED
        BY <1>0, <1>2, <3>1 DEF Done
    <2> QED
      BY <1>0, <1>1, <1>3, <2>1, <2>2, QuietBook DEF HandlePong, main_vars
  <1>4. CASE /\ Cardinality(known_peers'[n]) = Cardinality(Node) + 1 /\ done_sender[n]
             /\ reports' = reports + 1
             /\ done_sender' = [done_sender EXCEPT ![n] = FALSE]
    <2>1. TypeOK'
      BY <1>1, <1>2, <1>4 DEF BookInv, TypeOK, HandlePong, main_vars
    <2>2. known_peers'[n] = Everyone
      BY <1>2, <1>4, FullBook
    <2>3. Done' = Done \cup {n} /\ n \notin Done
      BY <1>4 DEF Done, BookInv, TypeOK
    <2>4. Cardinality(Done') = Cardinality(Done) + 1
      BY <2>3, DoneFinite, FS_AddElement
    <2>5. done_count + reports = Cardinality(Done) /\ \A k \in Done : known_peers[k] = Everyone
      BY DEF BookInv, ReportsCounted, Done
    <2>6. done_count' + reports' = Cardinality(Done')
      BY <1>4, <2>4, <2>5, DoneFinite DEF HandlePong, main_vars, BookInv, TypeOK
    <2>7. \A k \in Done' : known_peers'[k] = Everyone
      BY <1>2, <2>2, <2>3, <2>5 DEF Done
    <2>8. ReportsCounted'
      BY <2>6, <2>7 DEF ReportsCounted, Done
    <2>9. ExitAnnounced'
      <3>1. main' \in {"exiting", "finished"} => Done' = Node
        BY <2>3 DEF BookInv, ExitAnnounced, HandlePong, main_vars, Done
      <3>2. \A k \in Node : Has(queue'[k], Exit) => Has(queue[k], Exit)
        BY <1>0, <1>1 DEF HandlePong
      <3> QED
        BY <3>1, <3>2 DEF BookInv, ExitAnnounced, HandlePong, main_vars
    <2>10. NewUnreported'
      BY <1>4 DEF BookInv, NewUnreported, HandlePong, Takes, TypeOK
    <2> QED
      BY <2>1, <2>8, <2>9, <2>10 DEF BookInv
  <1> QED
    BY <1>3, <1>4 DEF HandlePong, Report

LEMMA ExitStep ==
  ASSUME BookInv, NEW n \in Node, HandleExit(n)
  PROVE  BookInv'
  <1>0. n \in Everyone /\ Node \subseteq Everyone
    BY DEF Everyone
  <1>1. Has(queue[n], Exit)
    BY <1>0, HasHead DEF BookInv, TypeOK, HandleExit, Takes
  <1>2. main \in {"exiting", "finished"}
    BY <1>1 DEF BookInv, ExitAnnounced
  <1>3. TypeOK'
    <2>1. queue' \in [Everyone -> Seq(PeerMsg)]
      BY HasEmpty DEF BookInv, TypeOK, HandleExit
    <2> QED
      BY <2>1 DEF BookInv, TypeOK, HandleExit, main_vars
  <1>4. Done' = Done
    BY DEF Done, HandleExit
  <1>5. ReportsCounted' /\ NewUnreported'
    BY <1>4 DEF BookInv, ReportsCounted, NewUnreported, HandleExit, main_vars, TypeOK
  <1>6. ExitAnnounced'
    BY <1>2, <1>4 DEF BookInv, ExitAnnounced, HandleExit, main_vars
  <1> QED
    BY <1>3, <1>5, <1>6 DEF BookInv

LEMMA CollectStep ==
  ASSUME BookInv, Collect
  PROVE  BookInv'
  <1>1. TypeOK'
    BY DEF BookInv, TypeOK, Collect, book_vars
  <1>2. Done' = Done
    BY DEF Done, Collect, book_vars
  <1>3. ReportsCounted' /\ NewUnreported'
    BY <1>2 DEF BookInv, ReportsCounted, NewUnreported, Collect, book_vars
  <1>4. ExitAnnounced'
    BY <1>2 DEF BookInv, ExitAnnounced, Collect, book_vars
  <1> QED
    BY <1>1, <1>3, <1>4 DEF BookInv

\* The last report counted: as many books are done as there are nodes.
LEMMA CountStep ==
  ASSUME BookInv, CountReport
  PROVE  BookInv'
  <1>1. TypeOK'
    BY DEF BookInv, TypeOK, CountReport, book_vars
  <1>2. Done' = Done
    BY DEF Done, CountReport, book_vars
  <1>3. done_count + reports = Cardinality(Done) /\ \A k \in Done : known_peers[k] = Everyone
    BY DEF BookInv, ReportsCounted, Done
  <1>4. done_count' + reports' = Cardinality(Done')
    BY <1>2, <1>3 DEF CountReport, BookInv, TypeOK
  <1>5. ReportsCounted'
    BY <1>2, <1>3, <1>4 DEF ReportsCounted, Done, CountReport, book_vars
  <1>6. NewUnreported'
    BY DEF BookInv, NewUnreported, CountReport, book_vars
  <1>7. ASSUME main' \in {"exiting", "finished"} PROVE Done' = Node
    <2>1. CASE done_count + 1 = Cardinality(Node)
      <3>1. Cardinality(Done) >= Cardinality(Node)
        BY <1>3, <2>1, DoneFinite DEF CountReport, BookInv, TypeOK
      <3>2. Cardinality(Done) = Cardinality(Node)
        BY <3>1, DoneFinite
      <3> QED
        BY <3>2, <1>2, DoneFinite
    <2>2. CASE done_count + 1 # Cardinality(Node)
      BY <1>7, <2>2, <1>2 DEF CountReport, BookInv, ExitAnnounced
    <2> QED
      BY <2>1, <2>2
  <1>8. ExitAnnounced'
    <2>1. main' # main => main' = "exiting"
      BY DEF CountReport
    <2> QED
      BY <1>7, <2>1 DEF BookInv, ExitAnnounced, CountReport, book_vars
  <1> QED
    BY <1>1, <1>5, <1>6, <1>8 DEF BookInv

LEMMA SendExitStep ==
  ASSUME BookInv, NEW n \in Node, SendExit(n)
  PROVE  BookInv'
  <1>0. n \in Everyone /\ Seed \in Everyone /\ queue \in [Everyone -> Seq(PeerMsg)]
    BY DEF Everyone, BookInv, TypeOK
  <1>1. Send(queue, n, Exit) \in [Everyone -> Seq(PeerMsg)]
    BY <1>0, SendTo, MessageTypes
  <1>2. queue' \in [Everyone -> Seq(PeerMsg)]
    <2>1. queue' \in {Send(queue, n, Exit), [Send(queue, n, Exit) EXCEPT ![Seed] = << >>]}
      BY DEF SendExit
    <2> QED
      BY <1>1, <2>1, HasEmpty
  <1>3. main' \in {"exiting", "finished"} /\ main = "exiting"
    BY DEF SendExit
  <1>4. TypeOK'
    BY <1>2, <1>3 DEF BookInv, TypeOK, SendExit, book_vars
  <1>5. Done' = Done
    BY DEF Done, SendExit, book_vars
  <1>6. ReportsCounted' /\ NewUnreported'
    BY <1>5 DEF BookInv, ReportsCounted, NewUnreported, SendExit, book_vars
  <1>7. ExitAnnounced'
    BY <1>3, <1>5 DEF BookInv, ExitAnnounced
  <1> QED
    BY <1>4, <1>6, <1>7 DEF BookInv

LEMMA StutterBook ==
  ASSUME BookInv, UNCHANGED vars
  PROVE  BookInv'
  <1>1. TypeOK'
    BY DEF BookInv, TypeOK, vars, book_vars, main_vars
  <1> QED
    BY <1>1, QuietBook DEF vars, book_vars, main_vars

\* Every step of the system preserves the invariant.
LEMMA NextBook == BookInv /\ [Next]_vars => BookInv'
  <1> SUFFICES ASSUME BookInv, [Next]_vars PROVE BookInv'
    OBVIOUS
  <1>1. CASE MainStep
    BY <1>1, CollectStep, CountStep, IntroduceStep, SendExitStep, NodeAssumption
       DEF MainStep
  <1>2. ASSUME NEW n \in Node, BookStep(n) PROVE BookInv'
    <2>1. CASE Handle(n)
      BY <2>1, IntroduceStep, HandshakeStep, PongStep, ExitStep DEF Handle
    <2> QED
      BY <1>2, <2>1, StartStep, TickStep, AskStep DEF BookStep
  <1>3. CASE UNCHANGED vars
    BY <1>3, StutterBook
  <1> QED
    BY <1>1, <1>2, <1>3 DEF Next

-----------------------------------------------------------------------------
(* Theorems.                                                               *)

\* The inductive invariant holds of every behaviour.
THEOREM BookInvariant == Spec => []BookInv
  BY InitBook, NextBook, PTL DEF Spec

\* Threads, queues and books keep their types: whoever introduces whom, a book
\* lists only peers that have a queue (concurrent_addr_book.rs:72-97, 140-150).
THEOREM TypeCorrect == Spec => []TypeOK
  <1>1. BookInv => TypeOK
    BY DEF BookInv
  <1> QED
    BY <1>1, BookInvariant, PTL

\* Reports are neither lost nor repeated, and each is from a node of its own
\* that knows everyone (concurrent_addr_book.rs:90-96, 151-153).
THEOREM EveryReportCounted == Spec => []ReportsCounted
  <1>1. BookInv => ReportsCounted
    BY DEF BookInv
  <1> QED
    BY <1>1, BookInvariant, PTL

\* No thread exits, and the main thread tells none to, before everyone knows
\* everyone (concurrent_addr_book.rs:91-95, 151-158).
THEOREM ExitAfterAllConnected == Spec => []ExitWhenConnected
  <1>1. BookInv => ExitWhenConnected
    BY DEF BookInv, ExitAnnounced, ReportsCounted, ExitWhenConnected, Done
  <1> QED
    BY <1>1, BookInvariant, PTL
-----------------------------------------------------------------------------
(* The gathering.  A step of a book is one of the abstract gathering or    *)
(* leaves it as it is.  Pong is what makes a peer known: its sender had    *)
(* been started; had it exited since, everyone would know everyone.        *)

\* Whoever answered a Ping has been started.
PongsFromStarted ==
  \A n \in Everyone, q \in Node : Has(queue[n], Pong(q)) => thread[q] # "new"

\* Pong names its sender and differs from every other message.
LEMMA PongIsPong ==
  ASSUME NEW n \in Node, NEW q \in Node
  PROVE  /\ Request(n) # Pong(q) /\ Response(n) # Pong(q) /\ Ping(n) # Pong(q)
         /\ Exit # Pong(q)
         /\ Pong(n) = Pong(q) => n = q
  BY DEF Request, Response, Ping, Pong, Exit

\* A step that starts or keeps every thread and adds no Pong of a thread that
\* has not started.
LEMMA PongsKept ==
  ASSUME PongsFromStarted,
         \A q \in Node : thread[q] # "new" => thread'[q] # "new",
         \A n \in Everyone, q \in Node :
           Has(queue'[n], Pong(q)) => Has(queue[n], Pong(q)) \/ thread[q] # "new"
  PROVE  PongsFromStarted'
  BY DEF PongsFromStarted

\* A message is handled, and m may be sent to k.
LEMMA PongsReply ==
  ASSUME TypeOK, PongsFromStarted, NEW n \in Everyone, queue[n] # << >>,
         NEW k \in Everyone, NEW m \in PeerMsg,
         \A q \in Node : m = Pong(q) => thread[q] # "new",
         queue' \in {Rest(n), Send(Rest(n), k, m)},
         UNCHANGED thread
  PROVE  PongsFromStarted'
  <1>1. /\ Rest(n) \in [Everyone -> Seq(PeerMsg)]
        /\ \A j \in Everyone : \A x : Has(Rest(n)[j], x) => Has(queue[j], x)
    BY TakeFrom
  <1>2. \A j \in Everyone : \A x : Has(Send(Rest(n), k, m)[j], x) => Has(queue[j], x) \/ m = x
    BY <1>1, SendTo
  <1>3. ASSUME NEW j \in Everyone, NEW q \in Node, Has(queue'[j], Pong(q))
        PROVE  Has(queue[j], Pong(q)) \/ thread[q] # "new"
    <2>1. CASE queue' = Rest(n)
      BY <1>1, <1>3, <2>1
    <2>2. CASE queue' = Send(Rest(n), k, m)
      BY <1>2, <1>3, <2>2
    <2> QED
      BY <2>1, <2>2
  <1> QED
    BY <1>3, PongsKept

LEMMA PongsInit == Init => PongsFromStarted
  BY HasEmpty DEF Init, PongsFromStarted

LEMMA PongsBookStep ==
  ASSUME TypeOK, PongsFromStarted, NEW n \in Node, BookStep(n)
  PROVE  PongsFromStarted'
  <1>0. /\ queue \in [Everyone -> Seq(PeerMsg)]
        /\ n \in Everyone /\ Seed \in Everyone /\ Node \subseteq Everyone
    BY DEF TypeOK, Everyone
  <1>1. CASE Start(n)
    <2>1. \A j \in Everyone : \A x : Has(queue'[j], x) => Has(queue[j], x) \/ Request(n) = x
      BY <1>0, <1>1, SendTo, MessageTypes DEF Start
    <2>2. \A q \in Node : thread[q] # "new" => thread'[q] # "new"
      BY <1>1 DEF Start, TypeOK
    <2> QED
      BY <2>1, <2>2, PongsKept, PongIsPong
  <1>2. CASE Tick(n)
    BY <1>2, PongsKept DEF Tick
  <1>3. ASSUME NEW q \in Everyone, Ask(n, q) PROVE PongsFromStarted'
    <2>1. \A j \in Everyone : \A x : Has(queue'[j], x) => Has(queue[j], x) \/ Request(n) = x
      BY <1>0, <1>3, SendTo, MessageTypes DEF Ask
    <2> QED
      BY <1>3, <2>1, PongsKept, PongIsPong DEF Ask
  <1>4. ASSUME NEW q \in Node, NEW pick \in Node, HandleRequest(n, q, pick)
        PROVE  PongsFromStarted'
    <2>1. queue' \in {Rest(n), Send(Rest(n), q, Response(pick))}
      BY <1>4 DEF HandleRequest
    <2> QED
      BY <1>0, <1>4, <2>1, PongsReply, PongIsPong, MessageTypes
         DEF HandleRequest, Takes, book_vars
  <1>5. ASSUME NEW q \in Node, HandleResponse(n, q) PROVE PongsFromStarted'
    BY <1>0, <1>5, PongsReply, PongIsPong, MessageTypes DEF HandleResponse, Takes, book_vars
  <1>6. ASSUME NEW q \in Node, HandlePing(n, q) PROVE PongsFromStarted'
    BY <1>0, <1>6, PongsReply, PongIsPong, MessageTypes DEF HandlePing, Takes, book_vars
  <1>7. ASSUME NEW q \in Node, HandlePong(n, q) PROVE PongsFromStarted'
    BY <1>0, <1>7, PongsReply, PongIsPong, MessageTypes DEF HandlePong, Takes
  <1>8. CASE HandleExit(n)
    <2>1. \A j \in Everyone : \A x : Has(queue'[j], x) => Has(queue[j], x)
      BY <1>0, <1>8, HasEmpty DEF HandleExit
    <2>2. \A q \in Node : thread[q] # "new" => thread'[q] # "new"
      BY <1>8 DEF HandleExit, TypeOK
    <2> QED
      BY <2>1, <2>2, PongsKept
  <1> QED
    BY <1>1, <1>2, <1>3, <1>4, <1>5, <1>6, <1>7, <1>8 DEF BookStep, Handle

LEMMA PongsMainStep ==
  ASSUME TypeOK, PongsFromStarted, MainStep
  PROVE  PongsFromStarted'
  <1>0. /\ queue \in [Everyone -> Seq(PeerMsg)]
        /\ Seed \in Everyone /\ Node \subseteq Everyone
    BY DEF TypeOK, Everyone
  <1>1. CASE Collect \/ CountReport
    BY <1>1, PongsKept DEF Collect, CountReport, book_vars
  <1>2. ASSUME NEW r \in Node, NEW pick \in Node, SeedHandlesRequest(r, pick)
        PROVE  PongsFromStarted'
    <2>1. queue' \in {Rest(Seed), Send(Rest(Seed), r, Response(pick))}
      BY <1>2 DEF SeedHandlesRequest
    <2> QED
      BY <1>0, <1>2, <2>1, PongsReply, PongIsPong, MessageTypes
         DEF SeedHandlesRequest, book_vars
  <1>3. ASSUME NEW n \in Node, SendExit(n) PROVE PongsFromStarted'
    <2> DEFINE sent == Send(queue, n, Exit)
    <2>1. /\ sent \in [Everyone -> Seq(PeerMsg)]
          /\ \A j \in Everyone : \A x : Has(sent[j], x) => Has(queue[j], x) \/ Exit = x
      BY <1>0, SendTo, MessageTypes
    <2>2. queue' \in {sent, [sent EXCEPT ![Seed] = << >>]} /\ UNCHANGED thread
      BY <1>3 DEF SendExit, book_vars
    <2>3. \A j \in Everyone : \A x : Has(queue'[j], x) => Has(queue[j], x) \/ Exit = x
      <3> HIDE DEF sent
      <3> QED
        BY <1>0, <2>1, <2>2, HasEmpty
    <2> QED
      BY <2>2, <2>3, PongsKept, PongIsPong
  <1> QED
    BY <1>1, <1>2, <1>3 DEF MainStep

\* Every step of the system keeps Pongs to threads that have started.
LEMMA NextPongs == TypeOK /\ PongsFromStarted /\ [Next]_vars => PongsFromStarted'
  <1>1. ASSUME PongsFromStarted, UNCHANGED vars PROVE PongsFromStarted'
    BY <1>1 DEF PongsFromStarted, vars, book_vars
  <1> QED
    BY <1>1, PongsBookStep, PongsMainStep DEF Next

\* A book's step is the abstract one of the same member, or none.
LEMMA BookStepGathers ==
  ASSUME BookInv, PongsFromStarted, NEW n \in Node, BookStep(n)
  PROVE  [Gathering!Next]_(Gathering!vars)
  <1>1. CASE Start(n)
    <2>1. Gathering!Arrive(n)
      BY <1>1 DEF Start, Gathering!Arrive, main_vars
    <2> QED
      BY <2>1 DEF Gathering!Next
  <1>2. CASE Tick(n)
    BY <1>2 DEF Tick, Gathering!vars, main_vars
  <1>3. ASSUME NEW q \in Everyone, Ask(n, q) PROVE UNCHANGED Gathering!vars
    BY <1>3 DEF Ask, Gathering!vars, main_vars
  <1>4. ASSUME NEW q \in Node, NEW pick \in Node,
               HandleRequest(n, q, pick) \/ HandleResponse(n, q) \/ HandlePing(n, q)
        PROVE  UNCHANGED Gathering!vars
    BY <1>4 DEF HandleRequest, HandleResponse, HandlePing, Gathering!vars, main_vars, book_vars
  <1>5. ASSUME NEW q \in Node, HandlePong(n, q)
        PROVE  [Gathering!Next]_(Gathering!vars)
    <2>1. /\ UNCHANGED <<thread, main>> /\ thread[n] = "running"
          /\ known_peers' = [known_peers EXCEPT ![n] = @ \cup {q}]
      BY <1>5 DEF HandlePong, Takes, main_vars
    <2>2. thread[q] # "new"
      BY <1>5, HasHead DEF HandlePong, Takes, PongsFromStarted, Everyone, BookInv, TypeOK
    <2>3. CASE thread[q] = "running"
      <3>1. Gathering!Meet(n, q)
        BY <2>1, <2>3 DEF Gathering!Meet
      <3> QED
        BY <3>1 DEF Gathering!Next
    <2>4. CASE thread[q] = "exited"
      <3>1. n \in Done
        BY <2>4 DEF BookInv, ExitAnnounced
      <3>2. known_peers[n] = Everyone
        BY <3>1 DEF BookInv, ReportsCounted, Done
      <3>3. known_peers' = known_peers
        BY <2>1, <3>2 DEF Everyone, BookInv, TypeOK
      <3> QED
        BY <2>1, <3>3 DEF Gathering!vars
    <2> QED
      BY <2>2, <2>3, <2>4 DEF BookInv, TypeOK
  <1>6. CASE HandleExit(n)
    <2>1. main \in {"exiting", "finished"}
      BY <1>6, HasHead DEF HandleExit, Takes, BookInv, TypeOK, ExitAnnounced, Everyone
    <2>2. Gathering!Leave(n)
      BY <1>6, <2>1 DEF HandleExit, Takes, Gathering!Leave, main_vars
    <2> QED
      BY <2>2 DEF Gathering!Next
  <1> QED
    BY <1>1, <1>2, <1>3, <1>4, <1>5, <1>6 DEF BookStep, Handle, Gathering!vars

\* The last report closes the gathering; no other step of the main thread
\* touches it.
LEMMA MainStepGathers ==
  ASSUME BookInv, BookInv', MainStep
  PROVE  [Gathering!Next]_(Gathering!vars)
  <1>1. CASE Collect
    BY <1>1 DEF Collect, Gathering!vars, book_vars
  <1>2. CASE CountReport
    <2>1. UNCHANGED <<thread, known_peers>> /\ main = "collecting"
      BY <1>2 DEF CountReport, book_vars
    <2>2. CASE main' = main
      BY <2>1, <2>2 DEF Gathering!vars
    <2>3. CASE main' = "exiting"
      <3>1. Done' = Node
        BY <2>3 DEF BookInv, ExitAnnounced
      <3>2. \A m \in Node : known_peers'[m] = Everyone
        BY <3>1 DEF BookInv, ReportsCounted, Done
      <3>3. Gathering!Close
        BY <2>1, <2>3, <3>2 DEF Gathering!Close, Gathering!AllMet, Everyone
      <3> QED
        BY <3>3 DEF Gathering!Next
    <2> QED
      BY <1>2, <2>2, <2>3 DEF CountReport
  <1>3. ASSUME NEW r \in Node, NEW pick \in Node, SeedHandlesRequest(r, pick)
        PROVE  UNCHANGED Gathering!vars
    BY <1>3 DEF SeedHandlesRequest, Gathering!vars, book_vars, main_vars
  <1>4. ASSUME NEW n \in Node, SendExit(n) PROVE UNCHANGED Gathering!vars
    BY <1>4 DEF SendExit, Gathering!vars, book_vars
  <1> QED
    BY <1>1, <1>2, <1>3, <1>4 DEF MainStep

\* The address books implement the gathering: messages, counts and the order in
\* which threads run come to members who arrive, meet whoever is there, and
\* leave when the host, who saw that all have met, says so
\* (concurrent_addr_book.rs:39-60, 89-100, 151-158).
THEOREM BooksGather == Spec => ImplementsRendezvous
  <1>1. Init => Gathering!Init
    BY DEF Init, Gathering!Init
  <1>2. BookInv /\ BookInv' /\ PongsFromStarted /\ [Next]_vars
          => [Gathering!Next]_(Gathering!vars)
    <2>1. ASSUME UNCHANGED vars PROVE UNCHANGED Gathering!vars
      BY <2>1 DEF vars, book_vars, main_vars, Gathering!vars
    <2> QED
      BY <2>1, BookStepGathers, MainStepGathers DEF Next
  <1>3. BookInv => TypeOK
    BY DEF BookInv
  <1>4. Spec => []PongsFromStarted
    BY PongsInit, NextPongs, BookInvariant, <1>3, PTL DEF Spec
  <1> QED
    BY <1>1, <1>2, <1>4, BookInvariant, PTL DEF Spec, ImplementsRendezvous, Gathering!Spec
=============================================================================
