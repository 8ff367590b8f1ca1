------------------------------- MODULE AddrBook -------------------------------
(***************************************************************************)
(* The concurrent address book: threads that discover each other through a *)
(* seed node.  Each thread owns a map of the peers it knows, asks them for *)
(* further peers at every tick, gets to know whoever answers its Ping, and *)
(* reports once when it knows everyone.  The seed node and the collector   *)
(* of the reports are the main thread of the example's test.               *)
(***************************************************************************)
EXTENDS Naturals, Sequences, FiniteSets

LOCAL INSTANCE FiniteSetsExt

CONSTANTS
  Node,     \* the address-book threads
  Seed,     \* the seed node
  Backlog   \* bound: messages under way beyond which tickers pause

ASSUME NodeAssumption == IsFiniteSet(Node) /\ Node # {} /\ Seed \notin Node

ASSUME BacklogAssumption == Backlog \in Nat \ {0}

VARIABLES
  thread,       \* of each node: not started, running or exited
  queue,        \* AddrBook::receiver of each node, and the seed node's
  known_peers,  \* keys of AddrBook::known_peers
  to_ask,       \* entries the tick loop has still to send a request to
  done_sender,  \* whether AddrBook::done_sender is still there
  reports,      \* messages in the channel of reports
  done_count,   \* reports the main thread has counted
  main,         \* where the main thread is
  to_exit       \* nodes the main thread has still to send Exit to

book_vars == <<thread, known_peers, to_ask, done_sender>>
main_vars == <<done_count, main, to_exit>>
vars == <<book_vars, main_vars, queue, reports>>

Everyone == Node \cup {Seed}

\* PeerMsg.  A sender is named by the node that holds its receiver.
Request(n)  == [type |-> "Request", sender |-> n]
Response(n) == [type |-> "Response", sender |-> n]
Ping(n)     == [type |-> "Ping", sender |-> n]
Pong(n)     == [type |-> "Pong", sender |-> n]
Exit        == [type |-> "Exit"]

PeerMsg == [type : {"Request", "Response", "Ping", "Pong"}, sender : Node] \cup {Exit}

\* Receivers are dropped when a thread exits or the test ends.
Listening(n) == IF n = Seed THEN main # "finished" ELSE thread[n] # "exited"

\* Append m to the queue of n, whose head was taken off in q.
Send(q, n, m) == IF Listening(n) THEN [q EXCEPT ![n] = Append(@, m)] ELSE q

\* Node n is in select! and takes m from its queue.
Takes(n, m) ==
  /\ thread[n] = "running"
  /\ to_ask[n] = {}
  /\ queue[n] # << >>
  /\ m = Head(queue[n])

Rest(n) == [queue EXCEPT ![n] = Tail(@)]

Init ==
  /\ thread = [n \in Node |-> "new"]
  /\ queue = [n \in Everyone |-> << >>]
  /\ known_peers = [n \in Node |-> {}]
  /\ to_ask = [n \in Node |-> {}]
  /\ done_sender = [n \in Node |-> TRUE]
  /\ reports = 0
  /\ done_count = 0
  /\ main = "starting"
  /\ to_exit = {}

-----------------------------------------------------------------------------
(* An address book                                                         *)

Start(n) ==
  /\ thread[n] = "new"
  /\ thread' = [thread EXCEPT ![n] = "running"]
  /\ queue' = Send(queue, Seed, Request(n))
  /\ known_peers' = [known_peers EXCEPT ![n] = {Seed}]
  /\ UNCHANGED <<to_ask, done_sender, main_vars, reports>>

\* Messages in queues, and requests due.
UnderWay ==
  LET load(n) == Len(queue[n]) + (IF n = Seed THEN 0 ELSE Cardinality(to_ask[n]))
  IN  MapThenSumSet(load, Everyone)

\* The ticker fires: a request is due to every known peer.
Tick(n) ==
  /\ thread[n] = "running"
  /\ to_ask[n] = {}
  /\ UnderWay < Backlog
  /\ to_ask' = [to_ask EXCEPT ![n] = known_peers[n]]
  /\ UNCHANGED <<thread, known_peers, done_sender, main_vars, queue, reports>>

\* One turn of the loop over the known peers.
Ask(n, q) ==
  /\ q \in to_ask[n]
  /\ to_ask' = [to_ask EXCEPT ![n] = @ \ {q}]
  /\ queue' = Send(queue, q, Request(n))
  /\ UNCHANGED <<thread, known_peers, done_sender, main_vars, reports>>

\* A random node is introduced to the requester, if it is known.
HandleRequest(n, r, pick) ==
  /\ Takes(n, Request(r))
  /\ queue' = IF pick \in known_peers[n] THEN Send(Rest(n), r, Response(pick))
                                         ELSE Rest(n)
  /\ UNCHANGED <<book_vars, main_vars, reports>>

HandleResponse(n, q) ==
  /\ Takes(n, Response(q))
  /\ queue' = Send(Rest(n), q, Ping(n))
  /\ UNCHANGED <<book_vars, main_vars, reports>>

HandlePing(n, q) ==
  /\ Takes(n, Ping(q))
  /\ queue' = Send(Rest(n), q, Pong(n))
  /\ UNCHANGED <<book_vars, main_vars, reports>>

\* Mutation: the sender of reports is not taken out of the book.
ReportsAgain(n) ==
  IF Cardinality(known_peers'[n]) = Cardinality(Node) + 1
  THEN reports' = reports + 1 /\ UNCHANGED done_sender
  ELSE UNCHANGED <<reports, done_sender>>

\* Mutation: the seed node is left out of the count.
ReportsWithoutOne(n) ==
  IF Cardinality(known_peers'[n]) = Cardinality(Node) /\ done_sender[n]
  THEN /\ reports' = reports + 1
       /\ done_sender' = [done_sender EXCEPT ![n] = FALSE]
  ELSE UNCHANGED <<reports, done_sender>>

\* The book is complete: report, once.
Report(n) ==
  IF Cardinality(known_peers'[n]) = Cardinality(Node) + 1 /\ done_sender[n]
  THEN /\ reports' = reports + 1
       /\ done_sender' = [done_sender EXCEPT ![n] = FALSE]
  ELSE UNCHANGED <<reports, done_sender>>

\* A peer answered: it is known from now on.
HandlePong(n, q) ==
  /\ Takes(n, Pong(q))
  /\ queue' = Rest(n)
  /\ known_peers' = [known_peers EXCEPT ![n] = @ \cup {q}]
  /\ Report(n)
  /\ UNCHANGED <<thread, to_ask, main_vars>>

HandleExit(n) ==
  /\ Takes(n, Exit)
  /\ thread' = [thread EXCEPT ![n] = "exited"]
  /\ queue' = [queue EXCEPT ![n] = << >>]
  /\ UNCHANGED <<known_peers, to_ask, done_sender, main_vars, reports>>

-----------------------------------------------------------------------------
(* The main thread                                                         *)

\* All threads are started.
Collect ==
  /\ main = "starting"
  /\ \A n \in Node : thread[n] # "new"
  /\ main' = "collecting"
  /\ UNCHANGED <<book_vars, done_count, to_exit, queue, reports>>

\* Mutation: the seed node introduces itself as well (gen_range(0, 10)).
SeedIntroducesItself(r, pick) ==
  /\ main = "collecting"
  /\ queue[Seed] # << >>
  /\ Head(queue[Seed]) = Request(r)
  /\ queue' = Send(Rest(Seed), r, Response(Seed))
  /\ UNCHANGED <<book_vars, main_vars, reports>>

\* The seed node introduces a random node, be it the requester itself.  Nothing
\* but requests ever reaches it, since nobody is introduced to it.
SeedHandlesRequest(r, pick) ==
  /\ main = "collecting"
  /\ queue[Seed] # << >>
  /\ Head(queue[Seed]) = Request(r)
  /\ queue' = Send(Rest(Seed), r, Response(pick))
  /\ UNCHANGED <<book_vars, main_vars, reports>>

\* Mutation: one report too many is awaited.
CountReportBeyond ==
  /\ main = "collecting"
  /\ reports > 0
  /\ reports' = reports - 1
  /\ done_count' = done_count + 1
  /\ IF done_count = Cardinality(Node)
     THEN main' = "exiting" /\ to_exit' = Node
     ELSE UNCHANGED <<main, to_exit>>
  /\ UNCHANGED <<book_vars, queue>>

\* Mutation: the loop ends at the last report but one.
CountReportShort ==
  /\ main = "collecting"
  /\ reports > 0
  /\ reports' = reports - 1
  /\ done_count' = done_count + 1
  /\ IF done_count + 2 = Cardinality(Node)
     THEN main' = "exiting" /\ to_exit' = Node
     ELSE UNCHANGED <<main, to_exit>>
  /\ UNCHANGED <<book_vars, queue>>

\* A report is counted; the last one ends the loop.
CountReport ==
  /\ main = "collecting"
  /\ reports > 0
  /\ reports' = reports - 1
  /\ done_count' = done_count + 1
  /\ IF done_count + 1 = Cardinality(Node)
     THEN main' = "exiting" /\ to_exit' = Node
     ELSE UNCHANGED <<main, to_exit>>
  /\ UNCHANGED <<book_vars, queue>>

\* The threads are told to exit, in the order of the hash map; then the test
\* ends and drops the seed node's receiver.
SendExit(n) ==
  /\ main = "exiting"
  /\ n \in to_exit
  /\ to_exit' = to_exit \ {n}
  /\ LET sent == Send(queue, n, Exit) IN
     IF to_exit = {n}
     THEN main' = "finished" /\ queue' = [sent EXCEPT ![Seed] = << >>]
     ELSE main' = main /\ queue' = sent
  /\ UNCHANGED <<book_vars, done_count, reports>>

-----------------------------------------------------------------------------
Handle(n) ==
  \/ \E q \in Node : \/ \E pick \in Node : HandleRequest(n, q, pick)
                     \/ HandleResponse(n, q)
                     \/ HandlePing(n, q)
                     \/ HandlePong(n, q)
  \/ HandleExit(n)

BookStep(n) ==
  \/ Start(n) \/ Tick(n) \/ Handle(n)
  \/ \E q \in Everyone : Ask(n, q)

MainStep ==
  \/ Collect \/ CountReport
  \/ \E r, pick \in Node : SeedHandlesRequest(r, pick)
  \/ \E n \in Node : SendExit(n)

Next == MainStep \/ \E n \in Node : BookStep(n)

Spec == Init /\ [][Next]_vars

-----------------------------------------------------------------------------
(* Fairness.  Threads that can run are run; select! picks at random among  *)
(* the channels that are ready, and gen_range among the nodes, so neither  *)
(* passes a choice over for ever.                                          *)

FairSpec ==
  /\ Spec
  /\ WF_vars(Collect) /\ SF_vars(CountReport)
  /\ WF_vars(\E n \in Node : SendExit(n))
  /\ \A r, pick \in Node : SF_vars(SeedHandlesRequest(r, pick))
  /\ \A n \in Node : /\ WF_vars(Start(n))
                     /\ SF_vars(Tick(n))
                     /\ WF_vars(\E q \in Everyone : Ask(n, q))
                     /\ SF_vars(Handle(n))

-----------------------------------------------------------------------------
(* Properties.                                                             *)

TypeOK ==
  /\ thread \in [Node -> {"new", "running", "exited"}]
  /\ queue \in [Everyone -> Seq(PeerMsg)]
  /\ known_peers \in [Node -> SUBSET Everyone]
  /\ to_ask \in [Node -> SUBSET Everyone]
  /\ done_sender \in [Node -> BOOLEAN]
  /\ reports \in Nat
  /\ done_count \in Nat
  /\ main \in {"starting", "collecting", "exiting", "finished"}
  /\ to_exit \in SUBSET Node

\* The main thread counts to the number of nodes, not which node reported; when
\* it tells the threads to exit, or any of them has left, each knows every other
\* (concurrent_addr_book.rs:91-95, 151-158).
ExitWhenConnected ==
  (main \in {"exiting", "finished"} \/ \E n \in Node : thread[n] = "exited")
    => \A n \in Node : known_peers[n] = Everyone

\* Every report is from a node of its own that knows everyone, and none is lost:
\* the sender of reports is taken out of the book with the first report, and a
\* map can only grow after (concurrent_addr_book.rs:90-96, 151-153).
ReportsCounted ==
  LET done == {n \in Node : ~done_sender[n]} IN
  /\ done_count + reports = Cardinality(done)
  /\ \A n \in done : known_peers[n] = Everyone

\* Every thread comes to know everyone, is told to exit and does so, although
\* introductions are random and may name a peer already known or the asker
\* itself (concurrent_addr_book.rs:62-105, 138-161).
AllConnectAndExit ==
  <>( /\ \A n \in Node : known_peers[n] = Everyone /\ thread[n] = "exited"
      /\ main = "finished" )

\* Messages and counts come to a gathering that nobody leaves, and nobody is told
\* to leave, before all have met; that is joined once, knowing the seed node; and
\* in which only peers who are there are met, each for good
\* (concurrent_addr_book.rs:39-60, 89-100, 151-158).
Gathering == INSTANCE Rendezvous WITH
  Member <- Node,
  Host <- Seed,
  stage <- thread,
  knows <- known_peers,
  closed <- (main \in {"exiting", "finished"})

ImplementsRendezvous == Gathering!Spec

=============================================================================
