------------------------------ MODULE SeedNetwork ------------------------------
(***************************************************************************)
(* Seed nodes that dial each other, and other peers that come and go.      *)
(***************************************************************************)
EXTENDS SeedNode, RemotePeer, SeedPeers

Init == SeedInit

Next ==
  \/ \E n \in Node : LoopStep(n) \/ Accept(n) \/ FreeChannel(n)
  \/ \E e \in End : ThreadStep(e)
  \/ \E n \in Node, ev \in Event : Command(n, ev)
  \/ \E c \in Conn : RemoteStep(c)

Spec == Init /\ [][Next]_vars

-----------------------------------------------------------------------------
(* Fairness.  Every thread that can run is eventually run, and the nodes   *)
(* are told to dial in the end; other commands may never come.             *)

FairSpec ==
  /\ Spec
  /\ \A n \in Node : /\ WF_vars(LoopStep(n))
                     /\ WF_vars(Accept(n))
                     /\ WF_vars(\E c \in Conn : Command(n, Connect(c)))
  /\ \A e \in End : /\ WF_vars(Receive(e) \/ ReceiveFails(e))
                    /\ WF_vars(SenderDropped(e))

\* Other peers do not keep a node waiting for their Hello: they send some
\* message or leave.
Answers(c) ==
  /\ current[To[c]] = In(c)
  /\ inbox[In(c)] = << >>
  /\ \/ \E m \in Incoming : RemoteSends(c, m)
     \/ RemoteCloses(c)

PoliteSpec == FairSpec /\ \A c \in Conn : WF_vars(Answers(c))

-----------------------------------------------------------------------------
(* Safety.                                                                 *)

NodeEnd == {e \in End : Owner(e) \in Node}

\* The loop and the map of peers hold exactly the streams they are meant to: a
\* listed peer has its own stream, no stream outlives its entry in the map or
\* the loop's business with it (seed_node.rs:182-268), whatever Connected,
\* Disconnect and Terminate events come in between.
StreamsHeld ==
  \A e \in NodeEnd :
    /\ "peer" \in holders[e] <=> peers[Owner(e)][IdOf(e)] = e
    /\ "loop" \in holders[e] <=> current[Owner(e)] = e

\* Nobody listens for long to a seed node that does not listen back: while the
\* receive thread of the side that dialled runs, so does that of the side that
\* accepted, which says Hello back only to a peer it is about to list; unless it
\* then found no streams for its threads, and has closed the connection
\* (seed_node.rs:199-230).
MutualSessions ==
  \A c \in Conn :
    (From[c] \in Node /\ LoopAlive(To[c]) /\ "recv" \in holders[Out(c)])
      => \/ "recv" \in holders[In(c)]
         \/ To[c] \in Starved /\ Closed(In(c))

\* No peer stays listed that nobody listens to: the receive thread runs, or the
\* Disconnect it sent at its end is still to be handled, even if the peer was
\* replaced, or the id listed anew, in the meantime (remote_peer.rs:112-141,
\* seed_node.rs:222-230, 261-268).
ListedServed ==
  \A n \in Node, id \in Id :
    peers[n][id] # NoEnd =>
      \/ "recv" \in holders[peers[n][id]]
      \/ \E i \in 1 .. Len(events[n]) : events[n][i] = Disconnect(id)

\* "A registered peer was disconnected, or we want to disconnect them."
\* (events.rs:60): without a command, the loop drops a peer only when the receive
\* thread of the session it drops has come to an end, when the other end of its
\* stream is closed, or when the loop itself returns.
OnlyDeadSessionsDropped ==
  [][ \A n \in Node, id \in Id :
        (peers[n][id] # NoEnd /\ peers'[n][id] # peers[n][id])
          => \/ "recv" \notin holders[peers[n][id]]
             \/ Closed(Other(peers[n][id]))
             \/ loop'[n] \in {"stopped", "failed"} ]_vars

-----------------------------------------------------------------------------
(* The life of a connection.                                               *)

\* The stage of an end, by who holds it.
Stage(e) ==
  IF e[1] \notin opened THEN "new"
  ELSE IF holders[e] = {} THEN "closed"
  ELSE IF "peer" \in holders[e] THEN "listed"
  ELSE IF holders[e] \cap {"backlog", "event", "loop"} # {} THEN "waiting"
  ELSE "ending"

Life == INSTANCE Connections WITH
  stage <- [e \in NodeEnd |-> Stage(e)],
  alive <- {n \in Node : LoopAlive(n)}

\* Each end a node holds waits, is listed, ends and is closed, in this order and
\* once; a node lists a peer through one end at a time, lists whom it dialled
\* only after that has listed it or has given the connection up for want of
\* streams, and gives up an end of a session only when the peer has, or when it
\* has itself returned (seed_node.rs:117-126, 182-268, remote_peer.rs:96-141).
ImplementsConnections == Life!Spec

-----------------------------------------------------------------------------
(* Liveness.                                                               *)

\* "Here we run 3 seed nodes that should talk to each other and discover each
\* other" (seed_node.rs:297-298): both ends of every dialled connection come to
\* list each other, and stay listed.
Discovered ==
  <>[](\A c \in Conn : /\ peers[From[c]][To[c]] # NoEnd
                       /\ peers[To[c]][From[c]] # NoEnd)

\* The node lets go of a listed peer that has left, threads and all, even if it
\* is busy with another peer or terminates meanwhile (seed_node.rs:261-276,
\* remote_peer.rs:98-101, 135-138).
SessionReleased ==
  \A e \in End :
    ("peer" \in holders[e] /\ Closed(Other(e))) ~> holders[e] = {}

\* A node told to terminate does so (seed_node.rs:117-126).
TerminateHandled ==
  \A n \in Node :
    (\E i \in 1 .. Len(events[n]) : events[n][i] = Terminate) ~> ~LoopAlive(n)
=============================================================================
