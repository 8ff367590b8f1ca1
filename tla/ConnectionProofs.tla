--------------------------- MODULE ConnectionProofs ---------------------------
(***************************************************************************)
(* The seed nodes implement Connections, for every set of nodes, peers,    *)
(* connections and commands.                                               *)
(*                                                                         *)
(* What a step does to the connections is one of a few moves, whichever    *)
(* event or thread it is that makes it.  The proof first shows that every  *)
(* step is a move, and then what moves do: to the stages of ends, and to   *)
(* the ends whose receive thread is gone, which a node keeps only when the *)
(* other end is closed or the node itself has returned.                    *)
(***************************************************************************)
EXTENDS SeedProofs

\* The holders of an end at a stage of its own, and those of a session: the
\* send thread is there as long as the RemotePeer.
Single == {{"backlog"}, {"event"}, {"loop"}}
Sessions == {S \in SUBSET Session : "peer" \in S => "send" \in S}

Staged == \A e \in NodeEnd : holders[e] \in Single \cup Sessions

\* Nothing but Hello is said to whoever dialled.
HelloBack == \A c \in Conn : \A m : Has(inbox[Out(c)], m) => m = "Hello"

\* The receive thread of a session between nodes ends last.
Deaf ==
  \A e \in NodeEnd :
    (IdOf(e) \in Node /\ holders[e] \in Sessions \ {{}} /\ "recv" \notin holders[e])
      => Closed(Other(e)) \/ ~LoopAlive(Owner(e))

LifeInv == SeedInv /\ Staged /\ HelloBack /\ Deaf

-----------------------------------------------------------------------------
(* Moves.                                                                  *)

SameLoops == \A n \in Node : LoopAlive(n)' <=> LoopAlive(n)

\* Of the ends of nodes, only e changes hands.
Moved(e, H) ==
  /\ opened' = opened /\ SameLoops
  /\ holders'[e] = H
  /\ \A f \in NodeEnd : f # e => holders'[f] = holders[f]

Rests ==
  /\ opened' = opened /\ SameLoops
  /\ \A f \in NodeEnd : holders'[f] = holders[f]

Opens(c) ==
  /\ c \notin opened /\ opened' = opened \cup {c} /\ SameLoops
  /\ From[c] \in Node => LoopAlive(From[c]) /\ holders'[Out(c)] = {"loop"}
  /\ holders'[In(c)] = {"backlog"}
  /\ \A f \in NodeEnd : f[1] # c => holders'[f] = holders[f]

Hands(e) ==
  /\ holders[e] \in Single
  /\ \E H \in Single : Moved(e, H)

Lists(e) ==
  /\ holders[e] \in Single /\ Moved(e, Session)
  /\ LoopAlive(Owner(e))
  /\ \A f \in NodeEnd : Owner(f) = Owner(e) /\ IdOf(f) = IdOf(e) => "peer" \notin holders[f]
  /\ \A c \in Conn : e = Out(c) /\ LoopAlive(To[c]) => Listens(c)

Refuses(S) ==
  /\ opened' = opened /\ SameLoops
  /\ \A e \in S : holders[e] \in Single /\ (S = {e} \/ ~LoopAlive(Owner(e)))
  /\ \A f \in NodeEnd : holders'[f] = IF f \in S THEN {} ELSE holders[f]

Drops(e) == "peer" \in holders[e] /\ Moved(e, holders[e] \ {"peer"})

SendEnds(e) == "peer" \notin holders[e] /\ "send" \in holders[e] /\ Moved(e, holders[e] \ {"send"})

RecvEnds(e) ==
  /\ "recv" \in holders[e] /\ Moved(e, holders[e] \ {"recv"})
  /\ IdOf(e) \in Node => Closed(Other(e)) \/ ~LoopAlive(Owner(e))

\* What a loop may have at hand: at most one end.
AtMostOne == {{}} \cup {{e} : e \in NodeEnd}

Stops(n, S) ==
  /\ opened' = opened
  /\ LoopAlive(n) /\ ~LoopAlive(n)'
  /\ \A k \in Node : k # n => (LoopAlive(k)' <=> LoopAlive(k))
  /\ \A f \in S : Owner(f) = n /\ holders[f] \in Single
  /\ \A f \in NodeEnd : holders'[f] = IF f \in S THEN {}
                                      ELSE IF Owner(f) = n THEN holders[f] \ {"peer"}
                                      ELSE holders[f]

Moves ==
  \/ Rests
  \/ \E c \in Conn : Opens(c)
  \/ \E e \in NodeEnd : Hands(e) \/ Lists(e) \/ Drops(e) \/ SendEnds(e) \/ RecvEnds(e)
  \/ \E S \in SUBSET NodeEnd : Refuses(S)
  \/ \E n \in Node, S \in AtMostOne : Stops(n, S)

-----------------------------------------------------------------------------
(* Every step is a move.                                                   *)

\* The end a loop is busy with is one of its node's, held by the loop.
LEMMA AtHand ==
  ASSUME SeedInv, NEW n \in Node, loop[n] \in {"greeting", "reading"}
  PROVE  /\ current[n] \in NodeEnd /\ current[n] \in End /\ Owner(current[n]) = n
         /\ holders[current[n]] = {"loop"} /\ current[n][1] \in opened
         /\ LoopAlive(n)
  <1>1. current[n] # NoEnd /\ current[n] \in End
    BY DEF SeedInv, Busy, TypeOK
  <1>2. Owner(current[n]) = n /\ holders[current[n]] = {"loop"}
    BY <1>1 DEF SeedInv, Busy
  <1> QED
    BY <1>1, <1>2 DEF NodeEnd, SeedInv, Fresh, LoopAlive

\* A node that is dropped stops, with the end e at hand, if any.
LEMMA DropMove ==
  ASSUME SeedInv, NEW n \in Node, NEW how \in {"stopped", "failed"}, LoopAlive(n),
         NEW held, DropNode(n, how, held), opened' = opened, NEW e,
         \A f \in NodeEnd : f # e => held[f] = holders[f],
         \A f \in NodeEnd : f # e /\ Owner(f) = n => "loop" \notin holders[f],
         e \in NodeEnd => Owner(e) = n /\ holders[e] \in Single /\ held[e] = {"loop"}
  PROVE  Moves
  <1> DEFINE S == {e} \cap NodeEnd
  <1>1. \A k \in Node : loop'[k] = IF k = n THEN how ELSE loop[k]
    BY DEF DropNode, SeedInv, TypeOK
  <1>2. \A f \in NodeEnd : holders'[f] = IF Owner(f) = n THEN held[f] \ {"loop", "peer"}
                                                        ELSE held[f]
    BY DEF DropNode, NodeEnd
  <1>3. \A f \in NodeEnd : holders'[f] = IF f \in S THEN {}
                                         ELSE IF Owner(f) = n THEN holders[f] \ {"peer"}
                                         ELSE holders[f]
    BY <1>2
  <1>4. S \in AtMostOne
    BY DEF AtMostOne
  <1>5. \A f \in S : Owner(f) = n /\ holders[f] \in Single
    OBVIOUS
  <1> HIDE DEF S
  <1>6. Stops(n, S)
    BY <1>1, <1>3, <1>5 DEF Stops, LoopAlive
  <1> QED
    BY <1>4, <1>6 DEF Moves

\* That end is the one the loop is busy with, unless it was just taken up.
LEMMA DropAtHand ==
  ASSUME SeedInv, NEW n \in Node, NEW how \in {"stopped", "failed"}, LoopAlive(n),
         DropNode(n, how, holders), opened' = opened
  PROVE  Moves
  <1>1. \A f \in NodeEnd : f # current[n] /\ Owner(f) = n => "loop" \notin holders[f]
    BY DEF SeedInv, Held, NodeEnd
  <1>2. current[n] \in NodeEnd => /\ Owner(current[n]) = n /\ holders[current[n]] = {"loop"}
                                  /\ holders[current[n]] \in Single
    BY Ends DEF SeedInv, Busy, NodeEnd, Single
  <1> QED
    BY <1>1, <1>2, DropMove

\* The loop that dials opens a connection, or ends.
LEMMA ConnectMoves ==
  ASSUME SeedInv, NEW n \in Node, NEW c \in Conn, HandleConnect(n, c)
  PROVE  Moves
  <1>1. LoopAlive(n) /\ loop[n] = "running"
    BY DEF HandleConnect, Takes, LoopAlive
  <1>2. From[c] = n /\ c \notin opened
    <2>1. Has(events[n], Connect(c))
      BY RestOf DEF HandleConnect, SeedInv
    <2> QED
      BY <2>1 DEF SeedInv, Dials
  <1>3. CASE Open(c, "loop") /\ loop' = [loop EXCEPT ![n] = "greeting"]
    <2>1. SameLoops
      BY <1>1, <1>3 DEF SameLoops, LoopAlive, SeedInv, TypeOK
    <2>2. /\ holders' = [holders EXCEPT ![Out(c)] = {"loop"}, ![In(c)] = {"backlog"}]
          /\ opened' = opened \cup {c}
      BY <1>3 DEF Open
    <2>3. /\ holders'[Out(c)] = {"loop"} /\ holders'[In(c)] = {"backlog"}
          /\ \A f \in NodeEnd : f[1] # c => holders'[f] = holders[f]
      BY <2>2, Ends DEF SeedInv, TypeOK, NodeEnd
    <2>4. Opens(c)
      BY <1>1, <1>2, <2>1, <2>2, <2>3 DEF Opens
    <2> QED
      BY <2>4 DEF Moves
  <1>4. CASE DropNode(n, "failed", holders) /\ opened' = opened
    BY <1>1, <1>4, DropAtHand
  <1> QED
    BY <1>3, <1>4 DEF HandleConnect

\* The stream that was dialled is queued, or the loop ends.
LEMMA GreetMoves ==
  ASSUME SeedInv, NEW n \in Node, Greet(n)
  PROVE  Moves
  <1> DEFINE e == current[n]
  <1>1. e \in NodeEnd /\ e \in End /\ holders[e] = {"loop"} /\ LoopAlive(n) /\ opened' = opened
    BY AtHand DEF Greet
  <1>2. CASE holders' = HandOver(e, "loop", {"event"}) /\ Resume(n)
    <2>1. Moved(e, {"event"})
      BY <1>1, <1>2 DEF Moved, SameLoops, LoopAlive, HandOver, Resume, SeedInv, TypeOK, NodeEnd
    <2> QED
      BY <1>1, <2>1 DEF Moves, Hands, Single
  <1>3. CASE DropNode(n, "failed", holders)
    BY <1>1, <1>3, DropAtHand
  <1> QED
    BY <1>2, <1>3 DEF Greet

\* A queued stream is taken up, or the loop ends with it.
LEMMA ConnectedMoves ==
  ASSUME SeedInv, NEW n \in Node, NEW e \in End, HandleConnected(n, e)
  PROVE  Moves
  <1>1. Owner(e) = n /\ holders[e] = {"event"} /\ e \in NodeEnd
    <2>1. Has(events[n], Connected(e))
      BY RestOf DEF HandleConnected, SeedInv
    <2> QED
      BY <2>1 DEF SeedInv, Queued, NodeEnd
  <1>2. /\ LoopAlive(n) /\ loop[n] = "running" /\ opened' = opened
        /\ \A f \in End : HandOver(e, "event", {"loop"})[f] = IF f = e THEN {"loop"} ELSE holders[f]
    BY <1>1 DEF HandleConnected, Takes, LoopAlive, HandOver, SeedInv, TypeOK
  <1>3. CASE /\ holders' = HandOver(e, "event", {"loop"})
             /\ loop' = [loop EXCEPT ![n] = "reading"]
    <2>1. Moved(e, {"loop"})
      BY <1>1, <1>2, <1>3 DEF Moved, SameLoops, LoopAlive, SeedInv, TypeOK, NodeEnd
    <2> QED
      BY <1>1, <2>1 DEF Moves, Hands, Single
  <1>4. CASE DropNode(n, "failed", HandOver(e, "event", {"loop"}))
    <2> DEFINE held == HandOver(e, "event", {"loop"})
    <2>1. \A f \in NodeEnd : f # e /\ Owner(f) = n => "loop" \notin holders[f]
      BY <1>2, Ends DEF SeedInv, Busy, Held, NodeEnd
    <2>2. /\ \A f \in NodeEnd : f # e => held[f] = holders[f]
          /\ e \in NodeEnd => Owner(e) = n /\ holders[e] \in Single /\ held[e] = {"loop"}
      BY <1>1, <1>2 DEF NodeEnd, Single
    <2>3. DropNode(n, "failed", held) /\ opened' = opened /\ LoopAlive(n)
      BY <1>2, <1>4
    <2> HIDE DEF held
    <2> QED
      BY <2>1, <2>2, <2>3, DropMove
  <1> QED
    BY <1>3, <1>4 DEF HandleConnected

\* The stream at hand is given up.
LEMMA NotListedMoves ==
  ASSUME SeedInv, NEW n \in Node, NoHello(n) \/ Reject(n) \/ AddPeerUnlisted(n)
  PROVE  Moves
  <1> DEFINE e == current[n]
  <1>1. loop[n] = "reading" /\ holders' = Release(e, "loop") /\ Resume(n) /\ opened' = opened
    BY DEF NoHello, Reject, AddPeerUnlisted, Reads
  <1>2. e \in NodeEnd /\ e \in End /\ holders[e] = {"loop"}
    BY <1>1, AtHand
  <1>3. SameLoops
    BY <1>1 DEF SameLoops, LoopAlive, Resume, SeedInv, TypeOK
  <1>4. \A f \in NodeEnd : holders'[f] = IF f = e THEN {} ELSE holders[f]
    BY <1>1, <1>2 DEF Release, SeedInv, TypeOK, NodeEnd
  <1>5. Refuses({e})
    BY <1>1, <1>2, <1>3, <1>4 DEF Refuses, Single
  <1> QED
    BY <1>2, <1>5 DEF Moves

\* The stream at hand becomes a session: no other has its peer, which listens,
\* or has closed its end, if it was dialled.
LEMMA AddPeerMoves ==
  ASSUME SeedInv, NEW n \in Node, AddPeer(n)
  PROVE  Moves
  <1> DEFINE e == current[n]
  <1>1. /\ loop[n] = "reading" /\ inbox[e] # << >> /\ Head(inbox[e]) = "Hello"
        /\ peers[n][IdOf(e)] = NoEnd
        /\ holders' = HandOver(e, "loop", Session) /\ Resume(n) /\ opened' = opened
    BY DEF AddPeer, Reads, Session
  <1>2. /\ e \in NodeEnd /\ e \in End /\ Owner(e) = n /\ holders[e] = {"loop"} /\ LoopAlive(n)
    BY <1>1, AtHand
  <1> HIDE DEF e
  <1>3. Moved(e, Session)
    BY <1>1, <1>2 DEF Moved, SameLoops, LoopAlive, HandOver, Resume, SeedInv, TypeOK, NodeEnd
  <1>4. ASSUME NEW f \in NodeEnd, Owner(f) = Owner(e), IdOf(f) = IdOf(e)
        PROVE  "peer" \notin holders[f]
    <2>1. f \in End /\ f # NoEnd
      BY Ends DEF NodeEnd
    <2> QED
      BY <1>1, <1>2, <1>4, <2>1 DEF SeedInv, Held, NodeEnd
  <1>5. ASSUME NEW c \in Conn, e = Out(c), LoopAlive(To[c])
        PROVE  Listens(c)
    <2>1. From[c] \in Node
      BY <1>2, <1>5, Ends DEF NodeEnd
    <2>2. Has(inbox[e], "Hello")
      BY <1>1, <1>2, Taken DEF SeedInv, TypeOK
    <2> QED
      BY <1>2, <1>5, <2>1, <2>2 DEF SeedInv, Answered
  <1>6. Lists(e)
    BY <1>2, <1>3, <1>4, <1>5 DEF Lists, Single
  <1> QED
    BY <1>2, <1>6 DEF Moves

\* The loop fails or is terminated.
LEMMA LoopEndsMoves ==
  ASSUME SeedInv, NEW n \in Node, AddPeerFails(n) \/ HandleTerminate(n)
  PROVE  Moves
  <1>1. LoopAlive(n) /\ opened' = opened
    BY DEF AddPeerFails, HandleTerminate, Reads, Takes, LoopAlive
  <1>2. DropNode(n, "failed", holders) \/ DropNode(n, "stopped", holders)
    BY DEF AddPeerFails, HandleTerminate
  <1> QED
    BY <1>1, <1>2, DropAtHand

\* A peer that is listed is dropped.
LEMMA DisconnectMoves ==
  ASSUME SeedInv, NEW n \in Node, NEW id \in Id, HandleDisconnect(n, id)
  PROVE  Moves
  <1>1. SameLoops /\ opened' = opened
    BY DEF HandleDisconnect, SameLoops, LoopAlive
  <1>2. CASE holders' = holders
    BY <1>1, <1>2 DEF Moves, Rests
  <1>3. CASE peers[n][id] # NoEnd /\ holders' = Release(peers[n][id], "peer")
    <2>1. peers[n][id] \in NodeEnd /\ "peer" \in holders[peers[n][id]]
      BY <1>3 DEF SeedInv, Listed, TypeOK, NodeEnd
    <2>2. Moved(peers[n][id], holders[peers[n][id]] \ {"peer"})
      BY <1>1, <1>3, <2>1 DEF Moved, Release, SeedInv, TypeOK, NodeEnd
    <2> QED
      BY <2>1, <2>2 DEF Moves, Drops
  <1> QED
    BY <1>2, <1>3 DEF HandleDisconnect

LEMMA LoopMoves ==
  ASSUME SeedInv, NEW n \in Node, LoopStep(n)
  PROVE  Moves
  <1>1. CASE HandleNotice(n)
    BY <1>1 DEF HandleNotice, conn_vars, Moves, Rests, SameLoops, LoopAlive
  <1> QED
    BY <1>1, ConnectMoves, GreetMoves, ConnectedMoves, NotListedMoves, AddPeerMoves,
       LoopEndsMoves, DisconnectMoves DEF LoopStep

\* The listener queues a stream, or drops all that wait.
LEMMA AcceptMoves ==
  ASSUME LifeInv, NEW n \in Node, Accept(n)
  PROVE  Moves
  <1>1. SameLoops /\ opened' = opened
    BY DEF Accept, SameLoops, LoopAlive
  <1>2. CASE LoopAlive(n)
    <2> DEFINE c == Head(backlog[n])
    <2>1. backlog[n] # << >> /\ holders' = HandOver(In(c), "backlog", {"event"})
      BY <1>2 DEF Accept
    <2>2. c \in Conn /\ Has(backlog[n], c)
      BY <2>1, Taken DEF LifeInv, SeedInv, TypeOK
    <2> HIDE DEF c
    <2>3. holders[In(c)] = {"backlog"} /\ In(c) \in NodeEnd
      BY <2>2, Ends DEF LifeInv, SeedInv, Waiting, NodeEnd
    <2>4. Moved(In(c), {"event"})
      BY <1>1, <2>1, <2>3 DEF Moved, HandOver, LifeInv, SeedInv, TypeOK, NodeEnd
    <2> QED
      BY <2>3, <2>4 DEF Moves, Hands, Single
  <1>3. CASE ~LoopAlive(n)
    <2> DEFINE S == {f \in NodeEnd : Owner(f) = n /\ "backlog" \in holders[f]}
    <2>1. \A f \in NodeEnd : holders'[f] = IF Owner(f) = n THEN holders[f] \ {"backlog"}
                                                          ELSE holders[f]
      BY <1>3 DEF Accept, NodeEnd
    <2>2. \A f \in S : holders[f] = {"backlog"}
      BY DEF LifeInv, Staged, Single, Sessions, Session
    <2>3. Refuses(S)
      BY <1>1, <1>3, <2>1, <2>2 DEF Refuses, Single
    <2>4. S \in SUBSET NodeEnd
      OBVIOUS
    <2> QED
      BY <2>3, <2>4 DEF Moves
  <1> QED
    BY <1>2, <1>3

\* A dropped node's channel is freed with the streams in it.
LEMMA FreeChannelMoves ==
  ASSUME LifeInv, NEW n \in Node, FreeChannel(n)
  PROVE  Moves
  <1>1. SameLoops /\ opened' = opened /\ ~LoopAlive(n)
    BY DEF FreeChannel, SameLoops, LoopAlive
  <1> DEFINE S == {f \in NodeEnd : Owner(f) = n /\ "event" \in holders[f]}
  <1>2. \A f \in NodeEnd : holders'[f] = IF Owner(f) = n THEN holders[f] \ {"event"}
                                                        ELSE holders[f]
    BY DEF FreeChannel, NodeEnd
  <1>3. \A f \in S : holders[f] = {"event"}
    BY DEF LifeInv, Staged, Single, Sessions, Session
  <1>4. Refuses(S)
    BY <1>1, <1>2, <1>3 DEF Refuses, Single
  <1>5. S \in SUBSET NodeEnd
    OBVIOUS
  <1> QED
    BY <1>4, <1>5 DEF Moves

\* What a node reads from a node can be read.
LEMMA NodesReadable ==
  ASSUME LifeInv, NEW e \in NodeEnd, IdOf(e) \in Node, Unreadable(e)
  PROVE  Closed(Other(e))
  <1>1. \A m : Has(inbox[e], m) => m = "Hello"
    <2>1. PICK c \in Conn : e = In(c) \/ e = Out(c)
      BY Ends DEF NodeEnd
    <2>2. CASE e = In(c)
      <3>1. From[c] \in Node
        BY <2>2, Ends DEF IdOf
      <3> QED
        BY <2>2, <3>1 DEF LifeInv, SeedInv, Greeted
    <2>3. CASE e = Out(c)
      BY <2>3 DEF LifeInv, HelloBack
    <2> QED
      BY <2>1, <2>2, <2>3
  <1>2. inbox[e] \in Seq(Incoming)
    BY DEF LifeInv, SeedInv, TypeOK, NodeEnd
  <1> QED
    BY <1>1, <1>2, Taken, Messages DEF Unreadable

\* A thread of a peer ends, or goes on.
LEMMA ThreadMoves ==
  ASSUME LifeInv, NEW e \in End, ThreadStep(e)
  PROVE  Moves
  <1>1. SameLoops /\ opened' = opened
    BY DEF ThreadStep, Receive, ReceiveFails, SenderDropped, SameLoops, LoopAlive
  <1>2. CASE holders' = holders
    BY <1>1, <1>2 DEF Moves, Rests
  <1>3. ASSUME NEW who, holders' = [holders EXCEPT ![e] = @ \ {who}]
        PROVE  IF e \in NodeEnd THEN Moved(e, holders[e] \ {who}) ELSE Rests
    BY <1>1, <1>3 DEF Moved, Rests, LifeInv, SeedInv, TypeOK, NodeEnd
  <1>4. CASE Receive(e) /\ ~LoopAlive(Owner(e))
    <2>1. "recv" \in holders[e] /\ holders' = [holders EXCEPT ![e] = @ \ {"recv"}]
      BY <1>4 DEF Receive, EndThread
    <2>2. CASE e \in NodeEnd
      BY <1>3, <1>4, <2>1, <2>2 DEF Moves, RecvEnds
    <2> QED
      BY <1>3, <2>1, <2>2 DEF Moves
  <1>5. CASE ReceiveFails(e)
    BY <1>3, <1>5, NodesReadable DEF ReceiveFails, EndThread, Moves, RecvEnds
  <1>6. CASE SenderDropped(e)
    BY <1>3, <1>6 DEF SenderDropped, EndThread, Moves, SendEnds
  <1> QED
    BY <1>2, <1>4, <1>5, <1>6 DEF ThreadStep, Receive

\* Other peers open connections; what else they do is no move of a node.
LEMMA RemoteMoves ==
  ASSUME SeedInv, NEW c \in Conn, RemoteStep(c)
  PROVE  Moves
  <1>1. SameLoops
    BY DEF RemoteStep, RemoteConnects, RemoteSends, RemoteCloses, node_vars, SameLoops, LoopAlive
  <1>2. CASE RemoteConnects(c)
    <2>1. /\ c \notin opened /\ opened' = opened \cup {c} /\ From[c] \notin Node
          /\ holders' = [holders EXCEPT ![Out(c)] = {"remote"}, ![In(c)] = {"backlog"}]
      BY <1>2, Ends DEF RemoteConnects
    <2>2. /\ holders'[In(c)] = {"backlog"}
          /\ \A f \in NodeEnd : f[1] # c => holders'[f] = holders[f]
      BY <2>1, Ends DEF SeedInv, TypeOK, NodeEnd
    <2> QED
      BY <1>1, <2>1, <2>2 DEF Moves, Opens
  <1>3. CASE \E m \in Incoming : RemoteSends(c, m)
    BY <1>1, <1>3 DEF RemoteSends, Moves, Rests
  <1>4. CASE RemoteCloses(c)
    <2>1. From[c] \notin Node /\ opened' = opened
      BY <1>4, Ends DEF SeedInv, Foreign, RemoteCloses
    <2>2. \A f \in NodeEnd : holders'[f] = holders[f]
      BY <1>4, <2>1, Ends DEF RemoteCloses, SeedInv, TypeOK, NodeEnd
    <2> QED
      BY <1>1, <2>1, <2>2 DEF Moves, Rests
  <1> QED
    BY <1>2, <1>3, <1>4 DEF RemoteStep

LEMMA NextMoves == LifeInv /\ [Next]_vars => Moves
  <1> SUFFICES ASSUME LifeInv, [Next]_vars PROVE Moves
    OBVIOUS
  <1>1. SeedInv
    BY DEF LifeInv
  <1>2. ASSUME NEW n \in Node, NEW ev \in Event, Command(n, ev) PROVE Moves
    BY <1>2 DEF Command, conn_vars, Moves, Rests, SameLoops, LoopAlive
  <1>3. CASE UNCHANGED vars
    BY <1>3 DEF vars, node_vars, conn_vars, Moves, Rests, SameLoops, LoopAlive
  <1> QED
    BY <1>1, <1>2, <1>3, LoopMoves, AcceptMoves, FreeChannelMoves, ThreadMoves, RemoteMoves
       DEF Next
-----------------------------------------------------------------------------
(* What moves keep.                                                        *)

LEMMA InitLife == Init => Staged /\ HelloBack /\ Deaf
  BY Ends, Emptied DEF Init, SeedInit, Staged, Sessions, Session, HelloBack, Deaf, NodeEnd

\* A closed end stays closed, and a node that returned has.
LEMMA StaysClosed ==
  ASSUME LifeInv, Moves
  PROVE  /\ \A e \in NodeEnd : Closed(e) => Closed(e)'
         /\ \A n \in Node : ~LoopAlive(n) => ~LoopAlive(n)'
  <1>1. \A e \in NodeEnd : e \in End /\ (holders[e] # {} => e[1] \in opened)
    BY DEF NodeEnd, LifeInv, SeedInv, Fresh
  <1>2. {} \notin Single
    BY DEF Single
  <1> QED
    BY <1>1, <1>2
       DEF Moves, Rests, Opens, Hands, Lists, Refuses, Drops, SendEnds, RecvEnds, Stops, Moved,
           SameLoops, Closed

\* Ends keep to their stages.
LEMMA StagedKept ==
  ASSUME LifeInv, Moves
  PROVE  Staged'
  <1>1. Staged
    BY DEF LifeInv
  <1>2. /\ \A S \in Sessions : S \ {"send"} \in Sessions \/ "peer" \in S
        /\ \A S \in Sessions : S \ {"peer"} \in Sessions /\ S \ {"recv"} \in Sessions
        /\ {} \in Sessions /\ Session \in Sessions
    BY DEF Sessions, Session
  <1>3. /\ \A S \in Single : "peer" \notin S /\ "send" \notin S /\ "recv" \notin S
    BY DEF Single
  <1> SUFFICES ASSUME NEW e \in NodeEnd PROVE holders'[e] \in Single \cup Sessions
    BY DEF Staged, NodeEnd, End, Owner
  <1>4. CASE holders'[e] = holders[e]
    BY <1>1, <1>4 DEF Staged
  <1>5. ASSUME NEW c \in Conn, Opens(c) PROVE holders'[e] \in Single \cup Sessions
    <2>1. e = Out(e[1]) \/ e = In(e[1])
      BY Ends DEF NodeEnd
    <2>2. CASE e[1] = c /\ e = Out(c)
      BY <1>5, <2>2, Ends DEF Opens, NodeEnd, Single
    <2>3. CASE e[1] = c /\ e = In(c)
      BY <1>5, <2>3 DEF Opens, Single
    <2>4. CASE e[1] # c
      BY <1>5, <2>4, <1>4 DEF Opens
    <2> QED
      BY <2>1, <2>2, <2>3, <2>4
  <1>6. ASSUME NEW f \in NodeEnd, Hands(f) \/ Lists(f) \/ Drops(f) \/ SendEnds(f) \/ RecvEnds(f)
        PROVE  holders'[e] \in Single \cup Sessions
    BY <1>1, <1>2, <1>3, <1>6 DEF Hands, Lists, Drops, SendEnds, RecvEnds, Moved, Staged
  <1>7. ASSUME NEW S \in SUBSET NodeEnd, Refuses(S) PROVE holders'[e] \in Single \cup Sessions
    BY <1>2, <1>4, <1>7 DEF Refuses
  <1>8. ASSUME NEW n \in Node, NEW S \in AtMostOne, Stops(n, S)
        PROVE  holders'[e] \in Single \cup Sessions
    <2>1. holders[e] \in Single => holders[e] \ {"peer"} = holders[e]
      BY <1>3
    <2>2. holders'[e] \in {{}, holders[e], holders[e] \ {"peer"}}
      BY <1>8 DEF Stops
    <2> QED
      BY <1>1, <1>2, <2>1, <2>2 DEF Staged
  <1> QED
    BY <1>4, <1>5, <1>6, <1>7, <1>8 DEF Moves, Rests

\* A receive thread ends only with the other end, or after its node.
LEMMA DeafKept ==
  ASSUME LifeInv, Moves
  PROVE  Deaf'
  <1> SUFFICES ASSUME NEW e \in NodeEnd, IdOf(e) \in Node,
                      holders'[e] \in Sessions \ {{}}, "recv" \notin holders'[e]
               PROVE  Closed(Other(e))' \/ ~LoopAlive(Owner(e))'
    BY DEF Deaf, NodeEnd, End, Owner, IdOf, Other, In, Out
  <1>0. Other(e) \in NodeEnd /\ Owner(e) \in Node
    BY Ends DEF NodeEnd, IdOf
  <1> SUFFICES Closed(Other(e)) \/ ~LoopAlive(Owner(e))
    BY <1>0, StaysClosed
  <1>1. /\ holders[e] \in Single \cup Sessions
        /\ holders[e] \in Sessions \ {{}} /\ "recv" \notin holders[e]
             => Closed(Other(e)) \/ ~LoopAlive(Owner(e))
    BY DEF LifeInv, Staged, Deaf
  <1>2. \A S \in Single : /\ S \notin Sessions
                          /\ S \ {"peer"} = S
    BY DEF Single, Sessions, Session
  <1>3. CASE holders'[e] = holders[e]
    BY <1>1, <1>3
  <1>4. ASSUME NEW c \in Conn, Opens(c) PROVE Closed(Other(e)) \/ ~LoopAlive(Owner(e))
    <2>1. e = Out(e[1]) \/ e = In(e[1])
      BY Ends DEF NodeEnd
    <2>2. CASE e[1] = c /\ e = Out(c)
      <3>1. Owner(Out(c)) = From[c] /\ Owner(e) \in Node
        BY Ends DEF NodeEnd
      <3>2. holders'[e] = {"loop"}
        BY <1>4, <2>2, <3>1 DEF Opens
      <3> QED
        BY <1>2, <3>2 DEF Single
    <2>3. CASE e[1] = c /\ e = In(c)
      BY <1>2, <1>4, <2>3 DEF Opens, Single
    <2>4. CASE e[1] # c
      BY <1>3, <1>4, <2>4 DEF Opens
    <2> QED
      BY <2>1, <2>2, <2>3, <2>4
  <1>5. ASSUME NEW f \in NodeEnd, Hands(f) \/ Lists(f)
        PROVE  Closed(Other(e)) \/ ~LoopAlive(Owner(e))
    BY <1>2, <1>3, <1>5 DEF Hands, Lists, Moved, Session
  <1>6. ASSUME NEW f \in NodeEnd, Drops(f) \/ SendEnds(f)
        PROVE  Closed(Other(e)) \/ ~LoopAlive(Owner(e))
    <2>1. CASE f = e
      <3>1. holders[e] # {} /\ "recv" \notin holders[e] /\ holders[e] \notin Single
        BY <1>6, <2>1 DEF Drops, SendEnds, Moved, Single
      <3> QED
        BY <1>1, <3>1
    <2> QED
      BY <1>3, <1>6, <2>1 DEF Drops, SendEnds, Moved
  <1>7. ASSUME NEW f \in NodeEnd, RecvEnds(f)
        PROVE  Closed(Other(e)) \/ ~LoopAlive(Owner(e))
    BY <1>3, <1>7 DEF RecvEnds, Moved
  <1>8. ASSUME NEW S \in SUBSET NodeEnd, Refuses(S)
        PROVE  Closed(Other(e)) \/ ~LoopAlive(Owner(e))
    BY <1>3, <1>8 DEF Refuses
  <1>9. ASSUME NEW n \in Node, NEW S \in AtMostOne, Stops(n, S)
        PROVE  Closed(Other(e)) \/ ~LoopAlive(Owner(e))
    <2>1. CASE Owner(e) = n
      <3>1. holders'[e] = {} \/ holders'[e] = holders[e] \ {"peer"}
        BY <1>9, <2>1 DEF Stops
      <3>2. holders[e] \in Sessions \ {{}} /\ "recv" \notin holders[e]
        BY <1>1, <1>2, <3>1
      <3> QED
        BY <1>1, <3>2
    <2>2. CASE Owner(e) # n
      BY <1>3, <1>9, <2>2 DEF Stops
    <2> QED
      BY <2>1, <2>2
  <1> QED
    BY <1>3, <1>4, <1>5, <1>6, <1>7, <1>8, <1>9 DEF Moves, Rests

\* What is said over a connection is said by those at its ends.
LEMMA HelloBackKept ==
  ASSUME LifeInv, [Next]_vars
  PROVE  HelloBack'
  <1> SUFFICES ASSUME NEW c \in Conn, NEW m, Has(inbox'[Out(c)], m)
               PROVE  m = "Hello"
    BY DEF HelloBack, Out
  <1> DEFINE e == Out(c)
             Same == inbox'[e] = inbox[e]
             Read == inbox[e] # << >> /\ inbox'[e] = Tail(inbox[e])
             Said == inbox'[e] = Append(inbox[e], "Hello")
  <1>1. /\ inbox \in [End -> Seq(Incoming)] /\ inbox[e] \in Seq(Incoming) /\ e \in End
        /\ \A x : Has(inbox[e], x) => x = "Hello"
    BY Ends DEF LifeInv, SeedInv, TypeOK, HelloBack
  <1>0. Has(inbox'[e], m)
    OBVIOUS
  <1> HIDE DEF e
  <1>2. CASE Same \/ Read \/ Said \/ inbox'[e] = << >>
    <2>1. CASE Same
      BY <1>0, <1>1, <2>1
    <2>2. CASE Read
      BY <1>0, <1>1, <2>2, Taken
    <2>3. CASE Said
      BY <1>0, <1>1, <2>3, Appended, Messages
    <2>4. CASE inbox'[e] = << >>
      BY <1>0, <2>4, Emptied
    <2> QED
      BY <1>2, <2>1, <2>2, <2>3, <2>4
  <1> HIDE DEF Same, Read, Said
  <1>3. ASSUME NEW n \in Node, LoopStep(n) PROVE Same \/ Read \/ Said
    <2>1. ASSUME Reject(n) PROVE Same \/ Read
      <3>1. inbox[current[n]] # << >> /\ inbox' = [inbox EXCEPT ![current[n]] = Tail(@)]
        BY <2>1 DEF Reject, Reads
      <3> QED
        BY <1>1, <3>1 DEF Same, Read
    <2>2. ASSUME AddPeer(n) \/ AddPeerUnlisted(n) \/ AddPeerFails(n) PROVE Same \/ Read \/ Said
      <3>1. /\ loop[n] = "reading" /\ inbox[current[n]] # << >>
            /\ inbox' = [inbox EXCEPT ![current[n]] = Tail(@),
                  ![Other(current[n])] =
                     IF Closed(Other(current[n])) THEN @ ELSE Append(@, "Hello")]
        BY <2>2 DEF AddPeer, AddPeerUnlisted, AddPeerFails, AnswersHello, Reads
      <3>2. current[n] \in End /\ Other(current[n]) # current[n] /\ Other(current[n]) \in End
        BY <3>1, AtHand, Ends DEF LifeInv
      <3> QED
        BY <1>1, <3>1, <3>2 DEF Same, Read, Said
    <2>3. ASSUME Greet(n) PROVE Same \/ Said
      <3>1. inbox' = inbox \/ inbox' = [inbox EXCEPT ![Other(current[n])] = Append(@, "Hello")]
        BY <2>3 DEF Greet, SaysHello, HelloFails
      <3> QED
        BY <1>1, <3>1 DEF Same, Said
    <2>4. ASSUME inbox' = inbox PROVE Same
      BY <2>4 DEF Same
    <2> QED
      BY <1>3, <2>1, <2>2, <2>3, <2>4
         DEF LoopStep, HandleConnect, HandleConnected, NoHello, HandleDisconnect, HandleNotice,
             HandleTerminate, conn_vars
  <1>4. ASSUME NEW n \in Node, Accept(n) \/ FreeChannel(n) PROVE Same
    BY <1>4 DEF Accept, FreeChannel, Same
  <1>5. ASSUME NEW f \in End, ThreadStep(f) PROVE Same \/ Read
    BY <1>1, <1>5 DEF ThreadStep, Receive, ReceiveFails, SenderDropped, Same, Read
  <1>6. ASSUME NEW n \in Node, NEW ev \in Event, Command(n, ev) PROVE Same
    BY <1>6 DEF Command, conn_vars, Same
  <1>7. ASSUME NEW d \in Conn, RemoteStep(d) PROVE Same \/ inbox'[e] = << >>
    <2>1. In(d) # e /\ In(d) \in End /\ Out(d) \in End
      BY Ends DEF e
    <2>2. ASSUME NEW x \in Incoming, RemoteSends(d, x) PROVE Same
      BY <1>1, <2>1, <2>2 DEF RemoteSends, Same
    <2>3. ASSUME RemoteCloses(d) PROVE Same \/ inbox'[e] = << >>
      <3>1. CASE inbox' = [inbox EXCEPT ![Out(d)] = << >>]
        BY <1>1, <2>1, <3>1 DEF Same
      <3>2. CASE inbox' = [inbox EXCEPT ![Out(d)] = << >>, ![In(d)] = << >>]
        BY <1>1, <2>1, <3>2 DEF Same
      <3> QED
        BY <2>3, <3>1, <3>2 DEF RemoteCloses
    <2>4. ASSUME RemoteConnects(d) PROVE Same
      BY <2>4 DEF RemoteConnects, Same
    <2> QED
      BY <1>7, <2>2, <2>3, <2>4 DEF RemoteStep
  <1>8. ASSUME UNCHANGED vars PROVE Same
    BY <1>8 DEF vars, node_vars, conn_vars, Same
  <1> QED
    BY <1>2, <1>3, <1>4, <1>5, <1>6, <1>7, <1>8 DEF Next

LEMMA NextLife == LifeInv /\ [Next]_vars => LifeInv'
  BY NextSeed, NextMoves, StagedKept, DeafKept, HelloBackKept DEF LifeInv
-----------------------------------------------------------------------------
(* Moves as steps of Connections.                                          *)

\* The ends and peers of Connections are those of the network.
LEMMA SameEnds ==
  /\ Life!End = NodeEnd
  /\ \A e \in End : /\ Life!Owner(e) = Owner(e) /\ Life!Other(e) = Other(e)
                    /\ Life!Peer(e) = IdOf(e)
  <1>1. \A e \in End : Life!Owner(e) = Owner(e) /\ Life!Other(e) = Other(e)
    BY DEF Life!Owner, Owner, Life!Other, Other, Out, In, End
  <1>2. \A e \in End : Life!Peer(e) = IdOf(e)
    BY <1>1, Ends DEF Life!Peer, IdOf
  <1>3. Life!End = NodeEnd
    BY <1>1 DEF Life!End, NodeEnd, End
  <1> QED
    BY <1>1, <1>2, <1>3

\* The stage of an end, by who holds it.
LEMMA Stages ==
  ASSUME LifeInv, NEW e \in NodeEnd
  PROVE  /\ e[1] \notin opened <=> Stage(e) = "new"
         /\ e[1] \notin opened => holders[e] = {}
         /\ holders[e] \in Single <=> Stage(e) = "waiting"
         /\ "peer" \in holders[e] <=> Stage(e) = "listed"
         /\ holders[e] \in Sessions \ {{}} /\ "peer" \notin holders[e] <=> Stage(e) = "ending"
         /\ Closed(e) <=> Stage(e) = "closed"
  <1>1. /\ holders[e] \in Single \cup Sessions
        /\ e[1] \notin opened => holders[e] = {}
    BY DEF LifeInv, Staged, SeedInv, Fresh, NodeEnd
  <1>2. CASE e[1] \notin opened
    BY <1>1, <1>2 DEF Stage, Closed, Single, Sessions
  <1>3. CASE e[1] \in opened /\ holders[e] = {}
    BY <1>1, <1>3 DEF Stage, Closed, Single, Sessions
  <1>4. CASE e[1] \in opened /\ holders[e] \in Single
    BY <1>1, <1>4 DEF Stage, Closed, Single, Sessions, Session
  <1>5. CASE e[1] \in opened /\ holders[e] \in Sessions \ {{}}
    <2>1. holders[e] \cap {"backlog", "event", "loop"} = {} /\ holders[e] \notin Single
      BY <1>5 DEF Single, Sessions, Session
    <2> QED
      BY <1>5, <2>1 DEF Stage, Closed
  <1> QED
    BY <1>1, <1>2, <1>3, <1>4, <1>5

\* What a step that changes the stage of one end leaves.
LEMMA OneStage ==
  ASSUME NEW e \in NodeEnd, \A f \in NodeEnd : f # e => Stage(f)' = Stage(f), SameLoops
  PROVE  /\ [f \in NodeEnd |-> Stage(f)]' = [[f \in NodeEnd |-> Stage(f)] EXCEPT ![e] = Stage(e)']
         /\ {n \in Node : LoopAlive(n)}' = {n \in Node : LoopAlive(n)}
  BY DEF SameLoops, NodeEnd, End, Owner
\* A step of Connections, or none.
Step == [Life!Next]_(Life!vars)

\* Nothing changes its stage.
LEMMA NoStage ==
  ASSUME \A f \in NodeEnd : Stage(f)' = Stage(f), SameLoops
  PROVE  UNCHANGED Life!vars
  BY DEF Life!vars, SameLoops, NodeEnd, End, Owner

\* A connection is opened.
LEMMA OpensLife ==
  ASSUME LifeInv, LifeInv', NEW c \in Conn, Opens(c)
  PROVE  Life!Open(c)
  <1>1. ASSUME NEW f \in NodeEnd, f[1] = c
        PROVE  Stage(f) = "new" /\ Stage(f)' = "waiting"
    <2>1. f[1] \notin opened /\ f[1] \in opened'
      BY <1>1 DEF Opens
    <2>2. f = Out(c) \/ f = In(c)
      BY <1>1, Ends DEF NodeEnd
    <2>3. f = Out(c) => From[c] \in Node
      BY Ends DEF NodeEnd
    <2>4. holders'[f] = {"loop"} \/ holders'[f] = {"backlog"}
      BY <2>2, <2>3 DEF Opens
    <2>5. /\ holders'[f] # {} /\ "peer" \notin holders'[f]
          /\ holders'[f] \cap {"backlog", "event", "loop"} # {}
      BY <2>4
    <2>6. Stage(f)' = "waiting"
      BY <2>1, <2>5 DEF Stage
    <2> QED
      BY <2>1, <2>6 DEF Stage
  <1>2. ASSUME NEW f \in NodeEnd, f[1] # c
        PROVE  Stage(f)' = Stage(f)
    BY <1>2 DEF Opens, Stage
  <1>3. UNCHANGED {n \in Node : LoopAlive(n)}
    BY DEF Opens, SameLoops
  <1>4. [e \in NodeEnd |-> Stage(e)]' =
          [e \in NodeEnd |-> IF e[1] = c THEN "waiting" ELSE [f \in NodeEnd |-> Stage(f)][e]]
    BY <1>1, <1>2 DEF NodeEnd, End, Owner
  <1>5. From[c] \in Node => From[c] \in {n \in Node : LoopAlive(n)}
    BY DEF Opens
  <1> QED
    BY <1>1, <1>3, <1>4, <1>5, SameEnds DEF Life!Open

\* An end is listed.
LEMMA ListsLife ==
  ASSUME LifeInv, LifeInv', NEW e \in NodeEnd, Lists(e)
  PROVE  Life!Admit(e)
  <1>1. Stage(e) = "waiting" /\ Stage(e)' = "listed"
    <2>1. Stage(e) = "waiting" /\ e[1] \in opened
      BY Stages DEF Lists, Single
    <2>2. opened' = opened /\ "peer" \in holders'[e]
      BY DEF Lists, Moved, Session
    <2> QED
      BY <2>1, <2>2 DEF Stage
  <1>2. \A f \in NodeEnd : f # e => Stage(f)' = Stage(f)
    BY DEF Lists, Moved, Stage
  <1>3. ASSUME NEW f \in NodeEnd, Owner(f) = Owner(e), IdOf(f) = IdOf(e)
        PROVE  Stage(f) # "listed"
    BY <1>3, Stages DEF Lists
  <1>4. ASSUME e[2] = "out", IdOf(e) \in {n \in Node : LoopAlive(n)}
        PROVE  /\ Other(e) \in NodeEnd
               /\ \/ Stage(Other(e)) \in {"listed", "ending"}
                  \/ Stage(Other(e)) = "closed" /\ IdOf(e) \in Starved
    <2>1. PICK c \in Conn : e = Out(c)
      BY <1>4, Ends DEF NodeEnd, In, Out, End
    <2>2. Other(e) = In(c) /\ Owner(In(c)) = To[c] /\ To[c] \in Node /\ In(c) \in NodeEnd
      BY <2>1, Ends DEF NodeEnd
    <2>3. IdOf(e) = To[c]
      BY <2>2 DEF IdOf
    <2>4. Listens(c)
      BY <1>4, <2>1, <2>3 DEF Lists
    <2>5. CASE "recv" \in holders[In(c)]
      <3>1. holders[In(c)] \in Single \cup Sessions
        BY <2>2 DEF LifeInv, Staged
      <3>2. holders[In(c)] \in Sessions \ {{}}
        BY <2>5, <3>1 DEF Single
      <3> QED
        BY <2>2, <3>2, Stages
    <2>6. CASE To[c] \in Starved /\ Closed(In(c))
      BY <2>2, <2>3, <2>6, Stages
    <2> QED
      BY <2>4, <2>5, <2>6 DEF Listens
  <1>5. e \in End /\ Owner(e) \in {n \in Node : LoopAlive(n)} /\ \A f \in NodeEnd : f \in End
    BY DEF NodeEnd, Lists
  <1>6. /\ [f \in NodeEnd |-> Stage(f)]' =
             [[f \in NodeEnd |-> Stage(f)] EXCEPT ![e] = "listed"]
        /\ UNCHANGED {n \in Node : LoopAlive(n)}
    BY <1>1, <1>2, OneStage DEF Lists, Moved
  <1> QED
    BY <1>1, <1>3, <1>4, <1>5, <1>6, SameEnds DEF Life!Admit

\* Ends that wait are given up.
LEMMA RefusesLife ==
  ASSUME LifeInv, NEW S \in SUBSET NodeEnd, Refuses(S)
  PROVE  Life!Refuse(S)
  <1>1. ASSUME NEW f \in S
        PROVE  /\ Stage(f) = "waiting" /\ Stage(f)' = "closed"
               /\ S = {f} \/ Owner(f) \notin {n \in Node : LoopAlive(n)}
    <2>1. holders[f] \in Single /\ (S = {f} \/ ~LoopAlive(Owner(f)))
      BY DEF Refuses
    <2>2. Stage(f) = "waiting" /\ f[1] \in opened
      BY <2>1, Stages DEF Single
    <2>3. f[1] \in opened' /\ holders'[f] = {}
      BY <2>2 DEF Refuses
    <2> QED
      BY <2>1, <2>2, <2>3 DEF Stage
  <1>2. ASSUME NEW f \in NodeEnd, f \notin S
        PROVE  Stage(f)' = Stage(f)
    BY <1>2 DEF Refuses, Stage
  <1>3. UNCHANGED {n \in Node : LoopAlive(n)}
    BY DEF Refuses, SameLoops
  <1>4. [e \in NodeEnd |-> Stage(e)]' =
          [e \in NodeEnd |-> IF e \in S THEN "closed" ELSE [f \in NodeEnd |-> Stage(f)][e]]
    BY <1>1, <1>2 DEF NodeEnd, End, Owner
  <1>5. \A f \in S : f \in NodeEnd /\ f \in End
    BY DEF NodeEnd
  <1> QED
    BY <1>1, <1>3, <1>4, <1>5, SameEnds DEF Life!Refuse

\* A listed peer is dropped.
LEMMA DropsLife ==
  ASSUME LifeInv, NEW e \in NodeEnd, Drops(e)
  PROVE  Life!Disconnect(e)
  <1>1. Stage(e) = "listed" /\ Stage(e)' = "ending"
    <2>1. /\ Stage(e) = "listed" /\ holders[e] \notin Single
          /\ e[1] \in opened /\ opened' = opened /\ holders'[e] = holders[e] \ {"peer"}
      BY Stages DEF Drops, Moved, Single
    <2>2. holders[e] \in Sessions
      BY <2>1 DEF LifeInv, Staged
    <2>3. "send" \in holders'[e] /\ holders'[e] \cap {"backlog", "event", "loop"} = {}
      BY <2>1, <2>2 DEF Sessions, Session, Drops
    <2> QED
      BY <2>1, <2>3 DEF Stage
  <1>2. \A f \in NodeEnd : f # e => Stage(f)' = Stage(f)
    BY DEF Drops, Moved, Stage
  <1>3. /\ [f \in NodeEnd |-> Stage(f)]' =
             [[f \in NodeEnd |-> Stage(f)] EXCEPT ![e] = "ending"]
        /\ UNCHANGED {n \in Node : LoopAlive(n)}
    BY <1>1, <1>2, OneStage DEF Drops, Moved
  <1> QED
    BY <1>1, <1>3 DEF Life!Disconnect

\* A thread ends: the end is closed if it was the last.
LEMMA ThreadLife ==
  ASSUME LifeInv, NEW e \in NodeEnd, SendEnds(e) \/ RecvEnds(e)
  PROVE  Life!Close(e) \/ UNCHANGED Life!vars
  <1>1. \A f \in NodeEnd : f # e => Stage(f)' = Stage(f)
    BY DEF SendEnds, RecvEnds, Moved, Stage
  <1>2. /\ SameLoops /\ opened' = opened /\ e[1] \in opened
        /\ holders[e] \in Sessions \ {{}}
        /\ holders'[e] = holders[e] \ {"send"} \/ holders'[e] = holders[e] \ {"recv"}
        /\ "peer" \in holders'[e] <=> "peer" \in holders[e]
    <2>1. holders[e] # {} /\ holders[e] \notin Single
      BY DEF SendEnds, RecvEnds, Single
    <2>2. e[1] \in opened /\ holders[e] \in Sessions
      BY <2>1, Stages DEF LifeInv, Staged
    <2> QED
      BY <2>1, <2>2 DEF SendEnds, RecvEnds, Moved
  <1>3. CASE "peer" \in holders[e] \/ holders'[e] # {}
    <2>1. Stage(e)' = Stage(e)
      <3>1. CASE "peer" \in holders[e]
        BY <1>2, <3>1 DEF Stage
      <3>2. CASE "peer" \notin holders[e] /\ holders'[e] # {}
        BY <1>2, <3>2 DEF Stage, Sessions, Session
      <3> QED
        BY <1>3, <3>1, <3>2
    <2> QED
      BY <1>1, <1>2, <2>1, NoStage
  <1>4. CASE "peer" \notin holders[e] /\ holders'[e] = {}
    <2>1. Stage(e) = "ending" /\ Stage(e)' = "closed"
      <3>1. Stage(e) = "ending"
        BY <1>2, <1>4, Stages
      <3> QED
        BY <1>2, <1>4, <3>1 DEF Stage
    <2>2. ASSUME LoopAlive(Owner(e)), IdOf(e) \in Node
          PROVE  Other(e) \in NodeEnd /\ Stage(Other(e)) = "closed"
      <3>1. Other(e) \in NodeEnd
        BY <2>2, Ends DEF NodeEnd, IdOf
      <3>2. CASE RecvEnds(e)
        BY <2>2, <3>1, <3>2, Stages DEF RecvEnds
      <3>3. CASE SendEnds(e)
        <4>1. "recv" \notin holders[e]
          BY <1>4, <3>3 DEF SendEnds, Moved
        <4> QED
          BY <1>2, <2>2, <3>1, <4>1, Stages DEF LifeInv, Deaf
      <3> QED
        BY <3>1, <3>2, <3>3
    <2>3. /\ [f \in NodeEnd |-> Stage(f)]' =
               [[f \in NodeEnd |-> Stage(f)] EXCEPT ![e] = "closed"]
          /\ UNCHANGED {n \in Node : LoopAlive(n)}
      BY <1>1, <1>2, <2>1, OneStage
    <2>4. e \in End
      BY DEF NodeEnd
    <2> QED
      BY <2>1, <2>2, <2>3, <2>4, SameEnds DEF Life!Close
  <1> QED
    BY <1>3, <1>4

\* A node returns: its peers are dropped, and the end at hand.
LEMMA StopsLife ==
  ASSUME LifeInv, NEW n \in Node, NEW S \in AtMostOne, Stops(n, S)
  PROVE  Life!Stop(n, S)
  <1>1. S \subseteq NodeEnd /\ \A f \in NodeEnd : f \in End
    BY DEF AtMostOne, NodeEnd
  <1>2. ASSUME NEW f \in S
        PROVE  Owner(f) = n /\ Stage(f) = "waiting" /\ Stage(f)' = "closed"
    <2>1. f \in NodeEnd /\ Owner(f) = n /\ holders[f] \in Single
      BY <1>1 DEF Stops
    <2>2. Stage(f) = "waiting" /\ f[1] \in opened
      BY <2>1, Stages DEF Single
    <2>3. f[1] \in opened' /\ holders'[f] = {}
      BY <2>1, <2>2 DEF Stops
    <2> QED
      BY <2>1, <2>2, <2>3 DEF Stage
  <1>3. ASSUME NEW f \in NodeEnd, Owner(f) = n, Stage(f) = "listed"
        PROVE  f \notin S /\ Stage(f)' = "ending"
    <2>1. "peer" \in holders[f] /\ f[1] \in opened /\ opened' = opened
      BY <1>3, Stages DEF Stops
    <2>2. holders[f] \in Sessions /\ holders[f] \notin Single
      BY <2>1 DEF LifeInv, Staged, Single
    <2>3. f \notin S /\ holders'[f] = holders[f] \ {"peer"}
      BY <1>3, <2>2 DEF Stops
    <2>4. /\ "send" \in holders'[f] /\ "peer" \notin holders'[f]
          /\ holders'[f] \cap {"backlog", "event", "loop"} = {}
      BY <2>1, <2>2, <2>3 DEF Sessions, Session
    <2> QED
      BY <2>1, <2>3, <2>4 DEF Stage
  <1>4. ASSUME NEW f \in NodeEnd, f \notin S, Owner(f) # n \/ Stage(f) # "listed"
        PROVE  Stage(f)' = Stage(f)
    <2>1. holders'[f] = holders[f]
      <3>1. "peer" \in holders[f] => Stage(f) = "listed"
        BY Stages
      <3> QED
        BY <1>4, <3>1 DEF Stops
    <2> QED
      BY <2>1 DEF Stage, Stops
  <1>5. /\ n \in {k \in Node : LoopAlive(k)}
        /\ {k \in Node : LoopAlive(k)}' = {k \in Node : LoopAlive(k)} \ {n}
    BY DEF Stops
  <1>6. [e \in NodeEnd |-> Stage(e)]' =
          [e \in NodeEnd |-> IF e \in S THEN "closed"
                             ELSE IF Owner(e) = n /\ [f \in NodeEnd |-> Stage(f)][e] = "listed"
                             THEN "ending"
                             ELSE [f \in NodeEnd |-> Stage(f)][e]]
    <2>1. \A e \in NodeEnd : Stage(e)' = IF e \in S THEN "closed"
                                         ELSE IF Owner(e) = n /\ Stage(e) = "listed"
                                         THEN "ending" ELSE Stage(e)
      BY <1>2, <1>3, <1>4
    <2> QED
      BY <2>1 DEF NodeEnd, End, Owner
  <1>7. \A e \in NodeEnd : Life!Owner(e) = Owner(e)
    BY <1>1, SameEnds
  <1> QED
    BY <1>1, <1>2, <1>5, <1>6, <1>7, SameEnds DEF Life!Stop

\* Every move of the network is a step of Connections, or none.
LEMMA NextLifeStep ==
  ASSUME LifeInv, LifeInv', [Next]_vars
  PROVE  Step
  <1>1. Moves
    BY NextMoves
  <1>2. CASE Rests
    <2>1. \A f \in NodeEnd : Stage(f)' = Stage(f)
      BY <1>2 DEF Rests, Stage
    <2> QED
      BY <1>2, <2>1, NoStage DEF Rests, Step
  <1>3. ASSUME NEW e \in NodeEnd, Hands(e) PROVE UNCHANGED Life!vars
    <2>1. \A f \in NodeEnd : f # e => Stage(f)' = Stage(f)
      BY <1>3 DEF Hands, Moved, Stage
    <2>2. Stage(e)' = Stage(e)
      <3>1. holders[e] \in Single /\ holders'[e] \in Single /\ opened' = opened
        BY <1>3 DEF Hands, Moved
      <3>2. Stage(e) = "waiting" /\ e[1] \in opened
        BY <3>1, Stages DEF Single
      <3>3. /\ holders'[e] # {} /\ "peer" \notin holders'[e]
            /\ holders'[e] \cap {"backlog", "event", "loop"} # {}
        BY <3>1 DEF Single
      <3> QED
        BY <3>1, <3>2, <3>3 DEF Stage
    <2> QED
      BY <1>3, <2>1, <2>2, NoStage DEF Hands, Moved
  <1>4. ASSUME NEW c \in Conn, Opens(c) PROVE Step
    BY <1>4, OpensLife DEF Step, Life!Next
  <1>5. ASSUME NEW e \in NodeEnd, Lists(e) \/ Drops(e) \/ SendEnds(e) \/ RecvEnds(e)
        PROVE  Step
    <2>1. Life!Admit(e) \/ Life!Disconnect(e) \/ Life!Close(e) \/ UNCHANGED Life!vars
      BY <1>5, ListsLife, DropsLife, ThreadLife
    <2> QED
      BY <2>1, SameEnds DEF Step, Life!Next
  <1>6. ASSUME NEW S \in SUBSET NodeEnd, Refuses(S) PROVE Step
    <2>1. Life!Refuse(S)
      BY <1>6, RefusesLife
    <2> QED
      BY <2>1, SameEnds DEF Step, Life!Next
  <1>7. ASSUME NEW n \in Node, NEW S \in AtMostOne, Stops(n, S) PROVE Step
    <2>1. Life!Stop(n, S)
      BY <1>7, StopsLife
    <2>2. S \in {{}} \cup {{e} : e \in Life!End}
      BY SameEnds DEF AtMostOne
    <2> QED
      BY <2>1, <2>2 DEF Step, Life!Next
  <1> QED
    BY <1>1, <1>2, <1>3, <1>4, <1>5, <1>6, <1>7 DEF Moves, Step

-----------------------------------------------------------------------------
(* The theorems.                                                           *)

\* Every end is held by one place or by a session, nodes say nothing but Hello,
\* and the receive thread of a session between nodes ends only when the other
\* end is closed or its node has returned (remote_peer.rs:96-141).
THEOREM LifeInvariant == Spec => []LifeInv
  <1>1. Init => LifeInv
    BY InitSeed, InitLife DEF LifeInv
  <1> QED
    BY <1>1, NextLife, PTL DEF Spec

\* The seed nodes implement Connections: whatever threads, events, commands and
\* peers come in between, an end waits, is listed, ends and is closed, in this
\* order and once; a peer is listed through one end at a time; a node lists whom
\* it dialled only after that has listed it, or has given the connection up for
\* want of streams; and it gives up an end of a session only after the peer has,
\* or when it has itself returned (seed_node.rs:117-126, 182-268,
\* remote_peer.rs:96-141).
THEOREM ConnectionsImplemented == Spec => ImplementsConnections
  <1>1. Init => Life!Init
    <2> SUFFICES ASSUME Init PROVE Life!Init
      OBVIOUS
    <2>1. \A e \in NodeEnd : Stage(e) = "new"
      BY DEF Init, SeedInit, Stage
    <2>2. {n \in Node : LoopAlive(n)} = Node
      BY DEF Init, SeedInit, LoopAlive
    <2> QED
      BY <2>1, <2>2, SameEnds DEF Life!Init
  <1>2. LifeInv /\ LifeInv' /\ [Next]_vars => [Life!Next]_(Life!vars)
    BY NextLifeStep DEF Step
  <1> QED
    BY <1>1, <1>2, LifeInvariant, PTL DEF Spec, ImplementsConnections, Life!Spec
=============================================================================
