------------------------------ MODULE SeedProofs ------------------------------
(***************************************************************************)
(* Proofs about SeedNetwork, for every set of nodes, peers, connections    *)
(* and commands: streams are held by those who should, sessions are        *)
(* mutual, and no peer stays listed that nobody listens to.                *)
(*                                                                         *)
(* An end of a connection passes from the backlog to an event to the loop  *)
(* to the threads of a peer, and at each stage nobody else holds it.  The  *)
(* invariant says so for every place that names an end, and that none of   *)
(* these places names it twice; so an end that is closed stays closed.     *)
(***************************************************************************)
EXTENDS SeedNetwork, TLAPS

\* Some element of q is x; no two are.
Has(q, x)  == \E i \in 1 .. Len(q) : q[i] = x
Once(q, x) == \A i, j \in 1 .. Len(q) : q[i] = x /\ q[j] = x => i = j

\* The holders of an end whose peer is, or was, listed.
Session == {"peer", "send", "recv"}

\* The loop is busy with an end of its own, which nobody else holds, and says
\* Hello first only to a peer it has dialled.
Busy ==
  \A n \in Node :
    /\ loop[n] \in {"greeting", "reading"} <=> current[n] # NoEnd
    /\ current[n] # NoEnd => Owner(current[n]) = n /\ holders[current[n]] = {"loop"}
    /\ loop[n] = "greeting" => \E c \in Conn : current[n] = Out(c)

\* A listed peer's end belongs to a node that is alive and to a session.
Listed ==
  \A n \in Node, id \in Id :
    peers[n][id] # NoEnd =>
      /\ LoopAlive(n) /\ Owner(peers[n][id]) = n /\ IdOf(peers[n][id]) = id
      /\ "peer" \in holders[peers[n][id]]
      /\ holders[peers[n][id]] \subseteq Session

\* Who holds an end as loop or peer is named by the node's own state.
Held ==
  \A e \in End : Owner(e) \in Node =>
    /\ "peer" \in holders[e] => peers[Owner(e)][IdOf(e)] = e
    /\ "loop" \in holders[e] => current[Owner(e)] = e

\* An end in an event is nowhere else.
Queued ==
  \A n \in Node, e \in End : Has(events[n], Connected(e)) =>
    Owner(e) = n /\ holders[e] = {"event"} /\ Once(events[n], Connected(e))

\* An end in the backlog is nowhere else.
Waiting ==
  \A n \in Node, c \in Conn : Has(backlog[n], c) =>
    To[c] = n /\ holders[In(c)] = {"backlog"} /\ Once(backlog[n], c)

\* A connection is dialled once, by the node that opens it.
Dials ==
  /\ \A n \in Node, c \in Conn : Has(events[n], Connect(c)) =>
       /\ From[c] = n /\ c \notin opened
       /\ Once(events[n], Connect(c)) /\ <<n, Connect(c)>> \notin commands
  /\ \A n \in Node, c \in Conn : <<n, Connect(c)>> \in commands =>
       From[c] = n /\ c \notin opened
  /\ \A n \in Node, e \in End : <<n, Connected(e)>> \notin commands

\* A connection that was not opened has left no trace.
Fresh ==
  \A e \in End : e[1] \notin opened => holders[e] = {} /\ inbox[e] = << >>

\* Other peers hold no end of a node, and nodes say nothing but Hello to whom
\* they dialled.
Foreign == \A e \in End : "remote" \in holders[e] => Owner(e) \notin Node
Greeted ==
  \A c \in Conn : From[c] \in Node => \A m : Has(inbox[In(c)], m) => m = "Hello"

\* The side that accepted connection c listens, or has found no streams to.
Listens(c) == "recv" \in holders[In(c)] \/ (To[c] \in Starved /\ Closed(In(c)))

\* A Hello comes back only from a node that listens.
Answered ==
  \A c \in Conn :
    /\ From[c] \in Node /\ LoopAlive(To[c])
    /\ \/ "recv" \in holders[Out(c)]
       \/ Has(inbox[Out(c)], "Hello") /\ holders[Out(c)] # {}
    => Listens(c)

\* A peer without a receive thread is about to be dropped.
Served ==
  \A n \in Node, id \in Id :
    peers[n][id] # NoEnd =>
      "recv" \in holders[peers[n][id]] \/ Has(events[n], Disconnect(id))

SeedInv ==
  /\ TypeOK /\ Busy /\ Listed /\ Held /\ Queued /\ Waiting /\ Dials
  /\ Fresh /\ Foreign /\ Greeted /\ Answered /\ Served

-----------------------------------------------------------------------------
(* Ends, events and queues.                                                *)

\* A connection has two ends, each with its owner.
LEMMA Ends ==
  /\ \A c \in Conn : /\ Out(c) \in End /\ Other(Out(c)) = In(c) /\ Owner(Out(c)) = From[c]
                     /\ In(c) \in End /\ Other(In(c)) = Out(c) /\ Owner(In(c)) = To[c]
                     /\ Out(c)[1] = c /\ In(c)[1] = c
  /\ \A c, d \in Conn : /\ Out(c) # In(d)
                        /\ Out(c) = Out(d) => c = d
                        /\ In(c) = In(d) => c = d
  /\ \A e \in End : /\ e[1] \in Conn /\ (e = Out(e[1]) \/ e = In(e[1]))
                    /\ Other(e) \in End /\ Other(e) # e /\ Other(e)[1] = e[1]
                    /\ Owner(e) \in Id /\ IdOf(e) \in Id
  /\ NoEnd \notin End
  /\ \A c \in Conn : To[c] \in Node
  /\ \A c \in Conn : From[c] \in Remote => From[c] \notin Node
  /\ \A n \in Node : n \in Id
  BY SeedConnAssumption DEF Out, In, End, Other, Owner, IdOf, Id

\* Events of different kinds, or about different things, are different.
LEMMA Events ==
  /\ \A e \in End : Connected(e) \in Event
  /\ \A c \in Conn : Connect(c) \in Event
  /\ \A id \in Id : Disconnect(id) \in Event
  /\ Terminate \in Event /\ Notice \in Event
  /\ \A e, f : Connected(e) = Connected(f) => e = f
  /\ \A c, d : Connect(c) = Connect(d) => c = d
  /\ \A id, d : Disconnect(id) = Disconnect(d) => id = d
  /\ \A e, c : Connected(e) # Connect(c)
  /\ \A e, id : Connected(e) # Disconnect(id)
  /\ \A c, id : Connect(c) # Disconnect(id)
  /\ \A e : Connected(e) # Terminate /\ Connected(e) # Notice
  /\ \A c : Connect(c) # Terminate /\ Connect(c) # Notice
  /\ \A id : Disconnect(id) # Terminate /\ Disconnect(id) # Notice
  BY DEF Connected, Connect, Disconnect, Terminate, Notice, Event

\* What append does to the elements of a queue.
LEMMA Appended ==
  ASSUME NEW S, NEW q \in Seq(S), NEW m \in S
  PROVE  /\ Append(q, m) \in Seq(S)
         /\ Has(Append(q, m), m)
         /\ \A x : Has(Append(q, m), x) => Has(q, x) \/ x = m
         /\ \A x : Has(q, x) => Has(Append(q, m), x)
         /\ \A x : Once(q, x) /\ (x # m \/ ~Has(q, x)) => Once(Append(q, m), x)
  BY DEF Has, Once

\* What taking off the head does to the elements of a queue.
LEMMA Taken ==
  ASSUME NEW S, NEW q \in Seq(S), q # << >>
  PROVE  /\ Tail(q) \in Seq(S) /\ Head(q) \in S /\ Has(q, Head(q))
         /\ \A x : Has(Tail(q), x) => Has(q, x)
         /\ \A x : Has(q, x) => Has(Tail(q), x) \/ x = Head(q)
         /\ \A x : Once(q, x) => Once(Tail(q), x)
         /\ Once(q, Head(q)) => ~Has(Tail(q), Head(q))
  <1>1. /\ Tail(q) \in Seq(S) /\ Head(q) \in S /\ Head(q) = q[1]
        /\ Len(q) \in Nat \ {0} /\ Len(Tail(q)) = Len(q) - 1
        /\ \A i \in 1 .. Len(q) - 1 : Tail(q)[i] = q[i + 1]
    OBVIOUS
  <1>2. \A x : Has(q, x) => Has(Tail(q), x) \/ x = Head(q)
    <2>1. ASSUME NEW x, Has(q, x), x # Head(q)
          PROVE  Has(Tail(q), x)
      <3>1. PICK i \in 1 .. Len(q) : q[i] = x
        BY <2>1 DEF Has
      <3>2. i - 1 \in 1 .. Len(q) - 1 /\ Tail(q)[i - 1] = q[i]
        BY <1>1, <2>1, <3>1
      <3> QED
        BY <1>1, <3>1, <3>2 DEF Has
    <2> QED
      BY <2>1
  <1>3. \A x : Has(Tail(q), x) => Has(q, x)
    BY <1>1 DEF Has
  <1>4. \A x : Once(q, x) => Once(Tail(q), x)
    BY <1>1 DEF Once
  <1>5. Once(q, Head(q)) => ~Has(Tail(q), Head(q))
    BY <1>1 DEF Once, Has
  <1> QED
    BY <1>1, <1>2, <1>3, <1>4, <1>5 DEF Has

\* The empty queue.
LEMMA Emptied ==
  ASSUME NEW S
  PROVE  << >> \in Seq(S) /\ \A x : ~Has(<< >>, x) /\ Once(<< >>, x)
  BY DEF Has, Once

\* The messages that are told apart.
LEMMA Messages ==
  /\ "Hello" \in Incoming /\ PeerMessage \subseteq Incoming
  /\ Malformed \in Incoming /\ Malformed # "Hello"
  BY DEF Incoming, PeerMessage, Malformed

\* Nothing is held, queued or said at the start.
LEMMA InitSeed == Init => SeedInv
  <1> SUFFICES ASSUME Init PROVE SeedInv
    OBVIOUS
  <1> USE DEF Init, SeedInit
  <1>1. TypeOK
    <2>1. \A x \in Commands : x \in Node \X Event
      BY CommandsAssumption
    <2>2. << >> \in Seq(Event) /\ << >> \in Seq([id : Id, addr : Addr])
          /\ << >> \in Seq(Conn) /\ << >> \in Seq(Incoming)
      OBVIOUS
    <2> QED
      BY <2>1, <2>2 DEF TypeOK, LoopState
  <1>2. Busy /\ Listed /\ Held /\ Served
    BY Ends DEF Busy, Listed, Held, Served
  <1>3. Queued /\ Waiting
    BY Emptied DEF Queued, Waiting
  <1>4. Dials
    <2>1. \A n \in Node, c \in Conn : <<n, Connect(c)>> \in commands => From[c] = n
      BY CommandsAssumption DEF Connect
    <2>2. \A n \in Node, e \in End : <<n, Connected(e)>> \notin commands
      BY CommandsAssumption DEF Connected
    <2> QED
      BY <2>1, <2>2, Emptied DEF Dials
  <1>5. Fresh /\ Foreign /\ Greeted /\ Answered
    BY Ends, Emptied DEF Fresh, Foreign, Greeted, Answered
  <1> QED
    BY <1>1, <1>2, <1>3, <1>4, <1>5 DEF SeedInv

-----------------------------------------------------------------------------
(* What most steps leave alone.                                            *)

\* No event to dial, and no stream, is queued.
Quiet ==
  \A n \in Node : \A x :
    (\E e : x = Connected(e)) \/ (\E c : x = Connect(c)) =>
      /\ Has(events'[n], x) => Has(events[n], x)
      /\ Once(events[n], x) => Once(events'[n], x)

\* Only the event at the head of n's queue is gone.
LEMMA RestOf ==
  ASSUME TypeOK, NEW n \in Node, NEW ev, Takes(n, ev), events' = Rest(n)
  PROVE  /\ events' \in [Node -> Seq(Event)]
         /\ Quiet
         /\ Has(events[n], ev)
         /\ Once(events[n], ev) => ~Has(events'[n], ev)
         /\ \A k \in Node : \A x : Has(events[k], x) => Has(events'[k], x) \/ (k = n /\ x = ev)
  <1>1. events[n] \in Seq(Event) /\ events[n] # << >> /\ ev = Head(events[n])
    BY DEF TypeOK, Takes
  <1>2. events' = [events EXCEPT ![n] = Tail(events[n])] /\ events \in [Node -> Seq(Event)]
    BY DEF Rest, TypeOK
  <1>3. \A k \in Node : events'[k] = IF k = n THEN Tail(events[n]) ELSE events[k]
    BY <1>2
  <1> QED
    BY <1>1, <1>2, <1>3, Taken DEF Quiet

\* An event that is neither of the two is added, if its node is alive.
LEMMA Emitted ==
  ASSUME events \in [Node -> Seq(Event)], NEW o, NEW ev \in Event,
         \A e : ev # Connected(e), \A c : ev # Connect(c),
         events' = Emit(events, o, ev)
  PROVE  /\ events' \in [Node -> Seq(Event)]
         /\ Quiet
         /\ \A k \in Node : \A x : Has(events[k], x) => Has(events'[k], x)
         /\ o \in Node /\ LoopAlive(o) => Has(events'[o], ev)
  <1>1. CASE o \in Node /\ LoopAlive(o)
    <2>1. events' = [events EXCEPT ![o] = Append(events[o], ev)]
      BY <1>1 DEF Emit
    <2>2. \A k \in Node : events'[k] = IF k = o THEN Append(events[o], ev) ELSE events[k]
      BY <2>1
    <2>3. events[o] \in Seq(Event)
      BY <1>1
    <2> QED
      BY <1>1, <2>1, <2>2, <2>3, Appended DEF Quiet
  <1>2. CASE ~(o \in Node /\ LoopAlive(o))
    <2>1. events' = events
      BY <1>2 DEF Emit
    <2> QED
      BY <1>2, <2>1 DEF Quiet
  <1> QED
    BY <1>1, <1>2

\* Only the first message of an inbox is gone.
LEMMA ReadFrom ==
  ASSUME TypeOK, NEW e \in End, inbox[e] # << >>, inbox' = [inbox EXCEPT ![e] = Tail(@)]
  PROVE  /\ inbox' \in [End -> Seq(Incoming)]
         /\ \A f \in End : \A m : Has(inbox'[f], m) => Has(inbox[f], m)
         /\ \A f \in End : inbox[f] = << >> => inbox'[f] = << >>
  <1>1. \A f \in End : inbox'[f] = IF f = e THEN Tail(inbox[e]) ELSE inbox[f]
    BY DEF TypeOK
  <1>2. inbox[e] \in Seq(Incoming)
    BY DEF TypeOK
  <1>3. Tail(inbox[e]) \in Seq(Incoming) /\ \A m : Has(Tail(inbox[e]), m) => Has(inbox[e], m)
    BY <1>2, Taken
  <1> QED
    BY <1>1, <1>3 DEF TypeOK

\* The first message of an inbox is answered with a Hello.
LEMMA SaidBack ==
  ASSUME TypeOK, Fresh, NEW e \in End, inbox[e] # << >>, AnswersHello(e)
  PROVE  /\ inbox' \in [End -> Seq(Incoming)]
         /\ \A f \in End : f # e /\ f # Other(e) => inbox'[f] = inbox[f]
         /\ \A m : Has(inbox'[e], m) => Has(inbox[e], m)
         /\ \A m : Has(inbox'[Other(e)], m) => Has(inbox[Other(e)], m) \/ m = "Hello"
         /\ \A f \in End : inbox[f] = << >> => inbox'[f] = << >> \/ f[1] \in opened
  <1>1. /\ Other(e) \in End /\ Other(e) # e /\ Other(e)[1] = e[1] /\ e[1] \in opened
        /\ inbox[e] \in Seq(Incoming) /\ inbox[Other(e)] \in Seq(Incoming)
    BY Ends DEF TypeOK, Fresh
  <1>2. /\ Tail(inbox[e]) \in Seq(Incoming)
        /\ \A m : Has(Tail(inbox[e]), m) => Has(inbox[e], m)
    BY <1>1, Taken
  <1>3. /\ Append(inbox[Other(e)], "Hello") \in Seq(Incoming)
        /\ \A m : Has(Append(inbox[Other(e)], "Hello"), m)
                    => Has(inbox[Other(e)], m) \/ m = "Hello"
    BY <1>1, Appended, Messages
  <1>4. \A f \in End : inbox'[f] =
          IF f = e THEN Tail(inbox[e])
          ELSE IF f # Other(e) \/ Closed(Other(e)) THEN inbox[f]
          ELSE Append(inbox[Other(e)], "Hello")
    BY <1>1 DEF AnswersHello, TypeOK
  <1>5. inbox' \in [End -> Seq(Incoming)]
    BY <1>1, <1>2, <1>3 DEF AnswersHello, TypeOK
  <1>6. \A f \in End : inbox[f] = << >> => inbox'[f] = << >> \/ f[1] \in opened
    BY <1>1, <1>4
  <1> QED
    BY <1>1, <1>2, <1>3, <1>4, <1>5, <1>6

\* To the nodes that dialled, it is the dialled node that says Hello back.
LEMMA SaidBackTo ==
  ASSUME TypeOK, Fresh, Greeted, NEW e \in End, inbox[e] # << >>, AnswersHello(e)
  PROVE  \A c \in Conn : From[c] \in Node =>
           /\ Has(inbox'[Out(c)], "Hello") => Has(inbox[Out(c)], "Hello") \/ e = In(c)
           /\ \A m : Has(inbox'[In(c)], m) => Has(inbox[In(c)], m) \/ m = "Hello"
  <1> SUFFICES ASSUME NEW c \in Conn
               PROVE  /\ Has(inbox'[Out(c)], "Hello") => Has(inbox[Out(c)], "Hello") \/ e = In(c)
                      /\ \A m : Has(inbox'[In(c)], m) => Has(inbox[In(c)], m) \/ m = "Hello"
    OBVIOUS
  <1>1. Out(c) \in End /\ In(c) \in End /\ (Other(e) = Out(c) => e = In(c))
    BY Ends
  <1> QED
    BY <1>1, SaidBack

\* Ends in events stay where they are.
LEMMA QueuedKept ==
  ASSUME Queued, Quiet,
         \A e \in End : Owner(e) \in Node /\ holders[e] = {"event"} => holders'[e] = {"event"}
  PROVE  Queued'
  <1> SUFFICES ASSUME NEW n \in Node, NEW e \in End, Has(events'[n], Connected(e))
               PROVE  /\ Owner(e) = n /\ holders'[e] = {"event"}
                      /\ Once(events'[n], Connected(e))
    BY DEF Queued, Owner, Connected
  <1>1. /\ Has(events[n], Connected(e))
        /\ Once(events[n], Connected(e)) => Once(events'[n], Connected(e))
    BY DEF Quiet
  <1> QED
    BY <1>1 DEF Queued

\* Ends in the backlog stay where they are.
LEMMA WaitingKept ==
  ASSUME Waiting, backlog' = backlog,
         \A e \in End : Owner(e) \in Node /\ holders[e] = {"backlog"}
                           => holders'[e] = {"backlog"}
  PROVE  Waiting'
  <1> SUFFICES ASSUME NEW n \in Node, NEW c \in Conn, Has(backlog[n], c)
               PROVE  To[c] = n /\ holders'[In(c)] = {"backlog"} /\ Once(backlog[n], c)
    BY DEF Waiting, In
  <1>1. To[c] = n /\ holders[In(c)] = {"backlog"} /\ Once(backlog[n], c)
    BY DEF Waiting
  <1> QED
    BY <1>1, Ends

\* Dials that are due stay due.
LEMMA DialsKept ==
  ASSUME Dials, Quiet, commands' \in SUBSET commands, opened' = opened
  PROVE  Dials'
  <1>1. ASSUME NEW n \in Node, NEW c \in Conn, Has(events'[n], Connect(c))
        PROVE  /\ From[c] = n /\ c \notin opened
               /\ Once(events'[n], Connect(c)) /\ <<n, Connect(c)>> \notin commands'
    <2>1. /\ Has(events[n], Connect(c))
          /\ Once(events[n], Connect(c)) => Once(events'[n], Connect(c))
      BY <1>1 DEF Quiet
    <2> QED
      BY <2>1 DEF Dials
  <1>2. ASSUME NEW n \in Node, NEW c \in Conn, <<n, Connect(c)>> \in commands'
        PROVE  From[c] = n /\ c \notin opened
    BY <1>2 DEF Dials
  <1>3. ASSUME NEW n \in Node, NEW e \in End
        PROVE  <<n, Connected(e)>> \notin commands'
    BY DEF Dials
  <1> QED
    BY <1>1, <1>2, <1>3 DEF Dials, Connect, Connected

\* No node revives, no end is reopened, nobody starts or stops listening, and
\* a new Hello comes from a node that listens.
LEMMA AnsweredKept ==
  ASSUME Answered, opened \in SUBSET opened',
         \A n \in Node : LoopAlive(n)' => LoopAlive(n),
         \A e \in End : /\ "recv" \in holders'[e] => "recv" \in holders[e]
                        /\ holders'[e] # {} => holders[e] # {},
         \A c \in Conn : From[c] \in Node /\ LoopAlive(To[c])'
                         /\ Has(inbox'[Out(c)], "Hello")
                           => Has(inbox[Out(c)], "Hello") \/ Listens(c)',
         \A c \in Conn : From[c] \in Node /\ LoopAlive(To[c])
                         /\ "recv" \in holders[In(c)] /\ holders'[Out(c)] # {}
                           => "recv" \in holders'[In(c)]
  PROVE  Answered'
  <1> SUFFICES ASSUME NEW c \in Conn, From[c] \in Node, LoopAlive(To[c])',
                      \/ "recv" \in holders'[Out(c)]
                      \/ Has(inbox'[Out(c)], "Hello") /\ holders'[Out(c)] # {},
                      ~Listens(c)'
               PROVE  FALSE
    BY DEF Answered, Out
  <1>1. LoopAlive(To[c]) /\ holders'[Out(c)] # {}
    BY Ends
  <1>2. \/ "recv" \in holders[Out(c)]
        \/ Has(inbox[Out(c)], "Hello") /\ holders[Out(c)] # {}
    BY Ends
  <1>3. Listens(c)
    BY <1>1, <1>2 DEF Answered
  <1>4. "recv" \in holders'[In(c)] \/ (To[c] \in Starved /\ c \in opened' /\ holders'[In(c)] = {})
    BY <1>1, <1>3, Ends DEF Listens, Closed
  <1> QED
    BY <1>4, Ends DEF Listens, Closed, In

\* A step of who holds no end, or gives up one that is not the node's, and
\* queues no stream and no dial.
LEMMA AsideStep ==
  ASSUME SeedInv, events' \in [Node -> Seq(Event)], Quiet,
         \A k \in Node : \A id : Has(events[k], Disconnect(id)) =>
           Has(events'[k], Disconnect(id)) \/ peers[k][id] = NoEnd,
         inbox' \in [End -> Seq(Incoming)],
         \A f \in End : inbox[f] = << >> => inbox'[f] = << >> \/ f[1] \in opened,
         \A c \in Conn : From[c] \in Node =>
           /\ Has(inbox'[Out(c)], "Hello") => Has(inbox[Out(c)], "Hello")
           /\ \A m : Has(inbox'[In(c)], m) => Has(inbox[In(c)], m),
         holders' \in [End -> SUBSET Holder],
         \A f \in End : holders'[f] = holders[f] \/ (Owner(f) \notin Node /\ holders'[f] = {}),
         commands' \in SUBSET commands,
         UNCHANGED <<loop, current, peers, addr_book, listening, backlog, opened>>
  PROVE  SeedInv'
  <1> USE DEF SeedInv
  <1>1. TypeOK'
    BY DEF TypeOK
  <1>2. \A n \in Node : LoopAlive(n)' <=> LoopAlive(n)
    BY DEF LoopAlive
  <1>3. Busy'
    BY Ends DEF Busy, TypeOK
  <1>4. Listed'
    <2>1. \A n \in Node, id \in Id : peers[n][id] # NoEnd => peers[n][id] \in End
      BY DEF TypeOK
    <2> QED
      BY <1>2, <2>1 DEF Listed
  <1>5. Held' /\ Foreign'
    BY DEF Held, Foreign
  <1>6. Queued'
    BY QueuedKept
  <1>7. Waiting'
    BY Ends, WaitingKept
  <1>8. Dials'
    BY DialsKept
  <1>9. Fresh'
    BY DEF Fresh
  <1>10. Greeted' /\ Answered'
    <2>1. Greeted'
      BY DEF Greeted, In
    <2>2. \A f \in End : /\ "recv" \in holders'[f] => "recv" \in holders[f]
                         /\ holders'[f] # {} => holders[f] # {}
                         /\ Owner(f) \in Node => holders'[f] = holders[f]
      BY Ends
    <2>3. Answered'
      <3>1. \A c \in Conn : "recv" \in holders[In(c)] => "recv" \in holders'[In(c)]
        BY <2>2, Ends
      <3>2. \A c \in Conn : From[c] \in Node /\ LoopAlive(To[c])' /\ Has(inbox'[Out(c)], "Hello")
                              => Has(inbox[Out(c)], "Hello") \/ Listens(c)'
        OBVIOUS
      <3>3. opened \in SUBSET opened' /\ \A n \in Node : LoopAlive(n)' => LoopAlive(n)
        BY <1>2
      <3> HIDE DEF SeedInv
      <3>4. Answered
        BY DEF SeedInv
      <3> QED
        BY <2>2, <3>1, <3>2, <3>3, <3>4, AnsweredKept
    <2> QED
      BY <2>1, <2>3
  <1>11. Served'
    <2> SUFFICES ASSUME NEW n \in Node, NEW id \in Id, peers[n][id] # NoEnd,
                        "recv" \notin holders'[peers[n][id]]
                 PROVE  Has(events'[n], Disconnect(id))
      BY DEF Served, Disconnect
    <2>1. peers[n][id] \in End /\ Owner(peers[n][id]) = n
      BY DEF TypeOK, Listed
    <2> QED
      BY <2>1 DEF Served
  <1> QED
    BY <1>1, <1>3, <1>4, <1>5, <1>6, <1>7, <1>8, <1>9, <1>10, <1>11

-----------------------------------------------------------------------------
(* Threads of a listed peer.                                               *)

\* A thread ends: it may only end its listening if the peer is gone or node is,
\* and announces it.
LEMMA EndThreadStep ==
  ASSUME SeedInv, NEW e \in End, NEW who \in {"recv", "send"},
         who \in holders[e], EndThread(e, who),
         UNCHANGED <<loop, current, peers, addr_book, listening, backlog, opened, commands>>,
         inbox' = inbox \/ (inbox[e] # << >> /\ inbox' = [inbox EXCEPT ![e] = Tail(@)]),
         who = "recv" => ~LoopAlive(Owner(e)) \/ Unreadable(e)
  PROVE  SeedInv'
  <1> USE DEF SeedInv
  <1> DEFINE ev == Disconnect(IdOf(e))
  <1>1. /\ events' \in [Node -> Seq(Event)]
        /\ Quiet
        /\ \A k \in Node : \A x : Has(events[k], x) => Has(events'[k], x)
        /\ Owner(e) \in Node /\ LoopAlive(Owner(e)) => Has(events'[Owner(e)], ev)
    <2>1. ev \in Event /\ (\A f : ev # Connected(f)) /\ \A c : ev # Connect(c)
      BY Ends, Events
    <2>2. events \in [Node -> Seq(Event)] /\ events' = Emit(events, Owner(e), ev)
      BY DEF TypeOK, EndThread
    <2> HIDE DEF ev
    <2> QED
      BY <2>1, <2>2, Emitted
  <1>2. /\ \A f \in End : holders'[f] = IF f = e THEN holders[f] \ {who} ELSE holders[f]
        /\ holders' \in [End -> SUBSET Holder]
    BY DEF TypeOK, EndThread
  <1>3. /\ inbox' \in [End -> Seq(Incoming)]
        /\ \A f \in End : \A m : Has(inbox'[f], m) => Has(inbox[f], m)
        /\ \A f \in End : inbox[f] = << >> => inbox'[f] = << >>
    <2>1. CASE inbox' = inbox
      BY <2>1 DEF TypeOK
    <2>2. CASE inbox[e] # << >> /\ inbox' = [inbox EXCEPT ![e] = Tail(@)]
      BY <2>2, ReadFrom
    <2> QED
      BY <2>1, <2>2
  <1>4. TypeOK'
    BY <1>1, <1>2, <1>3 DEF TypeOK
  <1>5. Busy'
    BY <1>2 DEF Busy, TypeOK
  <1>6. Listed'
    <2>1. \A n \in Node, id \in Id : peers[n][id] # NoEnd => peers[n][id] \in End
      BY DEF TypeOK
    <2>2. \A f \in End : /\ "peer" \in holders[f] => "peer" \in holders'[f]
                         /\ holders'[f] \subseteq holders[f]
      BY <1>2
    <2>3. \A n \in Node : LoopAlive(n)' <=> LoopAlive(n)
      BY DEF LoopAlive
    <2> QED
      BY <2>1, <2>2, <2>3 DEF Listed
  <1>7. Held'
    BY <1>2 DEF Held
  <1>8. Queued' /\ Waiting' /\ Dials'
    BY <1>1, <1>2, QueuedKept, WaitingKept, DialsKept
  <1>9. Fresh' /\ Foreign'
    BY <1>2, <1>3 DEF Fresh, Foreign
  <1>10. Greeted'
    BY <1>3, Ends DEF Greeted, In
  <1>11. Answered'
    <2>1. ASSUME NEW c \in Conn, From[c] \in Node, LoopAlive(To[c]),
                 "recv" \in holders[In(c)], holders'[Out(c)] # {}
          PROVE  "recv" \in holders'[In(c)]
      <3>1. holders[Out(c)] # {} /\ Other(In(c)) = Out(c) /\ Owner(In(c)) = To[c]
        BY <1>2, <2>1, Ends
      <3>2. ~(inbox[In(c)] # << >> /\ Head(inbox[In(c)]) = Malformed)
        <4>1. inbox[In(c)] \in Seq(Incoming) /\ \A m : Has(inbox[In(c)], m) => m = "Hello"
          BY <2>1, Ends DEF Greeted, TypeOK
        <4> QED
          BY <4>1, Taken, Messages
      <3>3. ~Unreadable(In(c))
        BY <3>1, <3>2 DEF Unreadable, Closed
      <3>4. In(c) = e => who # "recv"
        BY <2>1, <3>1, <3>3
      <3> QED
        BY <1>2, <2>1, <3>4, Ends
    <2>2. \A n \in Node : LoopAlive(n)' => LoopAlive(n)
      BY DEF LoopAlive
    <2> QED
      BY <1>2, <1>3, <2>1, <2>2, Ends, AnsweredKept
  <1>12. Served'
    <2> SUFFICES ASSUME NEW n \in Node, NEW id \in Id, peers[n][id] # NoEnd,
                        "recv" \notin holders'[peers[n][id]]
                 PROVE  Has(events'[n], Disconnect(id))
      BY DEF Served, Disconnect
    <2>1. peers[n][id] \in End
      BY DEF TypeOK
    <2>2. CASE "recv" \in holders[peers[n][id]]
      <3>1. peers[n][id] = e /\ Owner(e) = n /\ IdOf(e) = id /\ LoopAlive(n)
        BY <1>2, <2>1, <2>2 DEF Listed
      <3> QED
        BY <1>1, <3>1
    <2>3. CASE "recv" \notin holders[peers[n][id]]
      BY <1>1, <2>3 DEF Served
    <2> QED
      BY <2>2, <2>3
  <1> QED
    BY <1>4, <1>5, <1>6, <1>7, <1>8, <1>9, <1>10, <1>11, <1>12

\* The receive thread passes a message on.
LEMMA PassOnStep ==
  ASSUME SeedInv, NEW e \in End, inbox[e] # << >>, LoopAlive(Owner(e)),
         inbox' = [inbox EXCEPT ![e] = Tail(@)],
         events' = Emit(events, Owner(e), Notice),
         UNCHANGED <<holders, loop, current, peers, addr_book, listening, backlog, opened, commands>>
  PROVE  SeedInv'
  <1> USE DEF SeedInv
  <1>1. /\ events' \in [Node -> Seq(Event)]
        /\ Quiet
        /\ \A k \in Node : \A x : Has(events[k], x) => Has(events'[k], x)
    BY Events, Emitted DEF TypeOK
  <1>2. /\ inbox' \in [End -> Seq(Incoming)]
        /\ \A f \in End : \A m : Has(inbox'[f], m) => Has(inbox[f], m)
        /\ \A f \in End : inbox[f] = << >> => inbox'[f] = << >>
    BY ReadFrom
  <1>3. \A c \in Conn : From[c] \in Node =>
          /\ Has(inbox'[Out(c)], "Hello") => Has(inbox[Out(c)], "Hello")
          /\ \A m : Has(inbox'[In(c)], m) => Has(inbox[In(c)], m)
    BY <1>2, Ends
  <1>4. holders' \in [End -> SUBSET Holder] /\ holders' = holders
    BY DEF TypeOK
  <1> QED
    BY <1>1, <1>2, <1>3, <1>4, AsideStep

\* The threads of a peer keep the invariant.
LEMMA ThreadStepKeeps ==
  ASSUME SeedInv, NEW e \in End, ThreadStep(e)
  PROVE  SeedInv'
  <1>1. CASE Receive(e) /\ LoopAlive(Owner(e))
    BY <1>1, PassOnStep DEF Receive
  <1>2. CASE Receive(e) /\ ~LoopAlive(Owner(e))
    BY <1>2, EndThreadStep DEF Receive
  <1>3. CASE ReceiveFails(e)
    BY <1>3, EndThreadStep DEF ReceiveFails
  <1>4. CASE SenderDropped(e)
    BY <1>4, EndThreadStep DEF SenderDropped
  <1> QED
    BY <1>1, <1>2, <1>3, <1>4 DEF ThreadStep

-----------------------------------------------------------------------------
(* What surrounds the nodes.                                               *)

\* A peer writes to an end of a node.
LEMMA RemoteSendsStep ==
  ASSUME SeedInv, NEW c \in Conn, NEW m \in Incoming, RemoteSends(c, m)
  PROVE  SeedInv'
  <1> USE DEF SeedInv
  <1>1. c \in opened /\ From[c] \notin Node /\ Out(c) \in End /\ In(c) \in End
    BY Ends DEF Fresh, Foreign, RemoteSends
  <1>2. inbox' = [inbox EXCEPT ![In(c)] = Append(@, m)] /\ inbox[In(c)] \in Seq(Incoming)
    BY <1>1 DEF RemoteSends, TypeOK
  <1>3. /\ inbox' \in [End -> Seq(Incoming)]
        /\ \A f \in End : f # In(c) => inbox'[f] = inbox[f]
    BY <1>1, <1>2 DEF TypeOK
  <1>4. \A f \in End : inbox[f] = << >> => inbox'[f] = << >> \/ f[1] \in opened
    BY <1>1, <1>3, Ends
  <1>5. \A d \in Conn : From[d] \in Node =>
          /\ Has(inbox'[Out(d)], "Hello") => Has(inbox[Out(d)], "Hello")
          /\ \A x : Has(inbox'[In(d)], x) => Has(inbox[In(d)], x)
    BY <1>1, <1>3, Ends
  <1>6. /\ events' = events /\ events \in [Node -> Seq(Event)]
        /\ holders' = holders /\ holders \in [End -> SUBSET Holder]
        /\ commands' = commands
        /\ UNCHANGED <<loop, current, peers, addr_book, listening, backlog, opened>>
    BY DEF RemoteSends, TypeOK, node_vars
  <1>7. Quiet
    BY <1>6 DEF Quiet
  <1> QED
    BY <1>3, <1>4, <1>5, <1>6, <1>7, AsideStep

\* A peer's end is closed.
LEMMA RemoteClosesStep ==
  ASSUME SeedInv, NEW c \in Conn, RemoteCloses(c)
  PROVE  SeedInv'
  <1> USE DEF SeedInv
  <1>1. From[c] \notin Node /\ Out(c) \in End /\ In(c) \in End /\ Owner(Out(c)) = From[c]
    BY Ends DEF Foreign, RemoteCloses
  <1>2. /\ inbox' \in [End -> Seq(Incoming)]
        /\ \A f \in End : inbox'[f] = inbox[f] \/ inbox'[f] = << >>
    <2>1. inbox \in [End -> Seq(Incoming)] /\ << >> \in Seq(Incoming)
      BY DEF TypeOK
    <2>2. CASE inbox' = [inbox EXCEPT ![Out(c)] = << >>]
      BY <1>1, <2>1, <2>2
    <2>3. CASE inbox' = [inbox EXCEPT ![Out(c)] = << >>, ![In(c)] = << >>]
      BY <1>1, <2>1, <2>3
    <2> QED
      BY <2>2, <2>3 DEF RemoteCloses
  <1>3. \A f \in End : \A x : Has(inbox'[f], x) => Has(inbox[f], x)
    BY <1>2, Emptied
  <1>4. \A d \in Conn : From[d] \in Node =>
          /\ Has(inbox'[Out(d)], "Hello") => Has(inbox[Out(d)], "Hello")
          /\ \A x : Has(inbox'[In(d)], x) => Has(inbox[In(d)], x)
    BY <1>3, Ends
  <1>5. /\ holders' \in [End -> SUBSET Holder]
        /\ \A f \in End : holders'[f] = holders[f] \/ (Owner(f) \notin Node /\ holders'[f] = {})
    BY <1>1 DEF RemoteCloses, TypeOK
  <1>6. /\ events' = events /\ events \in [Node -> Seq(Event)]
        /\ commands' = commands
        /\ UNCHANGED <<loop, current, peers, addr_book, listening, backlog, opened>>
    BY DEF RemoteCloses, TypeOK, node_vars
  <1>7. Quiet
    BY <1>6 DEF Quiet
  <1> QED
    BY <1>2, <1>4, <1>5, <1>6, <1>7, AsideStep

\* An event without effect is taken.
LEMMA NoticeStep ==
  ASSUME SeedInv, NEW n \in Node, HandleNotice(n)
  PROVE  SeedInv'
  <1> USE DEF SeedInv
  <1>1. /\ events' \in [Node -> Seq(Event)]
        /\ Quiet
        /\ \A k \in Node : \A x : Has(events[k], x) => Has(events'[k], x) \/ (k = n /\ x = Notice)
    BY RestOf DEF HandleNotice
  <1>2. \A k \in Node : \A id : Has(events[k], Disconnect(id)) => Has(events'[k], Disconnect(id))
    BY <1>1, Events
  <1>3. /\ inbox' = inbox /\ inbox \in [End -> Seq(Incoming)]
        /\ holders' = holders /\ holders \in [End -> SUBSET Holder]
        /\ commands' = commands
        /\ UNCHANGED <<loop, current, peers, addr_book, listening, backlog, opened>>
    BY DEF HandleNotice, TypeOK, conn_vars
  <1> QED
    BY <1>1, <1>2, <1>3, AsideStep

\* A node is given a command.
LEMMA CommandStep ==
  ASSUME SeedInv, NEW n \in Node, NEW ev \in Event, Command(n, ev)
  PROVE  SeedInv'
  <1> USE DEF SeedInv
  <1>1. /\ inbox' = inbox /\ inbox \in [End -> Seq(Incoming)]
        /\ holders' = holders /\ holders \in [End -> SUBSET Holder]
        /\ commands' = commands \ {<<n, ev>>} /\ <<n, ev>> \in commands
        /\ UNCHANGED <<loop, current, peers, addr_book, listening, backlog, opened>>
        /\ events' = Emit(events, n, ev)
        /\ events \in [Node -> Seq(Event)]
    BY DEF Command, TypeOK, conn_vars
  <1>2. CASE \E c \in Conn : ev = Connect(c)
    <2>1. PICK c \in Conn : ev = Connect(c)
      BY <1>2
    <2>2. From[c] = n /\ c \notin opened /\ ~Has(events[n], Connect(c))
      BY <1>1, <2>1 DEF Dials
    <2>3. CASE LoopAlive(n)
      <3>1. \A k \in Node : events'[k] = IF k = n THEN Append(events[n], ev) ELSE events[k]
        BY <1>1, <2>3 DEF Emit
      <3>2. events[n] \in Seq(Event)
        BY <1>1
      <3>3. /\ Append(events[n], ev) \in Seq(Event)
            /\ \A x : Has(Append(events[n], ev), x) => Has(events[n], x) \/ x = ev
            /\ \A x : Has(events[n], x) => Has(Append(events[n], ev), x)
            /\ \A x : Once(events[n], x) /\ (x # ev \/ ~Has(events[n], x))
                        => Once(Append(events[n], ev), x)
        BY <3>2, Appended
      <3>4. events' \in [Node -> Seq(Event)]
        BY <1>1, <2>3, <3>3 DEF Emit
      <3>5. TypeOK'
        BY <1>1, <3>4 DEF TypeOK
      <3>6. Busy' /\ Held' /\ Waiting' /\ Fresh' /\ Foreign' /\ Greeted'
        BY <1>1 DEF Busy, Held, Waiting, Fresh, Foreign, Greeted, In, Out
      <3>7. Listed' /\ Answered'
        BY <1>1 DEF Listed, Answered, Listens, Closed, LoopAlive, In, Out
      <3>8. Queued'
        <4> SUFFICES ASSUME NEW k \in Node, NEW e \in End, Has(events'[k], Connected(e))
                     PROVE  /\ Owner(e) = k /\ holders[e] = {"event"}
                            /\ Once(events'[k], Connected(e))
          BY <1>1 DEF Queued, Connected
        <4>1. Connected(e) # ev
          BY <2>1, Events
        <4>2. Has(events[k], Connected(e))
              /\ (Once(events[k], Connected(e)) => Once(events'[k], Connected(e)))
          BY <3>1, <3>3, <4>1
        <4> QED
          BY <4>2 DEF Queued
      <3>9. Dials'
        <4>1. ASSUME NEW k \in Node, NEW d \in Conn, Has(events'[k], Connect(d))
              PROVE  /\ From[d] = k /\ d \notin opened
                     /\ Once(events'[k], Connect(d)) /\ <<k, Connect(d)>> \notin commands'
          <5>1. CASE k = n /\ d = c
            <6>1. \A i, j \in 1 .. Len(events[n]) : ~(events[n][i] = ev /\ events[n][j] = ev)
              BY <2>1, <2>2 DEF Has
            <6>2. Once(events[n], Connect(c))
              BY <2>1, <6>1 DEF Once
            <6> QED
              BY <1>1, <2>1, <2>2, <3>1, <3>3, <5>1, <6>2
          <5>2. CASE ~(k = n /\ d = c)
            <6>1. k = n => Connect(d) # ev
              BY <2>1, <5>2, Events
            <6>2. /\ Has(events[k], Connect(d))
                  /\ Once(events[k], Connect(d)) => Once(events'[k], Connect(d))
              BY <3>1, <3>3, <4>1, <6>1
            <6> QED
              BY <1>1, <6>2 DEF Dials
          <5> QED
            BY <5>1, <5>2
        <4>2. ASSUME NEW k \in Node, NEW d \in Conn, <<k, Connect(d)>> \in commands'
              PROVE  From[d] = k /\ d \notin opened
          BY <1>1, <4>2 DEF Dials
        <4>3. ASSUME NEW k \in Node, NEW e \in End
              PROVE  <<k, Connected(e)>> \notin commands'
          BY <1>1 DEF Dials
        <4> QED
          BY <1>1, <4>1, <4>2, <4>3 DEF Dials, Connect, Connected
      <3>10. Served'
        BY <1>1, <3>1, <3>3 DEF Served, Disconnect
      <3> QED
        BY <3>5, <3>6, <3>7, <3>8, <3>9, <3>10
    <2>4. CASE ~LoopAlive(n)
      <3>1. events' = events
        BY <1>1, <2>4 DEF Emit
      <3>2. Quiet
        BY <3>1 DEF Quiet
      <3> QED
        BY <1>1, <3>1, <3>2, AsideStep
    <2> QED
      BY <2>3, <2>4
  <1>3. CASE ~\E c \in Conn : ev = Connect(c)
    <2>1. \A e : ev # Connected(e)
      <3>1. ASSUME NEW e, ev = Connected(e) PROVE FALSE
        <4>1. e \in End
          BY <3>1 DEF Event, Connected, Terminate, Notice
        <4> QED
          BY <1>1, <3>1, <4>1 DEF Dials
      <3> QED
        BY <3>1
    <2>2. \A c : ev # Connect(c)
      BY <1>3 DEF Event, Connect, Terminate, Notice
    <2>3. /\ events' \in [Node -> Seq(Event)]
          /\ Quiet
          /\ \A k \in Node : \A x : Has(events[k], x) => Has(events'[k], x)
      BY <1>1, <2>1, <2>2, Emitted
    <2> QED
      BY <1>1, <2>3, AsideStep
  <1> QED
    BY <1>2, <1>3

-----------------------------------------------------------------------------
(* Steps of one node.                                                      *)

\* What a loop is busy with concerns its own ends.
LEMMA BusyElsewhere ==
  ASSUME TypeOK, Busy, NEW n \in Node,
         \A k \in Node : k # n => loop'[k] = loop[k] /\ current'[k] = current[k],
         \A f \in End : Owner(f) # n => holders'[f] = holders[f],
         /\ loop'[n] \in {"greeting", "reading"} <=> current'[n] # NoEnd
         /\ current'[n] # NoEnd => Owner(current'[n]) = n /\ holders'[current'[n]] = {"loop"}
         /\ loop'[n] = "greeting" => \E c \in Conn : current'[n] = Out(c)
  PROVE  Busy'
  <1> SUFFICES ASSUME NEW k \in Node
               PROVE  /\ loop'[k] \in {"greeting", "reading"} <=> current'[k] # NoEnd
                      /\ current'[k] # NoEnd => /\ Owner(current'[k]) = k
                                               /\ holders'[current'[k]] = {"loop"}
                      /\ loop'[k] = "greeting" => \E c \in Conn : current'[k] = Out(c)
    BY DEF Busy, Owner, Out
  <1>1. CASE k = n
    BY <1>1
  <1>2. CASE k # n
    <2>1. current[k] # NoEnd => /\ current[k] \in End /\ Owner(current[k]) = k
                                /\ holders'[current[k]] = holders[current[k]]
      BY <1>2 DEF Busy, TypeOK
    <2> QED
      BY <1>2, <2>1 DEF Busy
  <1> QED
    BY <1>1, <1>2

\* Its own ends are all a node's state names.
LEMMA HeldElsewhere ==
  ASSUME Held, NEW n \in Node,
         \A k \in Node : k # n => current'[k] = current[k] /\ peers'[k] = peers[k],
         \A f \in End : Owner(f) # n => holders'[f] = holders[f],
         \A f \in End : Owner(f) = n =>
           /\ "peer" \in holders'[f] => peers'[n][IdOf(f)] = f
           /\ "loop" \in holders'[f] => current'[n] = f
  PROVE  Held'
  <1> SUFFICES ASSUME NEW f \in End, Owner(f) \in Node
               PROVE  /\ "peer" \in holders'[f] => peers'[Owner(f)][IdOf(f)] = f
                      /\ "loop" \in holders'[f] => current'[Owner(f)] = f
    BY DEF Held, Owner, IdOf, Other
  <1>1. CASE Owner(f) = n
    BY <1>1
  <1>2. CASE Owner(f) # n
    BY <1>2 DEF Held
  <1> QED
    BY <1>1, <1>2

\* So are they all it lists.
LEMMA ListedElsewhere ==
  ASSUME TypeOK, Listed, Served, NEW n \in Node,
         \A k \in Node : k # n => loop'[k] = loop[k] /\ peers'[k] = peers[k],
         \A k \in Node : \A x : k # n /\ Has(events[k], x) => Has(events'[k], x),
         \A f \in End : Owner(f) # n => holders'[f] = holders[f],
         \A id \in Id : peers'[n][id] # NoEnd =>
           /\ LoopAlive(n)' /\ Owner(peers'[n][id]) = n /\ IdOf(peers'[n][id]) = id
           /\ "peer" \in holders'[peers'[n][id]]
           /\ holders'[peers'[n][id]] \subseteq Session
           /\ "recv" \in holders'[peers'[n][id]] \/ Has(events'[n], Disconnect(id))
  PROVE  Listed' /\ Served'
  <1>1. ASSUME NEW k \in Node, NEW id \in Id, peers'[k][id] # NoEnd
        PROVE  /\ LoopAlive(k)' /\ Owner(peers'[k][id]) = k /\ IdOf(peers'[k][id]) = id
               /\ "peer" \in holders'[peers'[k][id]]
               /\ holders'[peers'[k][id]] \subseteq Session
               /\ "recv" \in holders'[peers'[k][id]] \/ Has(events'[k], Disconnect(id))
    <2>1. CASE k = n
      BY <1>1, <2>1
    <2>2. CASE k # n
      <3>1. peers'[k][id] = peers[k][id] /\ peers[k][id] # NoEnd /\ loop'[k] = loop[k]
        BY <1>1, <2>2
      <3>2. peers[k][id] \in End
        BY <3>1 DEF TypeOK
      <3>3. /\ LoopAlive(k) /\ LoopAlive(k)'
            /\ Owner(peers[k][id]) = k /\ IdOf(peers[k][id]) = id
            /\ "peer" \in holders[peers[k][id]] /\ holders[peers[k][id]] \subseteq Session
            /\ "recv" \in holders[peers[k][id]] \/ Has(events[k], Disconnect(id))
        BY <3>1 DEF Listed, Served, LoopAlive
      <3>4. holders'[peers[k][id]] = holders[peers[k][id]]
        BY <2>2, <3>2, <3>3
      <3> QED
        BY <2>2, <3>1, <3>3, <3>4
    <2> QED
      BY <2>1, <2>2
  <1>2. Listed'
    BY <1>1 DEF Listed
  <1>3. Served'
    BY <1>1 DEF Served, Disconnect
  <1> QED
    BY <1>2, <1>3

-----------------------------------------------------------------------------
(* The loop gives up.                                                      *)

\* run returns: whatever the node held as loop or peer is released, a stream
\* just taken from an event included.
LEMMA DropStep ==
  ASSUME SeedInv, NEW n \in Node, NEW how \in {"stopped", "failed"},
         NEW held \in [End -> SUBSET Holder], DropNode(n, how, held),
         \A f \in End : \/ held[f] = holders[f]
                        \/ /\ Owner(f) = n /\ held[f] = {"loop"} /\ holders[f] = {"event"}
                           /\ ~Has(events'[n], Connected(f)),
         LoopAlive(n),
         events' \in [Node -> Seq(Event)], Quiet,
         \A k \in Node : k # n => events'[k] = events[k],
         inbox' \in [End -> Seq(Incoming)],
         \A f \in End : inbox[f] = << >> => inbox'[f] = << >> \/ f[1] \in opened,
         \A c \in Conn : From[c] \in Node =>
           /\ Has(inbox'[Out(c)], "Hello") /\ LoopAlive(To[c])' => Has(inbox[Out(c)], "Hello")
           /\ \A m : Has(inbox'[In(c)], m) => Has(inbox[In(c)], m) \/ m = "Hello",
         UNCHANGED <<addr_book, listening, backlog, opened, commands>>
  PROVE  SeedInv'
  <1> USE DEF SeedInv
  <1>1. /\ holders' \in [End -> SUBSET Holder]
        /\ \A f \in End : holders'[f] = IF Owner(f) = n THEN held[f] \ {"loop", "peer"}
                                                        ELSE held[f]
        /\ \A f \in End : Owner(f) # n => holders'[f] = holders[f]
    BY DEF DropNode
  <1>2. /\ loop' \in [Node -> LoopState]
        /\ \A k \in Node : loop'[k] = IF k = n THEN how ELSE loop[k]
    BY DEF TypeOK, DropNode, LoopState
  <1>3. /\ current' \in [Node -> End \cup {NoEnd}]
        /\ \A k \in Node : current'[k] = IF k = n THEN NoEnd ELSE current[k]
    BY DEF TypeOK, DropNode
  <1>4. /\ peers' \in [Node -> [Id -> End \cup {NoEnd}]]
        /\ \A k \in Node : k # n => peers'[k] = peers[k]
        /\ \A id \in Id : peers'[n][id] = NoEnd
    BY DEF TypeOK, DropNode
  <1>5. TypeOK'
    BY <1>1, <1>2, <1>3, <1>4 DEF TypeOK
  <1>6. Busy'
    BY <1>1, <1>2, <1>3, BusyElsewhere
  <1>7. Held'
    BY <1>1, <1>3, <1>4, HeldElsewhere
  <1>8. Listed' /\ Served'
    BY <1>1, <1>2, <1>4, ListedElsewhere
  <1>9. /\ \A f \in End : \A x \in {"recv", "remote"} : x \in holders'[f] <=> x \in holders[f]
        /\ \A f \in End : /\ holders'[f] # {} => holders[f] # {}
                          /\ holders[f] = {"backlog"} => holders'[f] = {"backlog"}
    BY <1>1
  <1>10. Queued'
    <2> SUFFICES ASSUME NEW k \in Node, NEW f \in End, Has(events'[k], Connected(f))
                 PROVE  /\ Owner(f) = k /\ holders'[f] = {"event"}
                        /\ Once(events'[k], Connected(f))
      BY DEF Queued, Owner, Connected
    <2>1. /\ Has(events[k], Connected(f))
          /\ Once(events[k], Connected(f)) => Once(events'[k], Connected(f))
      BY DEF Quiet
    <2>2. /\ Owner(f) = k /\ holders[f] = {"event"} /\ Once(events'[k], Connected(f))
      BY <2>1 DEF Queued
    <2> QED
      BY <1>1, <2>2
  <1>11. Waiting' /\ Dials'
    BY <1>9, WaitingKept, DialsKept
  <1>12. Fresh' /\ Foreign'
    BY <1>9 DEF Fresh, Foreign
  <1>13. Greeted'
    BY Ends DEF Greeted, In
  <1>14. Answered'
    <2>1. \A k \in Node : LoopAlive(k)' => LoopAlive(k)
      BY <1>2 DEF LoopAlive
    <2> QED
      BY <1>9, <2>1, Ends, AnsweredKept
  <1> QED
    BY <1>5, <1>6, <1>7, <1>8, <1>10, <1>11, <1>12, <1>13, <1>14

\* The loop drops the stream it was busy with and goes on.
LEMMA ReleaseStep ==
  ASSUME SeedInv, NEW n \in Node, loop[n] = "reading",
         holders' = Release(current[n], "loop"), Resume(n),
         inbox' \in [End -> Seq(Incoming)],
         \A f \in End : inbox[f] = << >> => inbox'[f] = << >> \/ f[1] \in opened,
         \A c \in Conn : From[c] \in Node =>
           /\ Has(inbox'[Out(c)], "Hello") => Has(inbox[Out(c)], "Hello") \/ Listens(c)'
           /\ \A m : Has(inbox'[In(c)], m) => Has(inbox[In(c)], m) \/ m = "Hello",
         UNCHANGED <<events, peers, addr_book, listening, backlog, opened, commands>>
  PROVE  SeedInv'
  <1> USE DEF SeedInv
  <1> DEFINE e == current[n]
  <1>1. e \in End /\ Owner(e) = n /\ holders[e] = {"loop"}
    BY DEF Busy, TypeOK
  <1>2. /\ holders' \in [End -> SUBSET Holder]
        /\ \A f \in End : holders'[f] = IF f = e THEN {} ELSE holders[f]
    BY <1>1 DEF TypeOK, Release
  <1>3. /\ loop' \in [Node -> LoopState]
        /\ \A k \in Node : loop'[k] = IF k = n THEN "running" ELSE loop[k]
        /\ \A k \in Node : LoopAlive(k)' <=> LoopAlive(k)
    BY DEF TypeOK, Resume, LoopState, LoopAlive
  <1>4. /\ current' \in [Node -> End \cup {NoEnd}]
        /\ \A k \in Node : current'[k] = IF k = n THEN NoEnd ELSE current[k]
    BY DEF TypeOK, Resume
  <1>5. TypeOK'
    BY <1>2, <1>3, <1>4 DEF TypeOK
  <1>6. Busy'
    BY <1>1, <1>2, <1>3, <1>4, BusyElsewhere
  <1>7. Held'
    <2>1. \A f \in End : Owner(f) = n =>
            /\ "peer" \in holders'[f] => peers'[n][IdOf(f)] = f
            /\ "loop" \in holders'[f] => current'[n] = f
      BY <1>1, <1>2 DEF Held
    <2> HIDE DEF e
    <2> QED
      BY <1>1, <1>2, <1>4, <2>1, HeldElsewhere
  <1>8. \A k \in Node, id \in Id : peers[k][id] # NoEnd => peers[k][id] \in End /\ peers[k][id] # e
    BY <1>1 DEF TypeOK, Listed
  <1> HIDE DEF e
  <1>9. Listed' /\ Served'
    <2>1. \A k \in Node, id \in Id : peers[k][id] # NoEnd =>
            holders'[peers[k][id]] = holders[peers[k][id]]
      BY <1>2, <1>8
    <2>2. Listed'
      BY <1>3, <2>1 DEF Listed
    <2>3. Served'
      BY <2>1 DEF Served, Disconnect
    <2> QED
      BY <2>2, <2>3
  <1>10. Quiet
    BY DEF Quiet
  <1>11. Queued' /\ Waiting' /\ Dials'
    BY <1>1, <1>2, <1>10, QueuedKept, WaitingKept, DialsKept
  <1>12. Fresh' /\ Foreign'
    BY <1>2 DEF Fresh, Foreign
  <1>13. Greeted'
    BY Ends DEF Greeted, In
  <1>14. Answered'
    <2>1. \A f \in End : /\ "recv" \in holders'[f] <=> "recv" \in holders[f]
                         /\ holders'[f] # {} => holders[f] # {}
      BY <1>1, <1>2
    <2> QED
      BY <1>3, <2>1, Ends, AnsweredKept
  <1> QED
    BY <1>5, <1>6, <1>7, <1>9, <1>11, <1>12, <1>13, <1>14

-----------------------------------------------------------------------------
(* Connections are set up.                                                 *)

\* What a new connection changes: both its ends were nobody's.
LEMMA OpenStep ==
  ASSUME SeedInv, NEW c \in Conn, c \notin opened, NEW whom \in {"loop", "remote"},
         Open(c, whom), inbox' = inbox,
         \A n \in Node : LoopAlive(n)' => LoopAlive(n)
  PROVE  /\ holders' \in [End -> SUBSET Holder]
         /\ \A f \in End : holders'[f] = IF f = Out(c) THEN {whom}
                                         ELSE IF f = In(c) THEN {"backlog"} ELSE holders[f]
         /\ holders[Out(c)] = {} /\ holders[In(c)] = {}
         /\ opened' \in SUBSET Conn /\ backlog' \in [Node -> Seq(Conn)]
         /\ Waiting' /\ Fresh' /\ Greeted' /\ Answered'
  <1> USE DEF SeedInv
  <1>1. /\ Out(c) \in End /\ In(c) \in End /\ Out(c) # In(c)
        /\ holders[Out(c)] = {} /\ holders[In(c)] = {}
        /\ inbox[Out(c)] = << >> /\ inbox[In(c)] = << >>
        /\ To[c] \in Node
    BY Ends DEF Fresh
  <1>2. /\ holders' \in [End -> SUBSET Holder]
        /\ \A f \in End : holders'[f] = IF f = Out(c) THEN {whom}
                                        ELSE IF f = In(c) THEN {"backlog"} ELSE holders[f]
    BY <1>1 DEF Open, TypeOK, Holder
  <1>3. opened' = opened \cup {c} /\ opened' \in SUBSET Conn
    BY DEF Open, TypeOK
  <1>4. /\ backlog[To[c]] \in Seq(Conn)
        /\ \A k \in Node : backlog'[k] = IF k = To[c] THEN Append(backlog[To[c]], c)
                                                      ELSE backlog[k]
    BY <1>1 DEF Open, TypeOK
  <1>5. /\ Append(backlog[To[c]], c) \in Seq(Conn)
        /\ \A x : Has(Append(backlog[To[c]], c), x) => Has(backlog[To[c]], x) \/ x = c
        /\ \A x : Once(backlog[To[c]], x) /\ (x # c \/ ~Has(backlog[To[c]], x))
                    => Once(Append(backlog[To[c]], c), x)
    BY <1>4, Appended
  <1>6. backlog' \in [Node -> Seq(Conn)]
    BY <1>1, <1>5 DEF Open, TypeOK
  <1>7. Waiting'
    <2> SUFFICES ASSUME NEW k \in Node, NEW d \in Conn, Has(backlog'[k], d)
                 PROVE  To[d] = k /\ holders'[In(d)] = {"backlog"} /\ Once(backlog'[k], d)
      BY DEF Waiting, In
    <2>1. ~Has(backlog[k], c)
      BY <1>1 DEF Waiting
    <2>2. CASE d = c
      <3>1. k = To[c]
        BY <1>4, <2>1, <2>2
      <3>2. Once(backlog[k], c)
        BY <2>1 DEF Has, Once
      <3> QED
        BY <1>1, <1>2, <1>4, <1>5, <2>1, <2>2, <3>1, <3>2
    <2>3. CASE d # c
      <3>1. Has(backlog[k], d)
        BY <1>4, <1>5, <2>3
      <3>2. To[d] = k /\ holders[In(d)] = {"backlog"} /\ Once(backlog[k], d)
        BY <3>1 DEF Waiting
      <3>3. In(d) \in End /\ In(d) # In(c) /\ In(d) # Out(c)
        BY <2>3, Ends
      <3> QED
        BY <1>2, <1>4, <1>5, <2>3, <3>2, <3>3
    <2> QED
      BY <2>2, <2>3
  <1>8. Fresh'
    <2> SUFFICES ASSUME NEW f \in End, f[1] \notin opened'
                 PROVE  holders'[f] = {} /\ inbox[f] = << >>
      BY DEF Fresh
    <2>1. f # Out(c) /\ f # In(c) /\ f[1] \notin opened
      BY <1>3, Ends
    <2> QED
      BY <1>2, <2>1 DEF Fresh
  <1>9. Greeted'
    BY DEF Greeted, In
  <1>10. Answered'
    <2> SUFFICES ASSUME NEW d \in Conn, From[d] \in Node, LoopAlive(To[d])',
                        \/ "recv" \in holders'[Out(d)]
                        \/ Has(inbox[Out(d)], "Hello") /\ holders'[Out(d)] # {}
                 PROVE  Listens(d)'
      BY DEF Answered, Out
    <2>1. d # c
      BY <1>1, <1>2, Emptied
    <2>2. /\ Out(d) \in End /\ In(d) \in End
          /\ {Out(d), In(d)} \cap {Out(c), In(c)} = {}
      BY <2>1, Ends
    <2>3. holders'[Out(d)] = holders[Out(d)] /\ holders'[In(d)] = holders[In(d)]
      BY <1>2, <2>2
    <2>4. LoopAlive(To[d])
      BY Ends
    <2>5. Listens(d)
      BY <2>3, <2>4 DEF Answered
    <2>6. Closed(In(d)) => Closed(In(d))'
      BY <1>3, <2>2, <2>3, Ends DEF Closed, In
    <2> QED
      BY <2>3, <2>5, <2>6 DEF Listens, In
  <1> QED
    BY <1>1, <1>2, <1>3, <1>6, <1>7, <1>8, <1>9, <1>10

\* A peer opens a connection.
LEMMA RemoteConnectsStep ==
  ASSUME SeedInv, NEW c \in Conn, RemoteConnects(c)
  PROVE  SeedInv'
  <1> USE DEF SeedInv
  <1>1. /\ Open(c, "remote") /\ c \notin opened /\ From[c] \notin Node
        /\ UNCHANGED <<events, loop, current, peers, addr_book, listening, inbox, commands>>
    BY Ends DEF RemoteConnects, Open, node_vars
  <1>2. \A n \in Node : LoopAlive(n)' <=> LoopAlive(n)
    BY <1>1 DEF LoopAlive
  <1>3. /\ holders' \in [End -> SUBSET Holder]
        /\ \A f \in End : holders'[f] = IF f = Out(c) THEN {"remote"}
                                        ELSE IF f = In(c) THEN {"backlog"} ELSE holders[f]
        /\ holders[Out(c)] = {} /\ holders[In(c)] = {}
        /\ opened' \in SUBSET Conn /\ backlog' \in [Node -> Seq(Conn)]
        /\ Waiting' /\ Fresh' /\ Greeted' /\ Answered'
    BY <1>1, <1>2, OpenStep
  <1>4. \A f \in End : holders[f] # {} => holders'[f] = holders[f]
    BY <1>3
  <1>5. TypeOK'
    BY <1>1, <1>3 DEF TypeOK
  <1>6. Busy'
    BY <1>1, <1>4 DEF Busy, TypeOK
  <1>7. Listed' /\ Served'
    <2>1. \A k \in Node, id \in Id : peers[k][id] # NoEnd =>
            holders'[peers[k][id]] = holders[peers[k][id]]
      BY <1>4 DEF Listed, TypeOK
    <2>2. Listed'
      BY <1>1, <1>2, <2>1 DEF Listed
    <2>3. Served'
      BY <1>1, <2>1 DEF Served, Disconnect
    <2> QED
      BY <2>2, <2>3
  <1>8. Held'
    BY <1>1, <1>3 DEF Held
  <1>9. Queued'
    <2>1. Quiet
      BY <1>1 DEF Quiet
    <2> QED
      BY <1>4, <2>1, QueuedKept
  <1>10. Dials'
    <2>1. opened' = opened \cup {c}
      BY <1>1 DEF Open
    <2> QED
      BY <1>1, <2>1 DEF Dials, Connect, Connected
  <1>11. Foreign'
    <2> SUFFICES ASSUME NEW f \in End, "remote" \in holders'[f]
                 PROVE  Owner(f) \notin Node
      BY DEF Foreign, Owner
    <2>1. CASE f = Out(c)
      BY <1>1, <2>1, Ends
    <2>2. CASE f # Out(c)
      BY <1>3, <2>2 DEF Foreign
    <2> QED
      BY <2>1, <2>2
  <1> QED
    BY <1>3, <1>5, <1>6, <1>7, <1>8, <1>9, <1>10, <1>11

\* The loop dials, or is refused.
LEMMA HandleConnectStep ==
  ASSUME SeedInv, NEW n \in Node, NEW c \in Conn, HandleConnect(n, c)
  PROVE  SeedInv'
  <1> USE DEF SeedInv
  <1>1. /\ Takes(n, Connect(c)) /\ events' = Rest(n)
        /\ UNCHANGED <<addr_book, listening, inbox, commands>>
    BY DEF HandleConnect
  <1>2. /\ events' \in [Node -> Seq(Event)]
        /\ Quiet
        /\ Has(events[n], Connect(c))
        /\ Once(events[n], Connect(c)) => ~Has(events'[n], Connect(c))
        /\ \A k \in Node : \A x : Has(events[k], x) => Has(events'[k], x) \/ (k = n /\ x = Connect(c))
    BY <1>1, RestOf
  <1>3. \A k \in Node : \A id : Has(events[k], Disconnect(id)) => Has(events'[k], Disconnect(id))
    BY <1>2, Events
  <1>4. /\ From[c] = n /\ c \notin opened
        /\ ~Has(events'[n], Connect(c)) /\ <<n, Connect(c)>> \notin commands
    BY <1>2 DEF Dials
  <1>5. LoopAlive(n) /\ loop[n] = "running"
    BY <1>1 DEF Takes, LoopAlive
  <1>6. CASE /\ DropNode(n, "failed", holders)
             /\ UNCHANGED <<opened, backlog>>
    <2>1. \A k \in Node : k # n => events'[k] = events[k]
      BY <1>1 DEF Rest, TypeOK
    <2>2. /\ inbox' = inbox /\ inbox \in [End -> Seq(Incoming)]
          /\ holders \in [End -> SUBSET Holder]
      BY <1>1 DEF TypeOK
    <2> QED
      BY <1>1, <1>2, <1>5, <1>6, <2>1, <2>2, DropStep
  <1>7. CASE /\ Open(c, "loop")
             /\ loop' = [loop EXCEPT ![n] = "greeting"]
             /\ current' = [current EXCEPT ![n] = Out(c)]
             /\ UNCHANGED peers
    <2>1. /\ loop' \in [Node -> LoopState]
          /\ \A k \in Node : loop'[k] = IF k = n THEN "greeting" ELSE loop[k]
          /\ \A k \in Node : LoopAlive(k)' <=> LoopAlive(k)
      BY <1>5, <1>7 DEF TypeOK, LoopState, LoopAlive
    <2>2. /\ holders' \in [End -> SUBSET Holder]
          /\ \A f \in End : holders'[f] = IF f = Out(c) THEN {"loop"}
                                          ELSE IF f = In(c) THEN {"backlog"} ELSE holders[f]
          /\ holders[Out(c)] = {} /\ holders[In(c)] = {}
          /\ opened' \in SUBSET Conn /\ backlog' \in [Node -> Seq(Conn)]
          /\ Waiting' /\ Fresh' /\ Greeted' /\ Answered'
      BY <1>1, <1>4, <1>7, <2>1, OpenStep
    <2>3. \A f \in End : holders[f] # {} => holders'[f] = holders[f]
      BY <2>2
    <2>4. /\ Out(c) \in End /\ Owner(Out(c)) = n /\ Out(c) # NoEnd /\ In(c) # Out(c)
      BY <1>4, Ends
    <2>5. /\ current' \in [Node -> End \cup {NoEnd}]
          /\ \A k \in Node : current'[k] = IF k = n THEN Out(c) ELSE current[k]
      BY <1>7, <2>4 DEF TypeOK
    <2>6. TypeOK'
      BY <1>1, <1>2, <1>7, <2>1, <2>2, <2>5 DEF TypeOK
    <2>7. Busy'
      <3> SUFFICES ASSUME NEW k \in Node
                   PROVE  /\ loop'[k] \in {"greeting", "reading"} <=> current'[k] # NoEnd
                          /\ current'[k] # NoEnd => /\ Owner(current'[k]) = k
                                                   /\ holders'[current'[k]] = {"loop"}
                          /\ loop'[k] = "greeting" => \E d \in Conn : current'[k] = Out(d)
        BY DEF Busy, Owner, Out
      <3>1. CASE k = n
        BY <2>1, <2>2, <2>4, <2>5, <3>1
      <3>2. CASE k # n
        <4>1. loop'[k] = loop[k] /\ current'[k] = current[k]
          BY <2>1, <2>5, <3>2
        <4>2. current[k] # NoEnd => /\ Owner(current[k]) = k
                                    /\ holders'[current[k]] = {"loop"}
          BY <2>3 DEF Busy, TypeOK
        <4> QED
          BY <4>1, <4>2 DEF Busy
      <3> QED
        BY <3>1, <3>2
    <2>8. Listed' /\ Served'
      <3>1. \A k \in Node, id \in Id : peers[k][id] # NoEnd =>
              holders'[peers[k][id]] = holders[peers[k][id]]
        BY <2>3 DEF Listed, TypeOK
      <3>2. Listed'
        BY <1>7, <2>1, <3>1 DEF Listed
      <3>3. Served'
        BY <1>3, <1>7, <3>1 DEF Served, Disconnect
      <3> QED
        BY <3>2, <3>3
    <2>9. Held'
      <3> SUFFICES ASSUME NEW f \in End, Owner(f) \in Node
                   PROVE  /\ "peer" \in holders'[f] => peers[Owner(f)][IdOf(f)] = f
                          /\ "loop" \in holders'[f] => current'[Owner(f)] = f
        BY <1>7 DEF Held, Owner, IdOf, Other
      <3>1. CASE f = Out(c)
        BY <2>2, <2>4, <2>5, <3>1
      <3>2. CASE f = In(c)
        BY <2>2, <2>4, <3>2
      <3>3. CASE f # Out(c) /\ f # In(c)
        <4>1. holders'[f] = holders[f]
          BY <2>2, <3>3
        <4>2. current[n] = NoEnd
          BY <1>5 DEF Busy
        <4>3. "loop" \in holders[f] => current[Owner(f)] = f /\ Owner(f) # n
          BY <4>2, Ends DEF Held
        <4> QED
          BY <2>5, <4>1, <4>3 DEF Held
      <3> QED
        BY <3>1, <3>2, <3>3
    <2>10. Queued'
      BY <1>2, <2>3, QueuedKept
    <2>11. Dials'
      <3>1. opened' = opened \cup {c} /\ commands' = commands
        BY <1>1, <1>7 DEF Open
      <3>2. ASSUME NEW k \in Node, NEW d \in Conn, Has(events'[k], Connect(d))
            PROVE  /\ From[d] = k /\ d \notin opened'
                   /\ Once(events'[k], Connect(d)) /\ <<k, Connect(d)>> \notin commands'
        <4>1. /\ Has(events[k], Connect(d))
              /\ Once(events[k], Connect(d)) => Once(events'[k], Connect(d))
          BY <1>2, <3>2 DEF Quiet
        <4>2. /\ From[d] = k /\ d \notin opened
              /\ Once(events[k], Connect(d)) /\ <<k, Connect(d)>> \notin commands
          BY <4>1 DEF Dials
        <4>3. d # c
          BY <1>4, <3>2, <4>2
        <4> QED
          BY <3>1, <4>1, <4>2, <4>3
      <3>3. ASSUME NEW k \in Node, NEW d \in Conn, <<k, Connect(d)>> \in commands'
            PROVE  From[d] = k /\ d \notin opened'
        BY <1>4, <3>1, <3>3 DEF Dials
      <3>4. ASSUME NEW k \in Node, NEW e \in End
            PROVE  <<k, Connected(e)>> \notin commands'
        BY <3>1 DEF Dials
      <3> QED
        BY <3>2, <3>3, <3>4 DEF Dials, Connect, Connected
    <2>12. Foreign'
      BY <2>2 DEF Foreign
    <2> QED
      BY <2>2, <2>6, <2>7, <2>8, <2>9, <2>10, <2>11, <2>12
  <1> QED
    BY <1>6, <1>7 DEF HandleConnect

-----------------------------------------------------------------------------
(* Streams are handed on.                                                  *)

\* A stream nobody has queued is queued.
LEMMA StreamQueued ==
  ASSUME SeedInv, NEW n \in Node, NEW e \in End, Owner(e) = n, holders[e] # {"event"},
         events' = [events EXCEPT ![n] = Append(@, Connected(e))],
         \A f \in End : holders'[f] = IF f = e THEN {"event"} ELSE holders[f],
         UNCHANGED <<opened, commands>>
  PROVE  /\ events' \in [Node -> Seq(Event)]
         /\ Queued' /\ Dials'
         /\ \A k \in Node : \A x : Has(events[k], x) => Has(events'[k], x)
  <1> USE DEF SeedInv
  <1> DEFINE ev == Connected(e)
  <1>1. ev \in Event /\ events[n] \in Seq(Event)
    BY Events DEF TypeOK
  <1>2. /\ \A k \in Node : events'[k] = IF k = n THEN Append(events[n], ev) ELSE events[k]
        /\ events' = [events EXCEPT ![n] = Append(events[n], ev)]
    BY DEF TypeOK
  <1>3. \A k \in Node : ~Has(events[k], ev)
    BY DEF Queued
  <1>4. \A c, f : ev # Connect(c) /\ (ev = Connected(f) => f = e)
    BY Events
  <1> HIDE DEF ev
  <1>5. /\ Append(events[n], ev) \in Seq(Event)
        /\ \A x : Has(Append(events[n], ev), x) => Has(events[n], x) \/ x = ev
        /\ \A x : Has(events[n], x) => Has(Append(events[n], ev), x)
        /\ \A x : Once(events[n], x) /\ (x # ev \/ ~Has(events[n], x))
                    => Once(Append(events[n], ev), x)
    BY <1>1, Appended
  <1>6. events' \in [Node -> Seq(Event)]
    BY <1>2, <1>5 DEF TypeOK
  <1>7. \A k \in Node : \A x : Has(events[k], x) => Has(events'[k], x)
    BY <1>2, <1>5
  <1>8. \A k \in Node : \A x : x # ev =>
          /\ Has(events'[k], x) => Has(events[k], x)
          /\ Once(events[k], x) => Once(events'[k], x)
    BY <1>2, <1>5
  <1>9. Queued'
    <2> SUFFICES ASSUME NEW k \in Node, NEW f \in End, Has(events'[k], Connected(f))
                 PROVE  /\ Owner(f) = k /\ holders'[f] = {"event"}
                        /\ Once(events'[k], Connected(f))
      BY DEF Queued, Owner, Connected
    <2>1. CASE f = e
      <3>1. Connected(f) = ev
        BY <2>1 DEF ev
      <3>2. k = n
        BY <1>2, <1>3, <3>1
      <3>3. Once(events[n], ev)
        BY <1>3 DEF Has, Once
      <3> QED
        BY <1>2, <1>3, <1>5, <2>1, <3>1, <3>2, <3>3
    <2>2. CASE f # e
      <3>1. Connected(f) # ev
        BY <1>4, <2>2
      <3>2. /\ Has(events[k], Connected(f))
            /\ Once(events[k], Connected(f)) => Once(events'[k], Connected(f))
        BY <1>8, <3>1
      <3> QED
        BY <2>2, <3>2 DEF Queued
    <2> QED
      BY <2>1, <2>2
  <1>10. Dials'
    <2>1. ASSUME NEW k \in Node, NEW d \in Conn, Has(events'[k], Connect(d))
          PROVE  /\ From[d] = k /\ d \notin opened
                 /\ Once(events'[k], Connect(d)) /\ <<k, Connect(d)>> \notin commands
      <3>1. Connect(d) # ev
        BY <1>4
      <3>2. /\ Has(events[k], Connect(d))
            /\ Once(events[k], Connect(d)) => Once(events'[k], Connect(d))
        BY <1>8, <2>1, <3>1
      <3> QED
        BY <3>2 DEF Dials
    <2>2. ASSUME NEW k \in Node, NEW d \in Conn, <<k, Connect(d)>> \in commands
          PROVE  From[d] = k /\ d \notin opened
      BY <2>2 DEF Dials
    <2>3. ASSUME NEW k \in Node, NEW f \in End
          PROVE  <<k, Connected(f)>> \notin commands
      BY DEF Dials
    <2> QED
      BY <2>1, <2>2, <2>3 DEF Dials, Connect, Connected
  <1> QED
    BY <1>6, <1>7, <1>9, <1>10

\* An end passes from one holder to the next, neither of them a session.
LEMMA MoveStep ==
  ASSUME SeedInv, NEW n \in Node, NEW e \in End, Owner(e) = n,
         NEW from \in {"backlog", "event", "loop"}, NEW to \in {"event", "loop"},
         holders[e] = {from}, holders' = HandOver(e, from, {to}),
         peers' = peers, opened' = opened,
         \A k \in Node : LoopAlive(k)' <=> LoopAlive(k),
         \A k \in Node : \A id : Has(events[k], Disconnect(id)) => Has(events'[k], Disconnect(id)),
         \A f \in End : inbox[f] = << >> => inbox'[f] = << >> \/ f[1] \in opened,
         \A c \in Conn : From[c] \in Node /\ Has(inbox'[Out(c)], "Hello")
                            => Has(inbox[Out(c)], "Hello")
  PROVE  /\ holders' \in [End -> SUBSET Holder]
         /\ \A f \in End : holders'[f] = IF f = e THEN {to} ELSE holders[f]
         /\ Listed' /\ Served' /\ Fresh' /\ Foreign' /\ Answered'
  <1> USE DEF SeedInv
  <1>1. /\ holders' \in [End -> SUBSET Holder]
        /\ \A f \in End : holders'[f] = IF f = e THEN {to} ELSE holders[f]
    BY DEF TypeOK, HandOver, Holder
  <1>2. \A x \in Session \cup {"remote"} :
          \A f \in End : x \in holders'[f] <=> x \in holders[f]
    <2>1. \A x \in Session \cup {"remote"} : x # from /\ x # to
      BY DEF Session
    <2> QED
      BY <1>1, <2>1
  <1>3. Listed' /\ Served'
    <2>1. from # "peer"
      OBVIOUS
    <2>2. ASSUME NEW k \in Node, NEW id \in Id, peers[k][id] # NoEnd
          PROVE  holders'[peers[k][id]] = holders[peers[k][id]]
      <3>1. peers[k][id] \in End /\ "peer" \in holders[peers[k][id]]
        BY <2>2 DEF Listed, TypeOK
      <3>2. peers[k][id] # e
        BY <2>1, <3>1
      <3> QED
        BY <1>1, <3>1, <3>2
    <2>3. Listed'
      <3> SUFFICES ASSUME NEW k \in Node, NEW id \in Id, peers[k][id] # NoEnd
                   PROVE  /\ LoopAlive(k)' /\ Owner(peers[k][id]) = k /\ IdOf(peers[k][id]) = id
                          /\ "peer" \in holders'[peers[k][id]]
                          /\ holders'[peers[k][id]] \subseteq Session
        BY DEF Listed
      <3>1. /\ LoopAlive(k) /\ Owner(peers[k][id]) = k /\ IdOf(peers[k][id]) = id
            /\ "peer" \in holders[peers[k][id]]
            /\ holders[peers[k][id]] \subseteq Session
        BY DEF Listed
      <3>2. LoopAlive(k)'
        BY <3>1
      <3> QED
        BY <2>2, <3>1, <3>2
    <2>4. Served'
      BY <2>2 DEF Served, Disconnect
    <2> QED
      BY <2>3, <2>4
  <1>4. Fresh'
    BY <1>1 DEF Fresh
  <1>6. Foreign'
    BY <1>2 DEF Foreign
  <1>5. Answered'
    <2>1. \A f \in End : /\ "recv" \in holders'[f] <=> "recv" \in holders[f]
                         /\ holders'[f] # {} => holders[f] # {}
      BY <1>2, <1>1 DEF Session
    <2> QED
      BY <2>1, Ends, AnsweredKept
  <1> QED
    BY <1>1, <1>3, <1>4, <1>5, <1>6

\* The loop says Hello to whom it has dialled, or fails to.
LEMMA GreetStep ==
  ASSUME SeedInv, NEW n \in Node, Greet(n)
  PROVE  SeedInv'
  <1> USE DEF SeedInv
  <1> DEFINE e == current[n]
  <1>1. /\ loop[n] = "greeting" /\ LoopAlive(n)
        /\ UNCHANGED <<addr_book, listening, backlog, opened, commands>>
    BY DEF Greet, LoopAlive
  <1>2. PICK c \in Conn : e = Out(c)
    BY <1>1 DEF Busy
  <1>3. /\ e \in End /\ Owner(e) = n /\ holders[e] = {"loop"} /\ c \in opened
        /\ Other(e) = In(c) /\ In(c) \in End /\ In(c)[1] = c
    <2>1. e # NoEnd /\ e \in End
      BY <1>1 DEF Busy, TypeOK
    <2>2. holders[e] = {"loop"} /\ Owner(e) = n
      BY <2>1 DEF Busy
    <2> QED
      BY <1>2, <2>1, <2>2, Ends DEF Fresh
  <1> HIDE DEF e
  <1>4. CASE HelloFails(e) /\ DropNode(n, "failed", holders) /\ UNCHANGED events
    <2>1. /\ inbox' = inbox /\ inbox \in [End -> Seq(Incoming)]
          /\ events' = events /\ events \in [Node -> Seq(Event)]
          /\ holders \in [End -> SUBSET Holder]
      BY <1>4 DEF HelloFails, TypeOK
    <2>2. Quiet
      BY <2>1 DEF Quiet
    <2> QED
      BY <1>1, <1>4, <2>1, <2>2, DropStep
  <1>5. CASE /\ SaysHello(e)
             /\ events' = [events EXCEPT ![n] = Append(@, Connected(e))]
             /\ holders' = HandOver(e, "loop", {"event"})
             /\ Resume(n)
             /\ UNCHANGED peers
    <2>1. /\ inbox' \in [End -> Seq(Incoming)]
          /\ \A f \in End : f # In(c) => inbox'[f] = inbox[f]
          /\ \A m : Has(inbox'[In(c)], m) => Has(inbox[In(c)], m) \/ m = "Hello"
      <3>1. inbox[In(c)] \in Seq(Incoming) /\ inbox \in [End -> Seq(Incoming)]
        BY <1>3 DEF TypeOK
      <3>2. CASE inbox' = inbox
        BY <3>1, <3>2
      <3>3. CASE inbox' = [inbox EXCEPT ![In(c)] = Append(@, "Hello")]
        <4>1. /\ Append(inbox[In(c)], "Hello") \in Seq(Incoming)
              /\ \A m : Has(Append(inbox[In(c)], "Hello"), m) => Has(inbox[In(c)], m) \/ m = "Hello"
          BY <3>1, Appended, Messages
        <4> QED
          BY <1>3, <3>1, <3>3, <4>1
      <3> QED
        BY <1>3, <1>5, <3>2, <3>3 DEF SaysHello
    <2>2. /\ loop' \in [Node -> LoopState]
          /\ \A k \in Node : loop'[k] = IF k = n THEN "running" ELSE loop[k]
          /\ \A k \in Node : LoopAlive(k)' <=> LoopAlive(k)
      BY <1>1, <1>5 DEF TypeOK, Resume, LoopState, LoopAlive
    <2>3. /\ current' \in [Node -> End \cup {NoEnd}]
          /\ \A k \in Node : current'[k] = IF k = n THEN NoEnd ELSE current[k]
      BY <1>5 DEF TypeOK, Resume
    <2>4. \A f \in End : holders'[f] = IF f = e THEN {"event"} ELSE holders[f]
      BY <1>3, <1>5 DEF HandOver, TypeOK
    <2>5. /\ events' \in [Node -> Seq(Event)]
          /\ Queued' /\ Dials'
          /\ \A k \in Node : \A x : Has(events[k], x) => Has(events'[k], x)
      BY <1>1, <1>3, <1>5, <2>4, StreamQueued
    <2>6. /\ holders' \in [End -> SUBSET Holder]
          /\ Listed' /\ Served' /\ Fresh' /\ Foreign' /\ Answered'
      <3>1. \A f \in End : inbox[f] = << >> => inbox'[f] = << >> \/ f[1] \in opened
        BY <1>3, <2>1
      <3>2. \A d \in Conn : From[d] \in Node /\ Has(inbox'[Out(d)], "Hello")
                              => Has(inbox[Out(d)], "Hello")
        BY <1>2, <2>1, Ends
      <3> QED
        BY <1>1, <1>3, <1>5, <2>2, <2>5, <3>1, <3>2, MoveStep
    <2>7. TypeOK'
      BY <1>1, <1>5, <2>1, <2>2, <2>3, <2>5, <2>6 DEF TypeOK
    <2>8. Busy'
      BY <1>3, <2>2, <2>3, <2>4, BusyElsewhere
    <2>9. Held'
      <3>1. \A f \in End : Owner(f) = n =>
              /\ "peer" \in holders'[f] => peers'[n][IdOf(f)] = f
              /\ "loop" \in holders'[f] => current'[n] = f
        BY <1>5, <2>4 DEF Held, e
      <3> QED
        BY <1>3, <1>5, <2>3, <2>4, <3>1, HeldElsewhere
    <2>10. Waiting'
      BY <1>1, <1>3, <2>4, WaitingKept
    <2>11. Greeted'
      <3> SUFFICES ASSUME NEW d \in Conn, From[d] \in Node, NEW m, Has(inbox'[In(d)], m)
                   PROVE  m = "Hello"
        BY DEF Greeted, In
      <3>1. In(d) \in End
        BY Ends
      <3> QED
        BY <2>1, <3>1 DEF Greeted
    <2> QED
      BY <2>5, <2>6, <2>7, <2>8, <2>9, <2>10, <2>11
  <1> QED
    BY <1>4, <1>5 DEF Greet, e

\* The loop takes a stream to read the Hello from, or ends for want of a clone.
LEMMA HandleConnectedStep ==
  ASSUME SeedInv, NEW n \in Node, NEW e \in End, HandleConnected(n, e)
  PROVE  SeedInv'
  <1> USE DEF SeedInv
  <1>1. /\ Takes(n, Connected(e)) /\ events' = Rest(n)
        /\ UNCHANGED <<addr_book, listening, backlog, inbox, opened, commands>>
    BY DEF HandleConnected
  <1>2. /\ events' \in [Node -> Seq(Event)]
        /\ Quiet
        /\ Has(events[n], Connected(e))
        /\ Once(events[n], Connected(e)) => ~Has(events'[n], Connected(e))
        /\ \A k \in Node : \A x : Has(events[k], x) => Has(events'[k], x) \/ (k = n /\ x = Connected(e))
    BY <1>1, RestOf
  <1>3. Owner(e) = n /\ holders[e] = {"event"} /\ ~Has(events'[n], Connected(e)) /\ e # NoEnd
    BY <1>2, Ends DEF Queued
  <1>4. \A k \in Node : \A id : Has(events[k], Disconnect(id)) => Has(events'[k], Disconnect(id))
    BY <1>2, Events
  <1>5. LoopAlive(n) /\ loop[n] = "running" /\ current[n] = NoEnd
    BY <1>1 DEF Takes, LoopAlive, Busy
  <1>6. CASE n \in Starved /\ DropNode(n, "failed", HandOver(e, "event", {"loop"}))
    <2> DEFINE held == HandOver(e, "event", {"loop"})
    <2>1. /\ held \in [End -> SUBSET Holder]
          /\ \A f \in End : held[f] = IF f = e THEN {"loop"} ELSE holders[f]
      BY <1>3 DEF HandOver, TypeOK, Holder
    <2>2. \A f \in End : \/ held[f] = holders[f]
                         \/ /\ Owner(f) = n /\ held[f] = {"loop"} /\ holders[f] = {"event"}
                            /\ ~Has(events'[n], Connected(f))
      BY <1>3, <2>1
    <2>3. DropNode(n, "failed", held)
      BY <1>6
    <2>4. \A k \in Node : k # n => events'[k] = events[k]
      BY <1>1 DEF Rest, TypeOK
    <2>5. inbox' = inbox /\ inbox \in [End -> Seq(Incoming)]
      BY <1>1 DEF TypeOK
    <2> HIDE DEF held
    <2> QED
      BY <1>1, <1>2, <1>5, <2>1, <2>2, <2>3, <2>4, <2>5, DropStep
  <1>7. CASE /\ loop' = [loop EXCEPT ![n] = "reading"]
             /\ current' = [current EXCEPT ![n] = e]
             /\ holders' = HandOver(e, "event", {"loop"})
             /\ UNCHANGED peers
    <2>1. /\ loop' \in [Node -> LoopState]
          /\ \A k \in Node : loop'[k] = IF k = n THEN "reading" ELSE loop[k]
          /\ \A k \in Node : LoopAlive(k)' <=> LoopAlive(k)
      BY <1>5, <1>7 DEF TypeOK, LoopState, LoopAlive
    <2>2. /\ current' \in [Node -> End \cup {NoEnd}]
          /\ \A k \in Node : current'[k] = IF k = n THEN e ELSE current[k]
      BY <1>7 DEF TypeOK
    <2>3. /\ holders' \in [End -> SUBSET Holder]
          /\ \A f \in End : holders'[f] = IF f = e THEN {"loop"} ELSE holders[f]
          /\ Listed' /\ Served' /\ Fresh' /\ Foreign' /\ Answered'
      BY <1>1, <1>3, <1>4, <1>7, <2>1, MoveStep
    <2>4. TypeOK'
      BY <1>1, <1>2, <1>7, <2>1, <2>2, <2>3 DEF TypeOK
    <2>5. Busy'
      BY <1>3, <2>1, <2>2, <2>3, BusyElsewhere
    <2>6. Held'
      <3>1. \A f \in End : Owner(f) = n =>
              /\ "peer" \in holders'[f] => peers'[n][IdOf(f)] = f
              /\ "loop" \in holders'[f] => current'[n] = f
        BY <1>5, <1>7, <2>2, <2>3, Ends DEF Held
      <3> QED
        BY <1>3, <1>7, <2>2, <2>3, <3>1, HeldElsewhere
    <2>7. Queued'
      <3> SUFFICES ASSUME NEW k \in Node, NEW f \in End, Has(events'[k], Connected(f))
                   PROVE  /\ Owner(f) = k /\ holders'[f] = {"event"}
                          /\ Once(events'[k], Connected(f))
        BY DEF Queued, Owner, Connected
      <3>1. /\ Has(events[k], Connected(f))
            /\ Once(events[k], Connected(f)) => Once(events'[k], Connected(f))
        BY <1>2 DEF Quiet
      <3>2. /\ Owner(f) = k /\ holders[f] = {"event"} /\ Once(events'[k], Connected(f))
        BY <3>1 DEF Queued
      <3>3. f # e
        BY <1>3, <3>2
      <3> QED
        BY <2>3, <3>2, <3>3
    <2>8. Waiting'
      BY <1>1, <1>3, <2>3, WaitingKept
    <2>9. Dials'
      BY <1>1, <1>2, DialsKept
    <2>10. Greeted'
      BY <1>1 DEF Greeted, In
    <2> QED
      BY <2>3, <2>4, <2>5, <2>6, <2>7, <2>8, <2>9, <2>10
  <1> QED
    BY <1>6, <1>7 DEF HandleConnected

\* The loop gives up the stream at hand: nothing, or no Hello of a new peer,
\* came over it, or there are no streams for the threads of that peer.
LEMMA NotListedStep ==
  ASSUME SeedInv, NEW n \in Node, NoHello(n) \/ Reject(n) \/ AddPeerUnlisted(n)
  PROVE  SeedInv'
  <1> USE DEF SeedInv
  <1>1. CASE NoHello(n)
    <2>1. inbox' = inbox /\ inbox \in [End -> Seq(Incoming)]
      BY <1>1 DEF NoHello, TypeOK
    <2> QED
      BY <1>1, <2>1, ReleaseStep DEF NoHello
  <1>2. CASE Reject(n)
    <2>1. /\ loop[n] = "reading" /\ inbox[current[n]] # << >>
          /\ inbox' = [inbox EXCEPT ![current[n]] = Tail(@)]
      BY <1>2 DEF Reject, Reads
    <2>2. current[n] \in End
      BY <2>1 DEF Busy, TypeOK
    <2>3. /\ inbox' \in [End -> Seq(Incoming)]
          /\ \A f \in End : \A m : Has(inbox'[f], m) => Has(inbox[f], m)
          /\ \A f \in End : inbox[f] = << >> => inbox'[f] = << >>
      BY <2>1, <2>2, ReadFrom
    <2>4. \A c \in Conn : In(c) \in End /\ Out(c) \in End
      BY Ends
    <2> QED
      BY <1>2, <2>1, <2>3, <2>4, ReleaseStep DEF Reject
  <1>3. CASE AddPeerUnlisted(n)
    <2> DEFINE e == current[n]
    <2>1. /\ loop[n] = "reading" /\ inbox[e] # << >> /\ n \in Starved
          /\ AnswersHello(e) /\ holders' = Release(e, "loop") /\ Resume(n)
          /\ UNCHANGED <<events, peers, addr_book, listening, backlog, opened, commands>>
      BY <1>3 DEF AddPeerUnlisted, Reads
    <2>2. e \in End /\ Owner(e) = n /\ holders[e] = {"loop"}
      BY <2>1 DEF Busy, TypeOK
    <2>3. e[1] \in opened /\ holders'[e] = {}
      BY <2>1, <2>2 DEF Fresh, Release, TypeOK
    <2>4. ASSUME NEW c \in Conn, e = In(c)
          PROVE  Listens(c)'
      <3>1. To[c] \in Starved /\ c \in opened' /\ In(c)[1] = c
        BY <2>1, <2>2, <2>3, <2>4, Ends
      <3> QED
        BY <2>3, <2>4, <3>1 DEF Listens, Closed, In
    <2> HIDE DEF e
    <2>5. /\ inbox' \in [End -> Seq(Incoming)]
          /\ \A f \in End : inbox[f] = << >> => inbox'[f] = << >> \/ f[1] \in opened
      BY <2>1, <2>2, SaidBack
    <2>6. \A c \in Conn : From[c] \in Node =>
            /\ Has(inbox'[Out(c)], "Hello") => Has(inbox[Out(c)], "Hello") \/ Listens(c)'
            /\ \A m : Has(inbox'[In(c)], m) => Has(inbox[In(c)], m) \/ m = "Hello"
      BY <2>1, <2>2, <2>4, SaidBackTo
    <2> QED
      BY <2>1, <2>5, <2>6, ReleaseStep DEF e
  <1> QED
    BY <1>1, <1>2, <1>3

\* The loop ends: it cannot say Hello back or go on after that, or is told to
\* terminate.
LEMMA LoopEndsStep ==
  ASSUME SeedInv, NEW n \in Node, AddPeerFails(n) \/ HandleTerminate(n)
  PROVE  SeedInv'
  <1> USE DEF SeedInv
  <1>1. holders \in [End -> SUBSET Holder] /\ events \in [Node -> Seq(Event)]
        /\ inbox \in [End -> Seq(Incoming)]
    BY DEF TypeOK
  <1>2. CASE AddPeerFails(n)
    <2> DEFINE e == current[n]
    <2>1. /\ loop[n] = "reading" /\ inbox[e] # << >> /\ LoopAlive(n) /\ AnswersHello(e)
          /\ DropNode(n, "failed", holders) /\ events' = events
          /\ UNCHANGED <<addr_book, listening, backlog, opened, commands>>
      BY <1>2 DEF AddPeerFails, Reads, LoopAlive
    <2>2. e \in End /\ Owner(e) = n
      BY <2>1 DEF Busy, TypeOK
    <2> HIDE DEF e
    <2>3. /\ inbox' \in [End -> Seq(Incoming)]
          /\ \A f \in End : inbox[f] = << >> => inbox'[f] = << >> \/ f[1] \in opened
      BY <2>1, <2>2, SaidBack
    <2>4. ~LoopAlive(n)'
      BY <2>1 DEF DropNode, LoopAlive, TypeOK
    <2>5. \A c \in Conn : From[c] \in Node =>
            /\ Has(inbox'[Out(c)], "Hello") /\ LoopAlive(To[c])' => Has(inbox[Out(c)], "Hello")
            /\ \A m : Has(inbox'[In(c)], m) => Has(inbox[In(c)], m) \/ m = "Hello"
      <3>1. \A c \in Conn : e = In(c) => ~LoopAlive(To[c])'
        BY <2>2, <2>4, Ends
      <3> QED
        BY <2>1, <2>2, <3>1, SaidBackTo
    <2>6. Quiet
      BY <2>1 DEF Quiet
    <2> QED
      BY <1>1, <2>1, <2>3, <2>5, <2>6, DropStep
  <1>3. CASE HandleTerminate(n)
    <2>1. /\ Takes(n, Terminate) /\ events' = Rest(n) /\ DropNode(n, "stopped", holders)
          /\ LoopAlive(n)
          /\ UNCHANGED <<addr_book, listening, backlog, inbox, opened, commands>>
      BY <1>3 DEF HandleTerminate, Takes, LoopAlive
    <2>2. Quiet /\ events' \in [Node -> Seq(Event)]
      BY <2>1, RestOf
    <2>3. \A k \in Node : k # n => events'[k] = events[k]
      BY <2>1 DEF Rest, TypeOK
    <2> QED
      BY <1>1, <2>1, <2>2, <2>3, DropStep
  <1> QED
    BY <1>2, <1>3

\* A new peer is listed: the stream at hand becomes a session.
LEMMA AddPeerStep ==
  ASSUME SeedInv, NEW n \in Node, AddPeer(n)
  PROVE  SeedInv'
  <1> USE DEF SeedInv
  <1> DEFINE e == current[n]
  <1>1. /\ loop[n] = "reading" /\ LoopAlive(n) /\ peers[n][IdOf(e)] = NoEnd
        /\ UNCHANGED <<listening, backlog, opened, commands>>
    BY DEF AddPeer, Reads, LoopAlive
  <1>2. /\ e \in End /\ e # NoEnd /\ Owner(e) = n /\ holders[e] = {"loop"} /\ e[1] \in opened
        /\ Other(e) \in End /\ Other(e) # e /\ Other(e)[1] = e[1] /\ IdOf(e) \in Id
    <2>1. e # NoEnd /\ e \in End
      BY <1>1 DEF Busy, TypeOK
    <2>2. holders[e] = {"loop"} /\ Owner(e) = n
      BY <2>1 DEF Busy
    <2> QED
      BY <2>1, <2>2, Ends DEF Fresh
  <1>3. /\ inbox[e] # << >> /\ Head(inbox[e]) = "Hello"
        /\ AnswersHello(e)
        /\ holders' = HandOver(e, "loop", {"peer", "send", "recv"})
        /\ peers' = [peers EXCEPT ![n][IdOf(e)] = e]
        /\ addr_book' = [addr_book EXCEPT
                           ![n] = Append(@, [id |-> IdOf(e), addr |-> LocalAddr(e)])]
        /\ events' = [events EXCEPT ![n] = Append(@, Notice)]
        /\ Resume(n)
    BY DEF AddPeer, Reads
  <1> HIDE DEF e
  <1>4. Has(inbox[e], "Hello")
    <2>1. inbox[e] \in Seq(Incoming)
      BY <1>2 DEF TypeOK
    <2> QED
      BY <1>3, <2>1, Taken
  <1>5. /\ inbox' \in [End -> Seq(Incoming)]
        /\ \A f \in End : f # e /\ f # Other(e) => inbox'[f] = inbox[f]
        /\ \A m : Has(inbox'[e], m) => Has(inbox[e], m)
        /\ \A m : Has(inbox'[Other(e)], m) => Has(inbox[Other(e)], m) \/ m = "Hello"
    BY <1>2, <1>3, SaidBack
  <1>6. /\ events' \in [Node -> Seq(Event)]
        /\ Quiet
        /\ \A k \in Node : \A x : Has(events[k], x) => Has(events'[k], x)
    <2>1. events \in [Node -> Seq(Event)] /\ events' = Emit(events, n, Notice)
      BY <1>1, <1>3 DEF TypeOK, Emit
    <2>2. Notice \in Event /\ \A f : Notice # Connected(f) /\ Notice # Connect(f)
      BY Events
    <2> QED
      BY <2>1, <2>2, Emitted
  <1>7. /\ holders' \in [End -> SUBSET Holder]
        /\ \A f \in End : holders'[f] = IF f = e THEN Session ELSE holders[f]
    BY <1>2, <1>3 DEF TypeOK, HandOver, Holder, Session
  <1>8. /\ loop' \in [Node -> LoopState]
        /\ \A k \in Node : loop'[k] = IF k = n THEN "running" ELSE loop[k]
        /\ \A k \in Node : LoopAlive(k)' <=> LoopAlive(k)
    BY <1>1, <1>3 DEF TypeOK, Resume, LoopState, LoopAlive
  <1>9. /\ current' \in [Node -> End \cup {NoEnd}]
        /\ \A k \in Node : current'[k] = IF k = n THEN NoEnd ELSE current[k]
    BY <1>3 DEF TypeOK, Resume
  <1>10. /\ peers' \in [Node -> [Id -> End \cup {NoEnd}]]
         /\ \A k \in Node : k # n => peers'[k] = peers[k]
         /\ \A id \in Id : peers'[n][id] = IF id = IdOf(e) THEN e ELSE peers[n][id]
    BY <1>2, <1>3 DEF TypeOK
  <1>11. addr_book' \in [Node -> Seq([id : Id, addr : Addr])]
    <2>1. LocalAddr(e) \in Addr
      BY <1>2, SeedConnAssumption DEF LocalAddr, Addr, Id, End
    <2>2. /\ [id |-> IdOf(e), addr |-> LocalAddr(e)] \in [id : Id, addr : Addr]
          /\ addr_book[n] \in Seq([id : Id, addr : Addr])
      BY <1>2, <2>1 DEF TypeOK
    <2>3. Append(addr_book[n], [id |-> IdOf(e), addr |-> LocalAddr(e)])
            \in Seq([id : Id, addr : Addr])
      BY <2>2, Appended
    <2> QED
      BY <1>3, <2>3 DEF TypeOK
  <1>12. TypeOK'
    BY <1>1, <1>5, <1>6, <1>7, <1>8, <1>9, <1>10, <1>11 DEF TypeOK
  <1>13. Busy'
    BY <1>2, <1>7, <1>8, <1>9, BusyElsewhere
  <1>14. Held'
    <2>1. ASSUME NEW f \in End, Owner(f) = n
          PROVE  /\ "peer" \in holders'[f] => peers'[n][IdOf(f)] = f
                 /\ "loop" \in holders'[f] => current'[n] = f
      <3>1. CASE f = e
        BY <1>2, <1>7, <1>10, <3>1 DEF Session
      <3>2. CASE f # e
        <4>1. /\ "peer" \in holders[f] => peers[n][IdOf(f)] = f
              /\ "loop" \in holders[f] => current[n] = f
              /\ f # NoEnd /\ IdOf(f) \in Id
          BY <2>1, Ends DEF Held
        <4> QED
          BY <1>1, <1>7, <1>10, <3>2, <4>1 DEF e
      <3> QED
        BY <3>1, <3>2
    <2> QED
      BY <1>2, <1>7, <1>9, <1>10, <2>1, HeldElsewhere
  <1>15. Listed' /\ Served'
    <2>1. ASSUME NEW id \in Id, peers'[n][id] # NoEnd
          PROVE  /\ LoopAlive(n)' /\ Owner(peers'[n][id]) = n /\ IdOf(peers'[n][id]) = id
                 /\ "peer" \in holders'[peers'[n][id]]
                 /\ holders'[peers'[n][id]] \subseteq Session
                 /\ "recv" \in holders'[peers'[n][id]] \/ Has(events'[n], Disconnect(id))
      <3>1. CASE id = IdOf(e)
        <4>1. peers'[n][id] = e /\ holders'[e] = Session
          BY <1>2, <1>7, <1>10, <3>1
        <4> QED
          BY <1>1, <1>2, <1>8, <3>1, <4>1 DEF Session
      <3>2. CASE id # IdOf(e)
        <4>1. peers'[n][id] = peers[n][id] /\ peers[n][id] \in End
          BY <1>10, <2>1, <3>2 DEF TypeOK
        <4>2. /\ Owner(peers[n][id]) = n /\ IdOf(peers[n][id]) = id
              /\ "peer" \in holders[peers[n][id]] /\ holders[peers[n][id]] \subseteq Session
              /\ "recv" \in holders[peers[n][id]] \/ Has(events[n], Disconnect(id))
          BY <2>1, <4>1 DEF Listed, Served
        <4>3. holders'[peers[n][id]] = holders[peers[n][id]]
          BY <1>7, <3>2, <4>1, <4>2
        <4> QED
          BY <1>1, <1>6, <1>8, <4>1, <4>2, <4>3
      <3> QED
        BY <3>1, <3>2
    <2>2. /\ \A k \in Node : k # n => loop'[k] = loop[k] /\ peers'[k] = peers[k]
          /\ \A f \in End : Owner(f) # n => holders'[f] = holders[f]
      BY <1>2, <1>7, <1>8, <1>10
    <2> QED
      BY <1>6, <2>1, <2>2, ListedElsewhere
  <1>16. Queued' /\ Waiting' /\ Dials'
    BY <1>1, <1>2, <1>6, <1>7, QueuedKept, WaitingKept, DialsKept
  <1>17. Fresh'
    <2> SUFFICES ASSUME NEW f \in End, f[1] \notin opened
                 PROVE  holders'[f] = {} /\ inbox'[f] = << >>
      BY <1>1 DEF Fresh
    <2> QED
      BY <1>2, <1>5, <1>7 DEF Fresh
  <1>18. Foreign'
    BY <1>2, <1>7 DEF Foreign, Session
  <1>19. Greeted'
    <2> SUFFICES ASSUME NEW d \in Conn, From[d] \in Node, NEW m, Has(inbox'[In(d)], m)
                 PROVE  m = "Hello"
      BY DEF Greeted, In
    <2>1. In(d) \in End
      BY Ends
    <2> QED
      BY <1>5, <2>1 DEF Greeted
  <1>20. Answered'
    <2> SUFFICES ASSUME NEW d \in Conn, From[d] \in Node, LoopAlive(To[d])',
                        \/ "recv" \in holders'[Out(d)]
                        \/ Has(inbox'[Out(d)], "Hello") /\ holders'[Out(d)] # {}
                 PROVE  Listens(d)'
      BY DEF Answered, Out
    <2>1. /\ LoopAlive(To[d]) /\ Out(d) \in End /\ In(d) \in End /\ Out(d) # In(d)
          /\ Other(Out(d)) = In(d) /\ Other(In(d)) = Out(d)
      BY <1>8, Ends
    <2>2. CASE e = In(d)
      BY <1>7, <2>1, <2>2 DEF Session, Listens, In
    <2>3. CASE e = Out(d)
      <3>1. Listens(d)
        BY <1>2, <1>4, <2>1, <2>3 DEF Answered
      <3>2. holders'[In(d)] = holders[In(d)] /\ opened' = opened
        BY <1>1, <1>7, <2>1, <2>3
      <3> QED
        BY <3>1, <3>2 DEF Listens, Closed, In
    <2>4. CASE e # In(d) /\ e # Out(d)
      <3>1. Other(e) # In(d) /\ Other(e) # Out(d)
        BY <1>2, <2>4, Ends
      <3>2. /\ holders'[Out(d)] = holders[Out(d)] /\ holders'[In(d)] = holders[In(d)]
            /\ inbox'[Out(d)] = inbox[Out(d)] /\ opened' = opened
        BY <1>1, <1>5, <1>7, <2>1, <2>4, <3>1
      <3>3. Listens(d)
        BY <2>1, <3>2 DEF Answered
      <3> QED
        BY <3>2, <3>3 DEF Listens, Closed, In
    <2> QED
      BY <2>2, <2>3, <2>4
  <1> QED
    BY <1>12, <1>13, <1>14, <1>15, <1>16, <1>17, <1>18, <1>19, <1>20

\* A peer is no longer listed.
LEMMA HandleDisconnectStep ==
  ASSUME SeedInv, NEW n \in Node, NEW id \in Id, HandleDisconnect(n, id)
  PROVE  SeedInv'
  <1> USE DEF SeedInv
  <1> DEFINE e == peers[n][id]
  <1>1. /\ Takes(n, Disconnect(id)) /\ events' = Rest(n)
        /\ UNCHANGED <<loop, current, addr_book, listening, backlog, inbox, opened, commands>>
    BY DEF HandleDisconnect
  <1>2. /\ events' \in [Node -> Seq(Event)]
        /\ Quiet
        /\ \A k \in Node : \A x : Has(events[k], x) => Has(events'[k], x) \/ (k = n /\ x = Disconnect(id))
    BY <1>1, RestOf
  <1>3. \A k \in Node : \A d : Has(events[k], Disconnect(d))
                                 => Has(events'[k], Disconnect(d)) \/ (k = n /\ d = id)
    BY <1>2, Events
  <1>4. \A k \in Node : LoopAlive(k)' <=> LoopAlive(k)
    BY <1>1 DEF LoopAlive
  <1>5. CASE e = NoEnd
    <2>1. /\ peers' = peers
          /\ holders' = holders /\ holders \in [End -> SUBSET Holder]
          /\ inbox' = inbox /\ inbox \in [End -> Seq(Incoming)]
      BY <1>1, <1>5 DEF HandleDisconnect, TypeOK
    <2>2. \A k \in Node : \A d : Has(events[k], Disconnect(d))
                                   => Has(events'[k], Disconnect(d)) \/ peers[k][d] = NoEnd
      BY <1>3, <1>5
    <2> HIDE DEF e
    <2> QED
      BY <1>1, <1>2, <2>1, <2>2, AsideStep
  <1>6. CASE e # NoEnd
    <2>1. /\ e \in End /\ Owner(e) = n /\ IdOf(e) = id /\ LoopAlive(n)
          /\ "peer" \in holders[e] /\ holders[e] \subseteq Session
      BY <1>6 DEF Listed, TypeOK
    <2>2. peers' = [peers EXCEPT ![n][id] = NoEnd] /\ holders' = Release(e, "peer")
      BY <1>6 DEF HandleDisconnect
    <2> HIDE DEF e
    <2>3. /\ holders' \in [End -> SUBSET Holder]
          /\ \A f \in End : holders'[f] = IF f = e THEN holders[e] \ {"peer"} ELSE holders[f]
      BY <2>1, <2>2 DEF Release, TypeOK
    <2>4. \A x \in {"backlog", "event", "loop"} : holders[e] # {x}
      BY <2>1
    <2>5. /\ peers' \in [Node -> [Id -> End \cup {NoEnd}]]
          /\ \A k \in Node : k # n => peers'[k] = peers[k]
          /\ \A d \in Id : peers'[n][d] = IF d = id THEN NoEnd ELSE peers[n][d]
      BY <2>2 DEF TypeOK
    <2>6. TypeOK'
      BY <1>1, <1>2, <2>3, <2>5 DEF TypeOK
    <2>7. Busy'
      <3>1. \A k \in Node : current[k] # NoEnd => holders'[current[k]] = holders[current[k]]
        BY <2>3, <2>4 DEF Busy, TypeOK
      <3> QED
        BY <1>1, <3>1 DEF Busy
    <2>8. Held'
      <3>1. ASSUME NEW f \in End, Owner(f) = n
            PROVE  /\ "peer" \in holders'[f] => peers'[n][IdOf(f)] = f
                   /\ "loop" \in holders'[f] => current'[n] = f
        <4>1. /\ "peer" \in holders[f] => peers[n][IdOf(f)] = f
              /\ "loop" \in holders[f] => current[n] = f
              /\ IdOf(f) \in Id
          BY <3>1, Ends DEF Held
        <4>2. IdOf(f) = id /\ "peer" \in holders[f] => f = e
          BY <4>1 DEF e
        <4> QED
          BY <1>1, <2>3, <2>5, <4>1, <4>2
      <3> QED
        BY <1>1, <2>1, <2>3, <2>5, <3>1, HeldElsewhere
    <2>9. Listed' /\ Served'
      <3>1. ASSUME NEW d \in Id, peers'[n][d] # NoEnd
            PROVE  /\ LoopAlive(n)' /\ Owner(peers'[n][d]) = n /\ IdOf(peers'[n][d]) = d
                   /\ "peer" \in holders'[peers'[n][d]]
                   /\ holders'[peers'[n][d]] \subseteq Session
                   /\ "recv" \in holders'[peers'[n][d]] \/ Has(events'[n], Disconnect(d))
        <4>1. d # id /\ peers'[n][d] = peers[n][d] /\ peers[n][d] \in End
          BY <2>5, <3>1 DEF TypeOK
        <4>2. /\ Owner(peers[n][d]) = n /\ IdOf(peers[n][d]) = d
              /\ "peer" \in holders[peers[n][d]] /\ holders[peers[n][d]] \subseteq Session
              /\ "recv" \in holders[peers[n][d]] \/ Has(events[n], Disconnect(d))
          BY <3>1, <4>1 DEF Listed, Served
        <4>3. holders'[peers[n][d]] = holders[peers[n][d]]
          BY <2>1, <2>3, <4>1, <4>2
        <4> QED
          BY <1>3, <1>4, <2>1, <4>1, <4>2, <4>3
      <3>2. /\ \A k \in Node : k # n => loop'[k] = loop[k] /\ peers'[k] = peers[k]
            /\ \A f \in End : Owner(f) # n => holders'[f] = holders[f]
            /\ \A k \in Node : \A x : k # n /\ Has(events[k], x) => Has(events'[k], x)
        BY <1>1, <1>2, <2>1, <2>3, <2>5
      <3> QED
        BY <3>1, <3>2, ListedElsewhere
    <2>10. Queued' /\ Waiting' /\ Dials'
      <3>1. \A x \in {"backlog", "event"} : \A f \in End :
              holders[f] = {x} => holders'[f] = {x}
        BY <2>3, <2>4
      <3> QED
        BY <1>1, <1>2, <3>1, QueuedKept, WaitingKept, DialsKept
    <2>11. Fresh' /\ Foreign'
      BY <1>1, <2>3 DEF Fresh, Foreign
    <2>12. Greeted'
      BY <1>1 DEF Greeted, In
    <2>13. Answered'
      <3>1. \A f \in End : /\ "recv" \in holders'[f] <=> "recv" \in holders[f]
                           /\ holders'[f] # {} => holders[f] # {}
        BY <2>3
      <3> QED
        BY <1>1, <1>4, <3>1, Ends, AnsweredKept
    <2> QED
      BY <2>6, <2>7, <2>8, <2>9, <2>10, <2>11, <2>12, <2>13
  <1> QED
    BY <1>5, <1>6

-----------------------------------------------------------------------------
(* The listener, and what a dropped node leaves behind.                    *)

\* The channel of a dropped node is freed.
LEMMA FreeChannelStep ==
  ASSUME SeedInv, NEW n \in Node, FreeChannel(n)
  PROVE  SeedInv'
  <1> USE DEF SeedInv
  <1>1. /\ ~LoopAlive(n)
        /\ events' = [events EXCEPT ![n] = << >>]
        /\ UNCHANGED <<loop, current, peers, addr_book, listening, backlog, inbox, opened, commands>>
    BY DEF FreeChannel
  <1>2. /\ holders' \in [End -> SUBSET Holder]
        /\ \A f \in End : holders'[f] = IF Owner(f) = n THEN holders[f] \ {"event"}
                                                        ELSE holders[f]
    BY DEF FreeChannel, TypeOK
  <1>3. /\ events' \in [Node -> Seq(Event)]
        /\ \A k \in Node : events'[k] = IF k = n THEN << >> ELSE events[k]
    BY <1>1 DEF TypeOK
  <1>4. Quiet
    BY <1>3, Emptied DEF Quiet
  <1>5. \A k \in Node : LoopAlive(k)' <=> LoopAlive(k)
    BY <1>1 DEF LoopAlive
  <1>6. current[n] = NoEnd /\ \A id \in Id : peers[n][id] = NoEnd
    BY <1>1 DEF Busy, Listed, LoopAlive
  <1>7. TypeOK'
    BY <1>1, <1>2, <1>3 DEF TypeOK
  <1>8. Busy'
    <2>1. /\ loop[n] \in {"greeting", "reading"} <=> current[n] # NoEnd
          /\ loop[n] = "greeting" => \E c \in Conn : current[n] = Out(c)
      BY DEF Busy
    <2> QED
      BY <1>1, <1>2, <1>6, <2>1, BusyElsewhere
  <1>9. Held'
    BY <1>1, <1>2 DEF Held
  <1>10. Listed' /\ Served'
    BY <1>1, <1>2, <1>3, <1>6, ListedElsewhere
  <1>11. Queued'
    <2> SUFFICES ASSUME NEW k \in Node, NEW f \in End, Has(events'[k], Connected(f))
                 PROVE  /\ Owner(f) = k /\ holders'[f] = {"event"}
                        /\ Once(events'[k], Connected(f))
      BY DEF Queued, Owner, Connected
    <2>1. k # n /\ events'[k] = events[k]
      BY <1>3, Emptied
    <2> QED
      BY <1>2, <2>1 DEF Queued
  <1>12. Waiting' /\ Dials'
    BY <1>1, <1>2, <1>4, WaitingKept, DialsKept
  <1>13. Fresh' /\ Foreign'
    BY <1>1, <1>2 DEF Fresh, Foreign
  <1>14. Greeted'
    BY <1>1 DEF Greeted, In
  <1>15. Answered'
    <2>1. \A f \in End : /\ "recv" \in holders'[f] <=> "recv" \in holders[f]
                         /\ holders'[f] # {} => holders[f] # {}
      BY <1>2
    <2> QED
      BY <1>1, <1>5, <2>1, Ends, AnsweredKept
  <1> QED
    BY <1>7, <1>8, <1>9, <1>10, <1>11, <1>12, <1>13, <1>14, <1>15

\* The listener queues the stream of a new connection.
LEMMA AcceptStep ==
  ASSUME SeedInv, NEW n \in Node, Accept(n), LoopAlive(n)
  PROVE  SeedInv'
  <1> USE DEF SeedInv
  <1> DEFINE c == Head(backlog[n])
             e == In(c)
  <1>1. /\ backlog[n] # << >>
        /\ backlog' = [backlog EXCEPT ![n] = Tail(@)]
        /\ holders' = HandOver(e, "backlog", {"event"})
        /\ events' = [events EXCEPT ![n] = Append(@, Connected(e))]
        /\ UNCHANGED <<loop, current, peers, addr_book, listening, inbox, opened, commands>>
    BY DEF Accept, Emit
  <1> HIDE DEF c
  <1>2. /\ backlog[n] \in Seq(Conn) /\ c = Head(backlog[n])
    BY DEF TypeOK, c
  <1>3. /\ c \in Conn /\ Tail(backlog[n]) \in Seq(Conn) /\ Has(backlog[n], c)
        /\ \A x : Has(Tail(backlog[n]), x) => Has(backlog[n], x)
        /\ \A x : Once(backlog[n], x) => Once(Tail(backlog[n]), x)
        /\ Once(backlog[n], c) => ~Has(Tail(backlog[n]), c)
    BY <1>1, <1>2, Taken
  <1>4. /\ To[c] = n /\ holders[e] = {"backlog"} /\ ~Has(Tail(backlog[n]), c)
        /\ e \in End /\ Owner(e) = n
    BY <1>3, Ends DEF Waiting
  <1>5. /\ backlog' \in [Node -> Seq(Conn)]
        /\ \A k \in Node : backlog'[k] = IF k = n THEN Tail(backlog[n]) ELSE backlog[k]
    BY <1>1, <1>3 DEF TypeOK
  <1>6. \A f \in End : holders'[f] = IF f = e THEN {"event"} ELSE holders[f]
    BY <1>1, <1>4 DEF TypeOK, HandOver
  <1>7. Waiting'
    <2> SUFFICES ASSUME NEW k \in Node, NEW d \in Conn, Has(backlog'[k], d)
                 PROVE  To[d] = k /\ holders'[In(d)] = {"backlog"} /\ Once(backlog'[k], d)
      BY DEF Waiting, In
    <2>1. Has(backlog[k], d) /\ (Once(backlog[k], d) => Once(backlog'[k], d))
      BY <1>3, <1>5
    <2>2. To[d] = k /\ holders[In(d)] = {"backlog"} /\ Once(backlog'[k], d)
      BY <2>1 DEF Waiting
    <2>3. d # c
      BY <1>4, <1>5, <2>2
    <2>4. In(d) \in End /\ In(d) # In(c)
      BY <1>3, <2>3, Ends
    <2> QED
      BY <1>6, <2>2, <2>4
  <1> HIDE DEF e
  <1>8. /\ events' \in [Node -> Seq(Event)]
        /\ Queued' /\ Dials'
        /\ \A k \in Node : \A x : Has(events[k], x) => Has(events'[k], x)
    BY <1>1, <1>4, <1>6, StreamQueued
  <1>9. \A k \in Node : LoopAlive(k)' <=> LoopAlive(k)
    BY <1>1 DEF LoopAlive
  <1>10. /\ holders' \in [End -> SUBSET Holder]
         /\ Listed' /\ Served' /\ Fresh' /\ Foreign' /\ Answered'
    BY <1>1, <1>4, <1>8, <1>9, MoveStep
  <1>11. TypeOK'
    BY <1>1, <1>5, <1>8, <1>10 DEF TypeOK
  <1>12. Busy'
    <2>1. ASSUME NEW k \in Node, current[k] # NoEnd
          PROVE  holders'[current[k]] = holders[current[k]]
      <3>1. current[k] \in End /\ holders[current[k]] = {"loop"}
        BY <2>1 DEF Busy, TypeOK
      <3>2. current[k] # e
        BY <1>4, <3>1
      <3> QED
        BY <1>6, <3>1, <3>2
    <2> QED
      BY <1>1, <2>1 DEF Busy
  <1>13. Held'
    <2>1. \A f \in End : /\ "peer" \in holders'[f] => "peer" \in holders[f]
                         /\ "loop" \in holders'[f] => "loop" \in holders[f]
      BY <1>6
    <2> QED
      BY <1>1, <2>1 DEF Held
  <1>14. Greeted'
    BY <1>1 DEF Greeted, In
  <1> QED
    BY <1>7, <1>8, <1>10, <1>11, <1>12, <1>13, <1>14

\* The listener stops, and with it what waited for it.
LEMMA StopListeningStep ==
  ASSUME SeedInv, NEW n \in Node, Accept(n), ~LoopAlive(n)
  PROVE  SeedInv'
  <1> USE DEF SeedInv
  <1>1. /\ backlog' = [backlog EXCEPT ![n] = << >>]
        /\ listening' = [listening EXCEPT ![n] = FALSE]
        /\ holders' = [f \in End |-> IF Owner(f) = n THEN holders[f] \ {"backlog"}
                                                    ELSE holders[f]]
        /\ UNCHANGED <<events, loop, current, peers, addr_book, inbox, opened, commands>>
    BY DEF Accept
  <1>2. /\ holders' \in [End -> SUBSET Holder]
        /\ \A f \in End : holders'[f] = IF Owner(f) = n THEN holders[f] \ {"backlog"}
                                                        ELSE holders[f]
    BY <1>1 DEF TypeOK
  <1>3. /\ backlog' \in [Node -> Seq(Conn)]
        /\ \A k \in Node : backlog'[k] = IF k = n THEN << >> ELSE backlog[k]
    BY <1>1 DEF TypeOK
  <1>4. Quiet
    BY <1>1 DEF Quiet
  <1>5. \A k \in Node : LoopAlive(k)' <=> LoopAlive(k)
    BY <1>1 DEF LoopAlive
  <1>6. current[n] = NoEnd /\ \A id \in Id : peers[n][id] = NoEnd
    BY DEF Busy, Listed, LoopAlive
  <1>7. TypeOK'
    BY <1>1, <1>2, <1>3 DEF TypeOK
  <1>8. Busy'
    <2>1. /\ loop[n] \in {"greeting", "reading"} <=> current[n] # NoEnd
          /\ loop[n] = "greeting" => \E c \in Conn : current[n] = Out(c)
      BY DEF Busy
    <2> QED
      BY <1>1, <1>2, <1>6, <2>1, BusyElsewhere
  <1>9. Held'
    BY <1>1, <1>2 DEF Held
  <1>10. Listed' /\ Served'
    BY <1>1, <1>2, <1>6, ListedElsewhere
  <1>11. Waiting'
    <2> SUFFICES ASSUME NEW k \in Node, NEW d \in Conn, Has(backlog'[k], d)
                 PROVE  To[d] = k /\ holders'[In(d)] = {"backlog"} /\ Once(backlog'[k], d)
      BY DEF Waiting, In
    <2>1. k # n /\ backlog'[k] = backlog[k]
      BY <1>3, Emptied
    <2>2. To[d] = k /\ holders[In(d)] = {"backlog"} /\ Once(backlog[k], d)
      BY <2>1 DEF Waiting
    <2> QED
      BY <1>2, <2>1, <2>2, Ends
  <1>12. Queued' /\ Dials'
    BY <1>1, <1>2, <1>4, QueuedKept, DialsKept
  <1>13. Fresh' /\ Foreign'
    BY <1>1, <1>2 DEF Fresh, Foreign
  <1>14. Greeted'
    BY <1>1 DEF Greeted, In
  <1>15. Answered'
    <2>1. \A f \in End : /\ "recv" \in holders'[f] <=> "recv" \in holders[f]
                         /\ holders'[f] # {} => holders[f] # {}
      BY <1>2
    <2> QED
      BY <1>1, <1>5, <2>1, Ends, AnsweredKept
  <1> QED
    BY <1>7, <1>8, <1>9, <1>10, <1>11, <1>12, <1>13, <1>14, <1>15

-----------------------------------------------------------------------------
(* The theorems.                                                           *)

\* Every step of the network keeps the invariant.
LEMMA NextSeed == SeedInv /\ [Next]_vars => SeedInv'
  <1> SUFFICES ASSUME SeedInv, [Next]_vars PROVE SeedInv'
    OBVIOUS
  <1>1. ASSUME NEW n \in Node, LoopStep(n) PROVE SeedInv'
    <2>1. CASE \E c \in Conn : HandleConnect(n, c)
      BY <2>1, HandleConnectStep
    <2>2. CASE Greet(n)
      BY <2>2, GreetStep
    <2>3. CASE \E e \in End : HandleConnected(n, e)
      BY <2>3, HandleConnectedStep
    <2>4. CASE NoHello(n) \/ Reject(n) \/ AddPeerUnlisted(n)
      BY <2>4, NotListedStep
    <2>5. CASE AddPeer(n)
      BY <2>5, AddPeerStep
    <2>6. CASE AddPeerFails(n) \/ HandleTerminate(n)
      BY <2>6, LoopEndsStep
    <2>7. CASE \E id \in Id : HandleDisconnect(n, id)
      BY <2>7, HandleDisconnectStep
    <2>8. CASE HandleNotice(n)
      BY <2>8, NoticeStep
    <2> QED
      BY <1>1, <2>1, <2>2, <2>3, <2>4, <2>5, <2>6, <2>7, <2>8 DEF LoopStep
  <1>2. ASSUME NEW n \in Node, Accept(n) \/ FreeChannel(n) PROVE SeedInv'
    BY <1>2, AcceptStep, StopListeningStep, FreeChannelStep
  <1>3. ASSUME NEW e \in End, ThreadStep(e) PROVE SeedInv'
    BY <1>3, ThreadStepKeeps
  <1>4. ASSUME NEW n \in Node, NEW ev \in Event, Command(n, ev) PROVE SeedInv'
    BY <1>4, CommandStep
  <1>5. ASSUME NEW c \in Conn, RemoteStep(c) PROVE SeedInv'
    BY <1>5, RemoteConnectsStep, RemoteSendsStep, RemoteClosesStep DEF RemoteStep
  <1>6. CASE UNCHANGED vars
    <2>1. /\ UNCHANGED <<events, loop, current, peers, addr_book, listening>>
          /\ UNCHANGED <<backlog, holders, inbox, opened, commands>>
          /\ events \in [Node -> Seq(Event)] /\ holders \in [End -> SUBSET Holder]
          /\ inbox \in [End -> Seq(Incoming)]
      BY <1>6 DEF vars, node_vars, conn_vars, SeedInv, TypeOK
    <2>2. Quiet
      BY <2>1 DEF Quiet
    <2> QED
      BY <2>1, <2>2, AsideStep
  <1> QED
    BY <1>1, <1>2, <1>3, <1>4, <1>5, <1>6 DEF Next

\* Every end of a connection is at one stage of its life: waiting, queued, at
\* hand, or in a session (seed_node.rs:81-100, 177-276,
\* remote_peer.rs:96-141).
THEOREM SeedInvariant == Spec => []SeedInv
  BY InitSeed, NextSeed, PTL DEF Spec

\* The state of every node and of every connection has its type.
THEOREM TypeCorrect == Spec => []TypeOK
  <1>1. SeedInv => TypeOK
    BY DEF SeedInv
  <1> QED
    BY <1>1, SeedInvariant, PTL

\* The loop and the map of peers hold exactly the streams they are meant to,
\* whatever events, commands and peers come in between (seed_node.rs:182-268).
THEOREM StreamsAlwaysHeld == Spec => []StreamsHeld
  <1>1. SeedInv => StreamsHeld
    <2> SUFFICES ASSUME SeedInv, NEW e \in End, Owner(e) \in Node
                 PROVE  /\ "peer" \in holders[e] <=> peers[Owner(e)][IdOf(e)] = e
                        /\ "loop" \in holders[e] <=> current[Owner(e)] = e
      BY DEF StreamsHeld, NodeEnd
    <2>1. e # NoEnd /\ IdOf(e) \in Id
      BY Ends
    <2>2. /\ "peer" \in holders[e] => peers[Owner(e)][IdOf(e)] = e
          /\ "loop" \in holders[e] => current[Owner(e)] = e
      BY DEF SeedInv, Held
    <2>3. peers[Owner(e)][IdOf(e)] = e => "peer" \in holders[e]
      BY <2>1 DEF SeedInv, Listed
    <2>4. current[Owner(e)] = e => "loop" \in holders[e]
      BY <2>1 DEF SeedInv, Busy
    <2> QED
      BY <2>2, <2>3, <2>4
  <1> QED
    BY <1>1, SeedInvariant, PTL

\* A node that dialled listens only to a node that listens back, or that has
\* closed the connection for want of streams after it had said Hello back
\* (seed_node.rs:199-230).
THEOREM SessionsMutual == Spec => []MutualSessions
  <1>1. SeedInv => MutualSessions
    BY DEF SeedInv, Answered, Listens, MutualSessions
  <1> QED
    BY <1>1, SeedInvariant, PTL

\* A listed peer is listened to, or about to be dropped
\* (remote_peer.rs:112-141, seed_node.rs:222-230, 261-268).
THEOREM ListedPeersServed == Spec => []ListedServed
  <1>1. SeedInv => ListedServed
    BY DEF SeedInv, Served, ListedServed, Has
  <1> QED
    BY <1>1, SeedInvariant, PTL
=============================================================================
