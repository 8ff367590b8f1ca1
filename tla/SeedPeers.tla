------------------------------ MODULE SeedPeers ------------------------------
(***************************************************************************)
(* What surrounds the seed nodes: peers that are not seed nodes of this    *)
(* program, and whoever sends a node its commands (in the repository, its  *)
(* test).  Such a peer uses its own id and opens a connection only after   *)
(* it closed the one before; it may be silent, or leave, at any moment.    *)
(***************************************************************************)
EXTENDS SeedState

CONSTANTS
  InboxCap,  \* bound: unread messages a peer leaves on a connection
  Backlog    \* bound: events beyond which only an awaited message is sent

ASSUME SeedBoundAssumption == InboxCap \in Nat \ {0} /\ Backlog \in Nat \ {0}

Command(n, ev) ==
  /\ <<n, ev>> \in commands
  /\ commands' = commands \ {<<n, ev>>}
  /\ events' = Emit(events, n, ev)
  /\ UNCHANGED <<loop, current, peers, addr_book, conn_vars>>

RemoteConnects(c) ==
  /\ From[c] \in Remote
  /\ c \notin opened
  /\ listening[To[c]]
  /\ \A d \in opened : From[d] = From[c] /\ To[d] = To[c] => Closed(Out(d))
  /\ opened' = opened \cup {c}
  /\ holders' = [holders EXCEPT ![Out(c)] = {"remote"}, ![In(c)] = {"backlog"}]
  /\ backlog' = [backlog EXCEPT ![To[c]] = Append(@, c)]
  /\ UNCHANGED <<node_vars, listening, inbox, commands>>

RemoteSends(c, m) ==
  /\ "remote" \in holders[Out(c)]
  /\ ~Closed(In(c))
  /\ Len(inbox[In(c)]) < InboxCap
  /\ current[To[c]] = In(c) \/ Len(events[To[c]]) < Backlog
  /\ inbox' = [inbox EXCEPT ![In(c)] = Append(@, m)]
  /\ UNCHANGED <<node_vars, listening, backlog, holders, opened, commands>>

\* The connection ends; a reset also discards what was not yet read.
RemoteCloses(c) ==
  /\ "remote" \in holders[Out(c)]
  /\ holders' = [holders EXCEPT ![Out(c)] = {}]
  /\ inbox' \in {[inbox EXCEPT ![Out(c)] = << >>],
                 [inbox EXCEPT ![Out(c)] = << >>, ![In(c)] = << >>]}
  /\ UNCHANGED <<node_vars, listening, backlog, opened, commands>>

RemoteStep(c) ==
  \/ RemoteConnects(c)
  \/ \E m \in Incoming : RemoteSends(c, m)
  \/ RemoteCloses(c)
=============================================================================
