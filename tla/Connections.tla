------------------------------ MODULE Connections ------------------------------
(***************************************************************************)
(* What the seed nodes make of their connections, without events, threads  *)
(* and messages: each end a node holds goes through its stages once, a     *)
(* node lists one end per peer, and the two ends of a connection are       *)
(* listed, and closed, in an order.                                        *)
(***************************************************************************)
CONSTANTS
  Node, Conn, From, To,
  Starved  \* nodes that may give a connection up after they agreed to it

VARIABLES
  stage,  \* of each end held by a node: new, waiting, listed, ending or closed
  alive   \* nodes whose event loop has not returned

vars == <<stage, alive>>

Owner(e) == IF e[2] = "out" THEN From[e[1]] ELSE To[e[1]]
Other(e) == <<e[1], IF e[2] = "out" THEN "in" ELSE "out">>
Peer(e)  == Owner(Other(e))

End == {e \in Conn \X {"out", "in"} : Owner(e) \in Node}

Init ==
  /\ stage = [e \in End |-> "new"]
  /\ alive = Node

Open(c) ==
  /\ \A e \in End : e[1] = c => stage[e] = "new"
  /\ From[c] \in Node => From[c] \in alive
  /\ stage' = [e \in End |-> IF e[1] = c THEN "waiting" ELSE stage[e]]
  /\ UNCHANGED alive

\* Its peer is listed through no other end; the node that dialled lists the
\* peer after it was listed itself, or was to be by a starved one.
Admit(e) ==
  /\ stage[e] = "waiting"
  /\ Owner(e) \in alive
  /\ \A f \in End : Owner(f) = Owner(e) /\ Peer(f) = Peer(e) => stage[f] # "listed"
  /\ e[2] = "out" /\ Peer(e) \in alive =>
       \/ stage[Other(e)] \in {"listed", "ending"}
       \/ stage[Other(e)] = "closed" /\ Peer(e) \in Starved
  /\ stage' = [stage EXCEPT ![e] = "listed"]
  /\ UNCHANGED alive

\* What a node that has returned had not come to is dropped at once.
Refuse(S) ==
  /\ \A e \in S : stage[e] = "waiting" /\ (S = {e} \/ Owner(e) \notin alive)
  /\ stage' = [e \in End |-> IF e \in S THEN "closed" ELSE stage[e]]
  /\ UNCHANGED alive

Disconnect(e) ==
  /\ stage[e] = "listed"
  /\ stage' = [stage EXCEPT ![e] = "ending"]
  /\ UNCHANGED alive

\* A node that runs does not close an end before its peer, if that is a node.
Close(e) ==
  /\ stage[e] = "ending"
  /\ Owner(e) \in alive /\ Peer(e) \in Node => stage[Other(e)] = "closed"
  /\ stage' = [stage EXCEPT ![e] = "closed"]
  /\ UNCHANGED alive

\* The event loop returns, with the end at hand, if any.
Stop(n, S) ==
  /\ n \in alive
  /\ \A e \in S : Owner(e) = n /\ stage[e] = "waiting"
  /\ alive' = alive \ {n}
  /\ stage' = [e \in End |-> IF e \in S THEN "closed"
                             ELSE IF Owner(e) = n /\ stage[e] = "listed" THEN "ending"
                             ELSE stage[e]]

Next ==
  \/ \E c \in Conn : Open(c)
  \/ \E e \in End : Admit(e) \/ Disconnect(e) \/ Close(e)
  \/ \E S \in SUBSET End : Refuse(S)
  \/ \E n \in Node, S \in {{}} \cup {{e} : e \in End} : Stop(n, S)

Spec == Init /\ [][Next]_vars
=============================================================================
