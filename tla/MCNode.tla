------------------------------- MODULE MCNode -------------------------------
(***************************************************************************)
(* Instances of Node for TLC.                                              *)
(***************************************************************************)
EXTENDS NodeInvariant, TLC

CONSTANTS p1, p2, c1, c2

\* Every peer connects at most once.
OneSessionEach == (c1 :> p1) @@ (c2 :> p2)

\* Peers are interchangeable together with their connections.
Interchange ==
  {f \in Permutations(Peer \cup Conn) :
     \A c \in Conn : f[c] \in Conn /\ PeerOf[f[c]] = f[PeerOf[c]]}

\* One peer, one connection.
SinglePeer == c1 :> p1

\* Peer p1 may come back on a second connection.
Reconnecting == (c1 :> p1) @@ (c2 :> p1)
=============================================================================
