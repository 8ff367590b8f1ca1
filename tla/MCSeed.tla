-------------------------------- MODULE MCSeed --------------------------------
(***************************************************************************)
(* Instances of SeedNetwork for TLC.                                       *)
(***************************************************************************)
EXTENDS SeedNetwork, TLC

CONSTANTS n1, n2, n3, r1, c1, c2, c3

\* The topology of test_basic_peer_interaction, with one more connection.
ChainFrom == c1 :> n1 @@ c2 :> n1 @@ c3 :> n2
ChainTo   == c1 :> n2 @@ c2 :> n3 @@ c3 :> n3
ChainDials == {<<n1, Connect(c1)>>, <<n1, Connect(c2)>>, <<n2, Connect(c3)>>}

\* Two nodes dial each other; both may be told to disconnect, the second one to
\* terminate.
CrossFrom == c1 :> n1 @@ c2 :> n2
CrossTo   == c1 :> n2 @@ c2 :> n1
CrossCommands ==
  {<<n1, Connect(c1)>>, <<n2, Connect(c2)>>, <<n1, Disconnect(n2)>>,
   <<n2, Disconnect(n1)>>, <<n2, Terminate>>}

\* One node and a peer that may connect more than once.
RemoteFrom == [c \in Conn |-> r1]
RemoteTo   == [c \in Conn |-> n1]
NodeCommands == {<<n1, Disconnect(r1)>>, <<n1, Terminate>>}
=============================================================================
