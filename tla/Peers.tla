-------------------------------- MODULE Peers --------------------------------
(***************************************************************************)
(* What is not part of the program: the remote nodes at the other end of   *)
(* the TCP connections and the ABCI layer of this node.                    *)
(*                                                                         *)
(* Remote nodes keep to the protocol in what the node relies on: a peer    *)
(* uses its own id, and opens a new connection only after it closed (or    *)
(* lost) the one before.  It may send frames in any order, send what is    *)
(* not a frame, read as slowly as it likes and close at any moment.        *)
(***************************************************************************)
EXTENDS NodeState

\* A peer may open connection c.
MayConnect(c) ==
  \A d \in Conn \ {c} :
    PeerOf[d] = PeerOf[c] => task[d] \in {"none", "done"} \/ closed[d]

\* Both ends hold connection c open.
Connected(c) == task[c] \notin {"none", "done"} /\ ~closed[c]

PeerSends(c, frame) ==
  /\ Connected(c)
  /\ Len(inbox[c]) < InboxCap
  /\ Len(tendermint_queue) < Backlog
  /\ Len(dispatcher_queue) < Backlog
  /\ inbox' = [inbox EXCEPT ![c] = Append(@, frame)]
  /\ UNCHANGED <<queue_vars, tendermint_vars, dispatcher_vars,
                 task, peer_queue, unread, closed>>

PeerReads(c) ==
  /\ Connected(c)
  /\ unread[c] > 0
  /\ unread' = [unread EXCEPT ![c] = @ - 1]
  /\ UNCHANGED <<queue_vars, tendermint_vars, dispatcher_vars,
                 task, peer_queue, inbox, closed>>

\* The connection ends; a reset also discards the frames not yet read.
PeerCloses(c) ==
  /\ Connected(c)
  /\ closed' = [closed EXCEPT ![c] = TRUE]
  /\ \/ UNCHANGED inbox
     \/ inbox' = [inbox EXCEPT ![c] = << >>]
  /\ UNCHANGED <<queue_vars, tendermint_vars, dispatcher_vars,
                 task, peer_queue, unread>>

\* The ABCI layer sends TendermintMsg::Exit.
RequestExit ==
  /\ abci = "idle"
  /\ abci' = "exiting"
  /\ UNCHANGED <<queue_vars, tendermint, addr_book, to_request,
                 dispatcher_vars, conn_vars>>
==============================================================================
