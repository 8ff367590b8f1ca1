------------------------------ MODULE Tendermint ------------------------------
(***************************************************************************)
(* The Tendermint thread of a `multithreaded` node: one select! over the   *)
(* ticker, the exit channel from the ABCI layer and the messages from the  *)
(* dispatcher.  A turn of Tendermint::run that blocks, or that sends more  *)
(* than one message, is as many steps.                                     *)
(***************************************************************************)
EXTENDS NodeState

\* The thread is in select! and the message at the head of its queue is m.
TendermintReceives(m) ==
  /\ tendermint = "running"
  /\ tendermint_queue # << >>
  /\ m = Head(tendermint_queue)

\* The end of the thread drops the receiver of messages from the dispatcher.
EndThread(how) ==
  /\ tendermint' = how
  /\ tendermint_queue' = << >>

-----------------------------------------------------------------------------
(* Ticker                                                                  *)

\* The ticker fires: a request is due to every peer in the address book.
Tick ==
  /\ tendermint = "running"
  /\ addr_book # {}
  /\ Len(dispatcher_queue) < Backlog
  /\ tendermint' = "ticking"
  /\ to_request' = addr_book
  /\ UNCHANGED <<queue_vars, addr_book, abci, dispatcher_vars, conn_vars>>

\* One turn of the loop over the address book, in the order of the hash map.
RequestAddrBook(p) ==
  /\ tendermint = "ticking"
  /\ p \in to_request
  /\ SendToDispatcher(ToPeer(p, AddressBookRequest))
  /\ to_request' = to_request \ {p}
  /\ tendermint' = IF to_request = {p} THEN "running" ELSE "ticking"
  /\ UNCHANGED <<tendermint_queue, addr_book, abci, dispatcher_vars, conn_vars>>

-----------------------------------------------------------------------------
(* Messages from the dispatcher                                            *)

\* A peer asks for the address book: answer with the ids it holds now.
HandleFromPeer(p) ==
  /\ TendermintReceives(FromPeer(p))
  /\ tendermint_queue' = Tail(tendermint_queue)
  /\ SendToDispatcher(ToPeer(p, AddressBookResponse(addr_book)))
  /\ UNCHANGED <<tendermint_vars, dispatcher_vars, conn_vars>>

HandlePeerConnected(p) ==
  /\ TendermintReceives(PeerConnected(p))
  /\ tendermint_queue' = Tail(tendermint_queue)
  /\ addr_book' = addr_book \cup {p}
  /\ UNCHANGED <<dispatcher_queue, tendermint, to_request, abci,
                 dispatcher_vars, conn_vars>>

\* Mutation: the dispatcher is told, the address book keeps the peer.
PeerDisconnectedStillListed(p) ==
  /\ TendermintReceives(PeerDisconnected(p))
  /\ tendermint_queue' = Tail(tendermint_queue)
  /\ SendToDispatcher(DropPeer(p))
  /\ UNCHANGED <<tendermint_vars, dispatcher_vars, conn_vars>>

\* Mutation: the dispatcher is not told.
PeerDisconnectedUntold(p) ==
  /\ TendermintReceives(PeerDisconnected(p))
  /\ tendermint_queue' = Tail(tendermint_queue)
  /\ addr_book' = addr_book \ {p}
  /\ UNCHANGED <<dispatcher_queue, tendermint, to_request, abci,
                 dispatcher_vars, conn_vars>>

\* A peer is gone: forget it and have the dispatcher forget it too.
HandlePeerDisconnected(p) ==
  /\ TendermintReceives(PeerDisconnected(p))
  /\ tendermint_queue' = Tail(tendermint_queue)
  /\ addr_book' = addr_book \ {p}
  /\ SendToDispatcher(DropPeer(p))
  /\ UNCHANGED <<tendermint, to_request, abci, dispatcher_vars, conn_vars>>

\* Mutation: the error of the closed channel is ignored.
DispatcherGoneIgnored ==
  /\ tendermint = "running"
  /\ tendermint_queue = << >>
  /\ ~DispatcherAlive
  /\ SubDispatcher = {}
  /\ UNCHANGED vars

\* Every sender to the thread is dropped: tell the ABCI layer to exit and wait
\* for its reply.
DispatcherGone ==
  /\ tendermint = "running"
  /\ tendermint_queue = << >>
  /\ ~DispatcherAlive
  /\ SubDispatcher = {}
  /\ tendermint' = "reporting"
  /\ UNCHANGED <<queue_vars, addr_book, to_request, abci, dispatcher_vars, conn_vars>>

\* The ABCI layer replies, or drops the reply channel: the thread ends.
AbciReplies ==
  /\ tendermint = "reporting"
  /\ EndThread("halted")
  /\ UNCHANGED <<dispatcher_queue, addr_book, to_request, abci,
                 dispatcher_vars, conn_vars>>

-----------------------------------------------------------------------------
(* Exit                                                                    *)

\* TendermintMsg::Exit is selected: ask the dispatcher to exit and block until
\* it confirms.
HandleExitRequest ==
  /\ tendermint = "running"
  /\ abci = "exiting"
  /\ SendToDispatcher(Exit)
  /\ tendermint' = "stopping"
  /\ UNCHANGED <<tendermint_queue, addr_book, to_request, abci,
                 dispatcher_vars, conn_vars>>

\* Mutation: the thread does not wait for the dispatcher.
ConfirmExitAtOnce ==
  /\ tendermint = "stopping"
  /\ abci' = "confirmed"
  /\ EndThread("stopped")
  /\ UNCHANGED <<dispatcher_queue, addr_book, to_request, dispatcher_vars, conn_vars>>

\* The dispatcher confirmed: confirm to the ABCI layer and end.
ConfirmExit ==
  /\ tendermint = "stopping"
  /\ exit_ack
  /\ abci' = "confirmed"
  /\ EndThread("stopped")
  /\ UNCHANGED <<dispatcher_queue, addr_book, to_request, dispatcher_vars, conn_vars>>

\* The Exit message was dropped unanswered: the expect panics.
ExitUnanswered ==
  /\ tendermint = "stopping"
  /\ ~exit_ack
  /\ ~DispatcherAlive
  /\ EndThread("panicked")
  /\ UNCHANGED <<dispatcher_queue, addr_book, to_request, abci,
                 dispatcher_vars, conn_vars>>

TendermintStep ==
  \/ Tick
  \/ \E p \in Peer : \/ RequestAddrBook(p)
                     \/ HandleFromPeer(p)
                     \/ HandlePeerConnected(p)
                     \/ HandlePeerDisconnected(p)
  \/ DispatcherGone \/ HandleExitRequest \/ ConfirmExit \/ ExitUnanswered
==============================================================================
