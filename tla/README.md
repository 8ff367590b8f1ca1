# A specification of reactor-experiments

The repository holds two proofs of concept of a Tendermint-like node. They share no code.

* `multithreaded/`: a tokio networking runtime (acceptor, dispatcher, tasks per peer) and a
  "Tendermint" thread, joined by channels; a separate example of threads that keep a
  concurrent address book.
* `singlethreaded/blocking/`: seed nodes in blocking Rust: one event loop per node, fed by
  one channel to which a listener and two threads per peer send; a publish/subscribe registry.

Sources below are relative to `multithreaded/src` and `singlethreaded/blocking/src`.

## 1. Inventory

| Component | State | Operations | Talks to |
|---|---|---|---|
| Acceptor (`acceptor.rs`) | the listening socket | accept | dispatcher queue |
| Dispatcher (`dispatcher.rs:13-77`) | `connected_peers`: sender per peer; an unbounded queue | PeerHandshake, HandshakeCompleted, ToPeer, PeerDisconnected, Exit | spawns tasks; per-peer channels (capacity 1); queue of the Tendermint thread |
| Handshake task (`dispatcher.rs:40-53`) | one connection | say Hello, wait for Hello | dispatcher queue |
| Per-peer task (`dispatcher.rs:90-141`) | one connection, its receiver | select! over channel and stream; write | Tendermint queue |
| Tendermint thread (`tendermint.rs`) | `addr_book`; an unbounded queue | tick, FromPeer, PeerConnected, PeerDisconnected, Exit, loss of the dispatcher | dispatcher queue, ABCI layer (IPC) |
| Concurrent address book (`concurrent_addr_book.rs`) | `known_peers`, `done_sender` per thread | tick, Request, Response, Ping, Pong, Exit | each other, a seed node, the collecting main thread |
| Seed node loop (`seed_node.rs`) | `peers`, `addr_book`, `subscriptions` | Connect, Connected, Disconnect, Subscribe, Unsubscribe, Terminate | its queue; TCP |
| Listener thread (`seed_node.rs:67-94`) | the listening socket | accept | event queue |
| Remote peer (`remote_peer.rs`) | clones of one stream | receive thread, send thread | event queue |
| Subscriptions (`pubsub.rs`) | `by_event_id`, `subscription_ids` | add, remove, remove_all, publish | notification channels |
| Wire (`encoding.rs`, `messages.rs`, loops of `remote_peer.rs`) | channel, `BufWriter` and `BufReader` of a connection | framing, conversion of messages and addresses, buffering | TCP |

What is hard, and what each component has to get right:

* **Node.** Address book and map of senders are the same set of peers kept twice, by two
  tasks that tell each other by queued messages. The dispatcher *panics* when asked to send
  to a peer it does not know, so the order of messages through both queues matters, and so
  does a peer that reconnects. The dispatcher awaits room in the channel of one slow peer and
  serves nobody meanwhile; the Tendermint thread blocks on the dispatcher to exit. Every
  failure of a task is a panic that ends only that task. Right means: no panic, the two books
  agree when idle, answers list who asked, exit is answered and in order, every connection is
  released, the loss of the dispatcher is noticed.
* **Address book.** The main thread counts reports without knowing who sent them, and
  introductions are random. Right means: no early exit, no lost or double report, everyone
  meets everyone.
* **Seed nodes.** The loop blocks in the middle of an event to read a peer's Hello. A
  stream has up to three holders in three threads, each of which may be the last; every end
  of a thread sends a Disconnect that names only the peer. Right means: streams are held by
  exactly those who should, sessions are mutual, left peers are released, Terminate is
  handled, nodes discover each other.
* **Subscriptions.** Two indices must agree through reused and multiple ids; delivery stops
  at the first failure. Right means: it behaves like a plain set of registrations.
* **Wire.** Bytes arrive in chunks of any size; the loop reads the first frame unbuffered and
  a thread reads the rest through a buffer, the writer buffers as well; other programs may
  write anything, and the connection may end in the middle of a frame. Right means: it
  behaves like a channel of messages, and what was given to a peer before it is dropped leaves.

`PROJECT.json` lists each hazard at its line with the properties that would catch it.

## 2. Modules

```
NodeState <- Dispatcher, Tendermint, Peers <- Node <- NodeInvariant <- MCNode
                                                   NodeInvariant <- NodeProofs <- AgreementProofs
                                                                 AgreementProofs <- MembershipProofs
Membership <- (INSTANCE) Node
AddrBook  <- AddrBookProofs;  Rendezvous <- (INSTANCE) AddrBook
SeedState <- SeedNode, RemotePeer, SeedPeers <- SeedNetwork <- MCSeed, SeedProofs
SeedProofs <- ConnectionProofs;  Connections <- (INSTANCE) SeedNetwork
SubscriptionRegistry <- (INSTANCE) Subscriptions <- SubscriptionsProofs
PeerMessages <- Wire <- MCWire, WireProofs;  MessageChannel <- (INSTANCE) Wire
```

Every component has an abstract specification that says what it promises without the queues,
threads and messages it promises it with, and implements it by a refinement mapping:

| Detailed | Abstract | Forgets | What is left |
|---|---|---|---|
| `Node` | `Membership` | queues, tasks, frames | a peer joins, is listed, is written to while listed, hangs up, is forgotten |
| `AddrBook` | `Rendezvous` | queues, timers, the count of reports | members arrive, meet, and leave once all have met |
| `SeedNetwork` | `Connections` | events, threads, messages, holders | an end of a connection waits, is listed, ends, is closed |
| `Subscriptions` | `SubscriptionRegistry` | the two indices | a set of registrations |
| `Wire` | `MessageChannel` | bytes and buffers | a channel of messages |

A system whose parts talk through queues is split as it is in the code: one module has the
state (queues, what each component owns, connections), one module per component has its
actions, one has the environment, and one composes them and states the properties.
Operators keep the names of the code. Definitions whose comment begins with *Mutation*
are variants of the definition below them as a plausible bug would have it: no specification
uses them; `PROJECT.json` pairs each with a property that notices it.

### Multithreaded node

* A tokio task interleaves with others only at an `await`, so what it does between two awaits
  is one action. A turn of the Tendermint thread that sends several messages or blocks is
  several actions (`Tick`, `RequestAddrBook`; `HandleExitRequest`, `ConfirmExit`).
* `task[c]` says which task or message owns connection `c`: `queued` and `completed` are
  connections inside a message, so dropping the dispatcher's queue closes them
  (`DropDispatcher`).
* `connected_peers[p]` names the connection whose per-peer task the peer's sender leads to.
  Replacing or removing the entry drops that sender, which is what `SenderDropped` waits for.
* A send to a receiver that is gone does nothing (the code ignores the result); a send to a
  full per-peer channel waits (`SendReady`).
* The exit handshake with the ABCI layer is the variable `abci`.
* `DispatcherGone` waits until no per-peer task runs, since each holds a sender to the
  Tendermint thread (`dispatcher.rs:84`).
* A frame is `Hello`, `AddressBookRequest` or `Malformed`, which is all that the framing or the
  JSON decoder refuses. What decodes to anything else the node skips, so it needs no frame of
  its own. `Malformed` ends the task that reads it as the end of the stream does (`Unreadable`):
  a handshake task quietly (`HandshakeLost`, `dispatcher.rs:46`), a per-peer task with a
  `PeerDisconnected` (`PeerGone`, `dispatcher.rs:112`), although the peer's side is open. Of an
  answer the model keeps the set of ids. A write to a closed connection may still succeed (the
  kernel takes it) or fail.
* `HandleExit` is one action: the confirmation (`dispatcher.rs:71`) and the `break` after it
  have no await between them, and nothing the Tendermint thread does in between depends on it.
  `OrderlyExit` therefore says that the dispatcher has taken `Exit`, its last message.

* `Membership` is what the node is to its peers. A peer's `Stage` is read off the state of three
  components: `away` until its handshake completes, `joined` while its `PeerConnected` is
  queued, `member` while the Tendermint thread lists it, `leaving` until the dispatcher has
  dropped its sender, `gone` after that; `Mail` is what the dispatcher's queue and the per-peer
  channels hold for it. The promise is to each peer on its *first* connection: one that has come
  back is `back`, is promised nothing, and may be the end of the dispatcher (section 5); the
  promise to the others stands while the dispatcher runs, after which all are `void`.

### Address book

`thread`, `queue`, `known_peers`, `to_ask` (rest of the tick loop), `done_sender` per node;
`main`, `done_count`, `to_exit` of the collecting thread. The numbers 10 and 9 in the code
are `Cardinality(Node) + 1` and `Cardinality(Node)`. `gen_range` is a choice of `pick`. `Rendezvous` has the
collector's count only as "all have met": the count may decide nothing else.

### Seed nodes

* A connection has two ends, `Out(c)` and `In(c)`; `holders[e]` is who holds a clone of end
  `e`'s stream: the kernel's backlog, an event in the queue, the loop, the `RemotePeer`, its
  send thread, its receive thread. An end is closed when nobody holds it; that is how drops
  close connections in the code.
* `loop[n]` says where `run` is; `reading` is the blocking `read_peer_message`. Each `?` that
  returns from `run` is a step to `failed` that drops the node (`DropNode`).
* `Accept` at a node that is gone drops one stream, ends the listener and with it the backlog.
  Before that, connections still complete although nobody will serve them.
* `inbox[e]` are whole messages; `Malformed` is anything `read_peer_message` refuses. Only
  other peers send it: what a refusal does to the loop is in `NoHello`, to a receive thread in
  `ReceiveFails`. How bytes become messages is in `Wire`.
* `RemotePeer::send` has no caller, so here send threads only wait for their sender to be
  dropped; what they would write is in `Wire`.
* Nobody subscribes in this model; publishing is in `Subscriptions`.
* `Starved` is the set of nodes that may run out of descriptors, at any moment and for as long
  as it takes. At such a node a dial finds no socket (`HandleConnect`), the stream of a
  `Connected` event cannot be cloned (`HandleConnected`), its address not be had (`Reject`,
  `seed_node.rs:207-213`), and after Hello was said back `RemotePeer::new` may find no streams
  for its threads, in which case the loop goes on without the peer (`AddPeerUnlisted`,
  `seed_node.rs:222-229`), or the `try_clone` before it may fail, which ends `run`
  (`AddPeerFails`).
* `Connections` sees of an end its stage only, and which nodes run. It says in what order the
  two ends of a connection go: the node that dialled lists its peer only after it was listed
  itself, or after a starved peer that had said Hello gave the connection up; a node lists one
  end per peer, and does not close an end it has listed before its peer does unless it has
  itself returned.

### Subscriptions

`by_event_id` is a map of maps as in the code; `to_notify` is the rest of the loop of
`publish`, one turn per action in any order (that of a hash map). Channels may be bounded or
not, and lose their receiver. `SubscriptionRegistry` is the abstraction: a set of triples
`<<subscription, event id, channel>>`, and the deliveries owed for the event at hand.
`ImplementsRegistry` maps the two indices to it.

### Wire

* One direction of one connection. `bytes` is all that was ever encoded; positions in it say
  what has left the writer (`flushed`), entered the reader's process (`fetched`) and been read
  (`taken`). `ends` are the ends of the frames, so a property can say which frame the reader
  should be in; the reader's actions only use `start` and the bytes.
* `writer` and `reader` are first the loop, on the bare stream, then a thread with a buffer.
  `WriteDelimiter` and `WriteBody` are the two `write_all` of `write_any`: a `BufWriter` may
  flush between them. `Take` and `Fetch` move any number of bytes: a `read` may return less
  than was asked for.
* `Exit` ends the sending process or connection, with or without the loss of what the kernel
  has (`reset`); `ReaderLeaves` ends the other side.
* What prost does is external: `Encoding` is any injective function from `Any` values to bytes.
  `PeerMessages` converts messages to `Any` and back as `encoding.rs` does, address by address.
* `MessageChannel` is the abstraction: what was sent, what of it was read, and whether reading
  goes on. `ImplementsChannel` forgets bytes and positions.

## 3. Environment

Peers outside the program (`Peers`, `SeedPeers`) are external. They may send messages in any
order and what is no message at all, read slowly, be silent, close or be reset at any moment.
What is assumed of them, because the code assumes it too: a peer uses its own id, and opens a
connection only after it closed (or lost) the one before. The code checks neither: the
sub-dispatcher passes on the id in a request as it comes (`dispatcher.rs:124-126`), so a peer
that asks under another id is answered to that id, and the panic of `reconnect_panic` needs no
reconnect then; `RequesterListed`, `NoSendToDisconnected`, `PanicsOnlyOverReturned` and
`ImplementsMembership` rest on the assumption. A peer that sent what does not decode comes back
only once it has closed its side, or the node has closed its own. The ABCI layer may ask for an
exit once, at any time. Threads are assumed to spawn (`thread::spawn` panics otherwise).
In `Wire` another program writes frames of its own (`Foreign`): a length that is refused,
followed by nothing, or the length of what follows. A frame that claims more bytes than it has
would make the next frame part of its body, and there would be no channel of frames to
implement; to the code it is a longer frame.

## 4. Runs

Bounds are named constants and bind only the environment and the tickers, never a component
that has something to do: `Backlog` (queued messages beyond which peers and tickers pause),
`InboxCap` (unread frames a peer leaves), `SocketCap` (frames the kernel buffers), `Capacity`
(of bounded subscriber channels). Value 1 is enough for the races meant: components still
append past the bound, so the queues reach several messages, and a third one of the same
kind adds no new order.

| Run | Instance | Shows |
|---|---|---|
| `node_safety` | 2 peers, 1 connection each, all frames, those that do not decode included, exit | no dispatcher panic, answers list who asked, orderly exit, books agree when idle, the inductive invariant `SessionOrder`; the node implements `Membership` |
| `node_liveness` | 1 peer, all frames, `Backlog` 2 | an exit request is answered although the dispatcher may be blocked on the peer (`ExitConfirmed`); connections the peer closed, or sent what does not decode on, are released in every phase; per-peer tasks follow the dispatcher; requests are answered |
| `reconnect_liveness` | 1 peer, 2 connections, Hello and what does not decode | until the peer comes back its messages keep their order; a panic is over a peer that came back; the Tendermint thread notices it; the replaced task ends; exit stays orderly; the node implements `Membership` all along |
| `addr_book` | 2 nodes | no exit before everyone is connected; reports neither lost nor repeated; everyone connects and exits; they implement `Rendezvous` |
| `seed_crossdial` | 2 nodes that dial each other; Disconnects, a Terminate, the second node starved | `StreamsHeld`, `MutualSessions`; the nodes implement `Connections` |
| `seed_discovery` | 3 nodes, none starved, topology of the repository's test and one more connection | all list each other and keep doing so |
| `seed_sessions` | 1 node, starved, 1 peer that comes twice and sends sense or not | a listed peer is listened to or about to be dropped (`ListedServed`); left peers are released; Terminate is handled |
| `pubsub_registry` | 2 ids, 2 channels, 2 event ids | indices agree; they implement the plain registry |
| `wire_framing` | bytes of 3 values, lengths up to 4, buffers of 6, 3 messages; 3 of this program, 9 frames of another | the reader is always in the frame it should be in; frames implement a channel; readers of dead connections end; a dropped peer's messages leave |

In `node_safety` the two peers, each with its connection, are interchangeable
(`Interchange`): nothing in `Node` or its properties tells one pair from another, and only
safety is checked there, so the symmetry is sound. Whether a peer comes back matters to no other,
so one peer with two connections is enough for the races of a return; that the others keep
their promises meanwhile is proved for any number.

With two address books an introduction can already be useful, useless (the node is known) or
to the asker itself; that safety does not depend on their number is proved (section 6).
`node_liveness` needs no more than one peer to block the dispatcher: a request being written,
one in the peer's channel and one at the head of the dispatcher's queue, which `Backlog` 2
leaves room for. Three seed nodes are the repository's own test. `AddrBook` and
`Subscriptions` need no definitions for their instances, so their runs name them directly;
`MCNode` and `MCSeed` define who connects to whom, `MCWire` the messages and their bytes.

In `wire_framing`, `Base` 3 stands for 256 and
`MaxLen` 4 for 1024: lengths need both bytes of the delimiter, one message is too large to be
encoded, and bodies look like delimiters. `BufCap` 6 (8192 in the code) is more than the
largest body, as in the code, and less than two of the longer frames, so both buffers split frames.
`PortLimit` 4 stands for 2^16; one foreign port exceeds it.

Deadlock is not checked: every one of these systems may come to rest (peers silent, nodes stopped).

### Fairness

* Threads and tasks that can run are run: weak fairness of their actions.
* `select!` of tokio and of crossbeam picks at random among ready branches, and `gen_range`
  among nodes: a branch or a pick that is possible again and again is eventually taken,
  strong fairness.
* Peers of the node read what is sent to them until they close (`WF` of `PeerReads`); they
  need never send, nor close. Without it a peer that stops reading blocks the dispatcher, and
  with it the exit, for ever: the code has no timeout. `ExitConfirmed` and `RequestAnswered`
  rest on this assumption.
* Writing and reading threads of a connection that can run are run (`WF` of `WriterStep` and
  `ReaderStep`); messages, ends and losses need never come.
* `LocalSpec` is the part of `FairSpec` that suffices for `reconnect_liveness`; a property
  that holds under less fairness holds under more.
* Seed nodes are told to dial in the end (`Connect`); other commands may never come.
  `PoliteSpec` adds that a peer whose Hello a node waits for says something or leaves. Without it a silent
  peer blocks the loop for ever, since the read has no timeout; `seed_sessions` rests on it.

## 5. Disagreements with the text of the repository

Each is a run that TLC ends with a counterexample.

| Run | What the code does |
|---|---|
| `reconnect_panic` | The PeerDisconnected of an old session removes the sender of the new one; the next message to the peer panics the dispatcher ("Attempt to send msg to disconnected peer."). |
| `seed_stale_disconnect` | Each session ends with up to two Disconnects, of its receive and of its send thread. The counterexample: the peer leaves, the first Disconnect ends the session, the peer comes back and is listed, and the second Disconnect drops the new session, open on both sides and with a running receive thread. |
| `wire_unflushed` | The send thread writes through a `BufWriter` it never flushes: what is given to `RemotePeer::send` leaves only when 8 KiB have come together or the peer is dropped (`remote_peer.rs:69-71, 94, 104`). |

Met while modelling, visible in the actions named, and not kept as runs:

* A failed write panics the per-peer task without a `PeerDisconnected` (`WriteError`,
  `dispatcher.rs:137`): the peer stays in the address book and in the map of senders.
* Two seed nodes that dial each other may each accept the other's connection and then reject
  the one they dialled (`AddPeer`, `Reject`): both connections are lost. `seed_crossdial` takes
  these steps; `Discovered` is checked for nodes that do not dial each other.
* When `RemotePeer::new` fails, Hello has been said and the node runs on without the peer
  (`AddPeerUnlisted`): the dialler may list it and learns of the loss when it reads the end of
  the stream.
* "any number 65536 or greater will be regarded as a malformed message" (`messages.proto:16`):
  the code takes the lower 16 bits instead (`AddrFromWire`, `encoding.rs:67`). No port this
  program sends is affected (`MessageRoundTrip`).
* "we attempt to read up to 10 bytes first to extract the varint" (`encoding.rs:231`): the
  delimiter is two bytes, low byte first (`decode_length_delimiter`).
* The confirmation of the exit may reach the ABCI layer while per-peer tasks still run, against
  the comment "Shutdown networking sub-tasks first..." (`tendermint.rs:142`): `ConfirmExit`
  waits for `HandleExit` only. `SubTasksExit` shows that they end later.
* A seed node that waits for the Hello of a node that has terminated with the connection still
  in its queue never handles its own Terminate: the events of a dropped node, streams included,
  live as long as anyone can send (`FreeChannel`), and its listener waits in `accept`.
* `Terminate` does not "cleanly disconnect from all peers" (`seed_node.rs:124`) that stay silent:
  the receive thread keeps a clone of the stream (`ReceiveFails` needs the other end closed).
* An address book entry gets the local address of the connection (`AddPeer`, `LocalAddr`), not
  "the port on which the peer is listening" (`types.rs:25`).
* `publish` stops at the first subscriber that is full or gone, and the error ends the node
  (`NotifyFails`), where its comment has "to all subscribers" (`pubsub.rs:86`).

## 6. Proofs

Checked by TLAPS, for every set of peers, connections and nodes (`Node` of `AddrBook` finite)
and all bounds, from the named assumptions on constants only.

* `NodeProofs!TypeCorrect`: `Spec => []TypeOK`.
* `NodeProofs!SessionsOrdered`, `OnlyReturnedPanics`, `DispatcherNeverPanics`: `SessionOrder`
  always holds; the dispatcher panics, if ever, over a message to a peer that came back
  (`PanicsOnlyOverReturned`); so if no peer comes back (`OneSession`) it never does. Only the
  last one assumes `OneSession`, and `reconnect_panic` is the counterexample without it. That
  the dispatcher knows a peer is not inductive: it depends on what the Tendermint thread
  remembers (`addr_book`, `to_request`) and on the messages under way in both directions. The
  inductive invariant `SessionInv` adds `SessionOrder`: for a peer on its first connection, once
  its removal (`DropPeer`) is in the dispatcher's queue, nothing about the peer is left anywhere
  before that point and nothing follows it; a `PeerDisconnected` is the last message about the
  peer. For every peer, whether it came back or not, its sender leads to a connection of its
  own that has completed its handshake (`Routed`), and a connection has at most one message in
  the queue, which agrees with `task`. `Routed` is what makes a handshake that completes while
  the peer has a sender the proof of a second connection. `Returned` only ever becomes true, so
  a return frees the invariant of a peer and never burdens it with another. The proof has a
  lemma per action that disturbs one of these, and one (`QuietStep`) for those that do not.
* `NodeProofs!ExitIsOrderly`: `OrderlyExit`, with or without reconnects, by `ExitInv`
  (the confirmation was sent iff the dispatcher left its loop).
* `AddrBookProofs!EveryReportCounted`, `ExitAfterAllConnected`: by `BookInv`, which adds that
  Exit is announced only once all reports are counted, and that a thread that has not started
  has not reported. The count is tied to a set: counted plus pending reports are the
  cardinality of the nodes whose `done_sender` is gone, so the count can reach the number of
  nodes only if that set is all of them. `BooksGather`: the books implement `Rendezvous`. A
  member learns only of members that have arrived, because a `Pong` is sent only by a thread
  that runs (`PongsFromStarted`); that the end is called only when all have met is
  `ExitWhenConnected`.
* `SubscriptionsProofs!TypeCorrect`, `IndicesAlwaysAgree`, `RegistryImplemented`: the
  subscriptions implement `SubscriptionRegistry`. The invariant `RegistryInv` is `TypeOK`,
  `IndicesAgree` and that the loop returns to its queue only when nobody is left to be
  notified; the last part is what lets an event be published, or a subscription removed, as
  one step of the registry. `AddedSubscribers` and `RemovedSubscribers` say what `add` and
  `remove_all` do to the subscribers of every event id, and each action has a lemma that maps
  it to a step or a stutter of the registry.
* `AgreementProofs!RecordsAgreeWhenIdle`, `RequesterAlwaysListed`: `IdleAgreement` and
  `RequesterListed`, for peers on their first connection, whoever else comes back.
  `SessionOrder` says in which order messages about a peer are; `Agreement` adds that none is
  missing: a peer the dispatcher lists is in the address book, or its `PeerConnected` or its
  removal is under way (`Introduced`); a request is never queued behind the removal and never
  before the introduction; the task of such a peer is the one its sender leads to (`Owned`);
  every answer lists whom it is for, in the queue of the dispatcher and in the channel of the
  peer. With both queues empty only the agreement of the two books is left.
* `MembershipProofs!MembershipImplemented`, `NodeIsTidy`: `Node` implements `Membership`. A step
  of the node concerns at most one peer; `Undisturbed` says what makes another peer's view of it
  unchanged, `Moves` lists what may happen to the one concerned, and `Follows` maps each of
  these to an action of `Membership`: in particular a session ends only when the peer has hung
  up or sent what does not decode (`HungUp`). Then there is a lemma per action of the node. What they
  need is `AgreementInv` (the message that makes the node act finds the peer in the stage
  `Membership` wants: a peer that asks is a member, one whose removal is handled has nothing on
  its way to it) and `Tidy` (an `Exit` in the queue was requested, only listed peers are
  asked, a task takes its queue with it, the thread does not end before the dispatcher).
* `AddrBookProofs!TypeCorrect`.
* `SeedProofs!StreamsAlwaysHeld`, `SessionsMutual`, `ListedPeersServed`, `TypeCorrect`: by
  `SeedInvariant`. An end of a connection passes from the backlog to an event, to the loop, to
  the threads of a peer, and the invariant `SeedInv` says for each place that names an end
  (`Waiting`, `Queued`, `Busy`, `Listed`) that its holders are those of that stage, and that no
  queue names it twice; the converse (`Held`) makes the stages exclusive. So no step can close
  an end another thread still uses, and a closed end stays closed. `Dials` and `Fresh` say that
  a connection is opened once, `Greeted` and `Answered` that a `Hello` reaches a dialler only
  from a node that listens to it, or that was starved and has closed its end (`Listens`),
  `Served` is `ListedServed`: of the three holders of a
  session the receive thread can be the first to go, but then its Disconnect is queued, and
  only the loop, which drops the peer, takes it from there.
* `ConnectionProofs!ConnectionsImplemented`, `LifeInvariant`: the seed nodes implement
  `Connections`. Every step of the network is one of a few moves of an end (it opens, is handed
  on, listed, dropped, refused, loses a thread, or its node returns), and each move is a step or
  a stutter of `Connections`. `LifeInv` adds to `SeedInv` that an end is held by one place or by
  a session, whose send thread lives as long as its `RemotePeer` (`Staged`), that whoever
  dialled is told nothing but Hello (`HelloBack`), and that the receive thread of a session
  between nodes ends only when the other end is closed or its own node has returned (`Deaf`):
  this is why a node that runs never closes a session first. Which nodes are starved is a
  constant like any other, so with `Starved` empty the theorems give the plain statement: a
  dialler listens only to a running node that listens back.
* `WireProofs!TypeCorrect`, `ReaderAlwaysInStep`, `ChannelImplemented`: by the invariant
  `WireInv`. Besides `TypeOK` and `ReaderInStep` it says that what was written is frame after
  frame, the last perhaps half (`FramesWritten`), that this program and others do not share a
  connection (`WriterKind`), and that a body that is read is the one its delimiter announced
  (`BodyInFrame`). `DelimiterRoundTrip` and `MessageRoundTrip` say that lengths and messages
  survive their conversions, for every base, port limit and set of addresses.

Only model-checked: the liveness properties, which are out of reach of the prover. Every safety
property of the passing runs is proved, refinements included; `NoSendToDisconnected` under
`OneSession`, which the instance of `node_safety` satisfies, the others under the named
assumptions on constants alone.

## 7. Not modelled

* Framing in the multithreaded node: `encoding.rs` there only names codecs of tokio-util and
  tokio-serde, whose code is not in the repository; frames are atomic in `Node`.
* IPC serialisation and the router thread.
* The `WouldBlock` branch of the receive thread (`remote_peer.rs:132-134`), which would retry in
  the middle of a frame: no stream is made non-blocking or given a timeout, so it is not taken.
* Partial writes and `Interrupted`, which `write_all` and `read_exact` hide.
* An error of `accept` itself, which ends the process; command line, logging, build script.
* `FromPeer(Hello)` at the Tendermint thread: per-peer tasks pass on requests only.
* `SubscriptionID::new`, a 64-bit counter: subscribers use any id, reused ones included.
* Growth of unbounded queues while the dispatcher is blocked: the model bounds them.

## 8. Plan

Done, in this order: node, its invariant and proofs; address book and proofs; seed nodes;
subscriptions, their abstraction and the proof that they implement it; the wire, its
abstraction and the proof that it implements it; proofs about the seed nodes and the agreement
of the node's two books; the theorems about the node freed of `OneSession`, all but the one that
needs it; the abstractions of address books, connections and node, and the proofs that they are
implemented. What could come next, in the order of what it would add:

1. Seed nodes with subscribers, so that a failing `publish` meets the rest of the loop.
2. What the node promises a peer that came back, once `dispatcher.rs:62-64` tells the sessions of
   a peer apart: `Membership` could then speak of sessions instead of first connections.
