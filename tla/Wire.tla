--------------------------------- MODULE Wire ---------------------------------
(***************************************************************************)
(* One direction of a connection between two seed nodes, in bytes.         *)
(*                                                                         *)
(* On the sending side the event loop writes Hello straight to the stream; *)
(* from then on the send thread takes messages from an unbounded channel   *)
(* and writes them through a BufWriter.  On the receiving side the event   *)
(* loop reads Hello from the stream and the receive thread all the rest    *)
(* through a BufReader.  A frame is a two-byte length, low byte first, and *)
(* the encoding of an `Any`.  The sender may also be a program of another  *)
(* kind, which writes what it likes.                                       *)
(*                                                                         *)
(* `bytes` is everything ever encoded; positions in it say what has left   *)
(* the BufWriter (flushed), entered the BufReader (fetched) and been read  *)
(* (taken).                                                                *)
(***************************************************************************)
EXTENDS PeerMessages

CONSTANTS
  Message,   \* messages this program sends
  Greeting,  \* its Hello
  AnyMsg,    \* values of type Any
  Encoding,  \* the bytes prost encodes them to
  Foreign,   \* frames a program of another kind may write
  Base,      \* bound: values of a byte, 256 in the code
  MaxLen,    \* MAX_MESSAGE_LEN
  BufCap,    \* capacity of BufWriter and BufReader
  MaxSent    \* bound: messages sent on a connection

Byte == 0 .. Base - 1

decode_length_delimiter(low, high) == low + Base * high

encode_length_delimiter(len) == <<len % Base, (len \div Base) % Base>>

\* A foreign frame either has a length that is refused, or the length it says.
SelfDelimited(f) ==
  /\ Len(f) >= 2
  /\ LET n == f[1] + Base * f[2] IN n = 0 \/ n > MaxLen \/ Len(f) = 2 + n

ASSUME WireAssumption ==
  /\ Base \in Nat \ {0, 1} /\ MaxLen \in Nat /\ BufCap \in Nat /\ MaxSent \in Nat
  /\ MaxLen < Base * Base  \* "Must be enough to accommodate `MAX_MESSAGE_LEN`."
  /\ MaxLen < BufCap /\ 2 < BufCap
  /\ Message \subseteq PeerMessage /\ Greeting \in Message
  /\ \A m \in Message : ToAny(m) \in AnyMsg
  /\ \A a \in AnyMsg : Decodable(a)
  /\ Encoding \in [AnyMsg -> Seq(Byte)]
  /\ \A a, b \in AnyMsg : Encoding[a] = Encoding[b] => a = b
  /\ \A f \in Foreign : f \in Seq(Byte) /\ SelfDelimited(f)

VARIABLES
  sent,         \* messages given to the sending side, frames of another program
  ends,         \* positions at which the frames written so far end
  half,         \* of the last one only the delimiter is written
  bytes, flushed, fetched, taken,
  writer,       \* who writes: "loop", then "thread"; "foreign"; "ended"
  remote_peer,  \* the sending RemotePeer: "none", "listed" or "dropped"
  connection,   \* "open"; "closed" or "reset" by the sender; "lost" to the reader
  reader,       \* who reads: "loop", then "thread"; "refused" a frame; "ended"
  field,        \* what read_exact reads: "delimiter" or "body"
  start,        \* position at which it begins
  received

sender_vars == <<sent, ends, half, bytes, flushed, writer, remote_peer>>
reader_vars == <<fetched, taken, reader, field, start, received>>
vars == <<sender_vars, connection, reader_vars>>

ForeignItem(f) == [type |-> "Foreign", frame |-> f]
Item == Message \cup {ForeignItem(f) : f \in Foreign}

Body(m) == Encoding[ToAny(m)]

\* write_any refuses an empty Any, encode one that exceeds its buffer.
Encodable(m) == Len(Body(m)) \in 1 .. MaxLen

Frame(x) ==
  IF x.type = "Foreign" THEN x.frame ELSE encode_length_delimiter(Len(Body(x))) \o Body(x)

\* read_any and read_peer_message of the bytes of one body.
Decoded(body) ==
  IF \E a \in AnyMsg : Encoding[a] = body
  THEN FromAny(CHOOSE a \in AnyMsg : Encoding[a] = body) ELSE Malformed

-----------------------------------------------------------------------------
(* The sending side                                                        *)

Init ==
  /\ \/ writer = "loop" /\ sent \in {<<Greeting>>, <<Greeting, Greeting>>}
     \/ writer = "foreign" /\ sent = << >>
  /\ ends = << >> /\ half = FALSE
  /\ bytes = << >> /\ flushed = 0 /\ fetched = 0 /\ taken = 0
  /\ remote_peer = "none" /\ connection = "open"
  /\ reader = "loop" /\ field = "delimiter" /\ start = 0 /\ received = << >>

\* A part of n bytes does not fit what is in the BufWriter.
Overfull(n) == Len(bytes) + n - flushed > BufCap

\* write_all, straight to the stream or into the BufWriter, which is flushed
\* first when the part does not fit.
Write(part) ==
  /\ bytes' = bytes \o part
  /\ flushed' = IF writer = "loop" THEN Len(bytes')
                ELSE IF Overfull(Len(part)) THEN Len(bytes) ELSE flushed

\* The next message to be written.
Pending == Len(ends) < Len(sent)
Upcoming == sent[Len(ends) + 1]

WriteDelimiter ==
  /\ writer \in {"loop", "thread"} /\ ~half /\ Pending
  /\ Encodable(Upcoming)
  /\ Write(encode_length_delimiter(Len(Body(Upcoming))))
  /\ ends' = Append(ends, Len(bytes) + 2 + Len(Body(Upcoming)))
  /\ half' = TRUE
  /\ UNCHANGED <<sent, writer, remote_peer, connection, reader_vars>>

WriteBody ==
  /\ writer \in {"loop", "thread"} /\ half
  /\ Write(Body(sent[Len(ends)]))
  /\ half' = FALSE
  /\ UNCHANGED <<sent, ends, writer, remote_peer, connection, reader_vars>>

\* A message that cannot be encoded ends whoever writes; dropping the BufWriter
\* flushes it.
EncodingFails ==
  /\ writer \in {"loop", "thread"} /\ ~half /\ Pending
  /\ ~Encodable(Upcoming)
  /\ writer' = "ended"
  /\ flushed' = Len(bytes)
  /\ UNCHANGED <<sent, ends, half, bytes, remote_peer, connection, reader_vars>>

\* The other end is gone and a write that reaches the kernel says so.
WriteFails ==
  /\ writer \in {"loop", "thread"} /\ (half \/ Pending)
  /\ connection = "lost"
  /\ writer = "loop" \/ Overfull(IF half THEN Len(Body(sent[Len(ends)])) ELSE 2)
  /\ writer' = "ended"
  /\ UNCHANGED <<sent, ends, half, bytes, flushed, remote_peer, connection, reader_vars>>

\* RemotePeer::new, once Hello is said.
StartThreads ==
  /\ writer = "loop" /\ ~half /\ ~Pending
  /\ writer' = "thread"
  /\ remote_peer' = "listed"
  /\ UNCHANGED <<sent, ends, half, bytes, flushed, connection, reader_vars>>

\* RemotePeer::send; it fails once the send thread is gone.
Send(m) ==
  /\ remote_peer = "listed" /\ writer = "thread"
  /\ Len(sent) < MaxSent
  /\ sent' = Append(sent, m)
  /\ UNCHANGED <<ends, half, bytes, flushed, writer, remote_peer, connection, reader_vars>>

DropPeer ==
  /\ remote_peer = "listed"
  /\ remote_peer' = "dropped"
  /\ UNCHANGED <<sent, ends, half, bytes, flushed, writer, connection, reader_vars>>

\* Mutation: the BufWriter is forgotten with what is in it.
SendThreadEndsUnflushed ==
  /\ writer = "thread" /\ ~half /\ ~Pending
  /\ remote_peer = "dropped"
  /\ writer' = "ended"
  /\ UNCHANGED <<sent, ends, half, bytes, flushed, remote_peer, connection, reader_vars>>

\* recv fails once the channel is empty and its sender dropped; dropping the
\* BufWriter flushes it.
SendThreadEnds ==
  /\ writer = "thread" /\ ~half /\ ~Pending
  /\ remote_peer = "dropped"
  /\ writer' = "ended"
  /\ flushed' = Len(bytes)
  /\ UNCHANGED <<sent, ends, half, bytes, remote_peer, connection, reader_vars>>

\* The process ends, or the last clone of the stream is dropped: the reader
\* gets what was flushed, or the connection is reset.
Exit ==
  /\ connection = "open"
  /\ connection' \in {"closed", "reset"}
  /\ writer' = "ended"
  /\ remote_peer' = IF remote_peer = "listed" THEN "dropped" ELSE remote_peer
  /\ UNCHANGED <<sent, ends, half, bytes, flushed, reader_vars>>

ForeignWrites(f) ==
  /\ writer = "foreign"
  /\ Len(sent) < MaxSent
  /\ sent' = Append(sent, ForeignItem(f))
  /\ bytes' = bytes \o f
  /\ ends' = Append(ends, Len(bytes'))
  /\ flushed' = Len(bytes')
  /\ UNCHANGED <<half, writer, remote_peer, connection, reader_vars>>

-----------------------------------------------------------------------------
(* The receiving side                                                      *)

Reading == reader \in {"loop", "thread"}

\* The length that was read before the body.
BodyLen == decode_length_delimiter(bytes[start - 1], bytes[start])

Needed == IF field = "delimiter" THEN 2 ELSE BodyLen

\* read on the stream, or on the BufReader as far as it is filled.
Take(n) ==
  /\ Reading
  /\ n > 0 /\ taken + n <= start + Needed
  /\ \/ reader = "loop" /\ taken + n <= flushed /\ fetched' = taken + n
     \/ reader = "thread" /\ taken + n <= fetched /\ UNCHANGED fetched
  /\ taken' = taken + n
  /\ UNCHANGED <<sender_vars, connection, reader, field, start, received>>

\* Mutation: the BufReader may hold more than has come.
FetchBlindly(n) ==
  /\ reader = "thread"
  /\ fetched = taken /\ taken < start + Needed
  /\ n \in 1 .. BufCap /\ fetched + n <= Len(bytes)
  /\ fetched' = fetched + n
  /\ UNCHANGED <<sender_vars, connection, taken, reader, field, start, received>>

\* An empty BufReader takes what the kernel has, up to its capacity.
Fetch(n) ==
  /\ reader = "thread"
  /\ fetched = taken /\ taken < start + Needed
  /\ n \in 1 .. BufCap /\ fetched + n <= flushed
  /\ fetched' = fetched + n
  /\ UNCHANGED <<sender_vars, connection, taken, reader, field, start, received>>

AcceptLength ==
  /\ Reading /\ field = "delimiter" /\ taken = start + 2
  /\ decode_length_delimiter(bytes[start + 1], bytes[start + 2]) \in 1 .. MaxLen
  /\ field' = "body" /\ start' = taken
  /\ UNCHANGED <<sender_vars, connection, fetched, taken, reader, received>>

RefuseLength ==
  /\ Reading /\ field = "delimiter" /\ taken = start + 2
  /\ decode_length_delimiter(bytes[start + 1], bytes[start + 2]) \notin 1 .. MaxLen
  /\ reader' = "refused"
  /\ UNCHANGED <<sender_vars, connection, fetched, taken, field, start, received>>

\* Mutation: Hello is read through a BufReader of its own.
ReadMessageBuffered ==
  LET msg == Decoded([k \in 1 .. BodyLen |-> bytes[start + k]]) IN
  /\ Reading /\ field = "body" /\ taken = start + BodyLen
  /\ msg # Malformed
  /\ received' = Append(received, msg)
  /\ field' = "delimiter"
  /\ start' = IF reader = "loop" THEN flushed ELSE taken
  /\ taken' = start' /\ fetched' = IF reader = "loop" THEN flushed ELSE fetched
  /\ reader' = IF reader = "loop" /\ msg.type # "Hello" THEN "ended" ELSE "thread"
  /\ UNCHANGED <<sender_vars, connection>>

\* A message is read; the loop expects it to be a Hello and leaves the rest to
\* the receive thread.
ReadMessage ==
  LET msg == Decoded([k \in 1 .. BodyLen |-> bytes[start + k]]) IN
  /\ Reading /\ field = "body" /\ taken = start + BodyLen
  /\ msg # Malformed
  /\ received' = Append(received, msg)
  /\ field' = "delimiter" /\ start' = taken
  /\ reader' = IF reader = "loop" /\ msg.type # "Hello" THEN "ended" ELSE "thread"
  /\ UNCHANGED <<sender_vars, connection, fetched, taken>>

\* Mutation: the thread tries the next frame.
SkipMessage ==
  /\ Reading /\ field = "body" /\ taken = start + BodyLen
  /\ Decoded([k \in 1 .. BodyLen |-> bytes[start + k]]) = Malformed
  /\ field' = "delimiter" /\ start' = taken
  /\ UNCHANGED <<sender_vars, connection, fetched, taken, reader, received>>

RefuseMessage ==
  /\ Reading /\ field = "body" /\ taken = start + BodyLen
  /\ Decoded([k \in 1 .. BodyLen |-> bytes[start + k]]) = Malformed
  /\ reader' = "refused"
  /\ UNCHANGED <<sender_vars, connection, fetched, taken, field, start, received>>

\* Mutation: the end of the stream in the middle of a frame is waited out.
StreamEndsBetweenFrames ==
  /\ Reading /\ field = "delimiter" /\ taken = start
  /\ \/ connection = "closed" /\ taken = flushed
     \/ connection = "reset" /\ taken = fetched
  /\ reader' = "ended"
  /\ UNCHANGED <<sender_vars, connection, fetched, taken, field, start, received>>

\* read_exact meets the end of the stream, in a frame or between two, or a reset,
\* which discards what the kernel still has.
StreamEnds ==
  /\ Reading /\ taken < start + Needed
  /\ \/ connection = "closed" /\ taken = flushed
     \/ connection = "reset" /\ taken = fetched
  /\ reader' = "ended"
  /\ UNCHANGED <<sender_vars, connection, fetched, taken, field, start, received>>

\* The receiving process ends, or drops the stream.
ReaderLeaves ==
  /\ connection = "open"
  /\ connection' = "lost"
  /\ reader' = "ended"
  /\ UNCHANGED <<sender_vars, fetched, taken, field, start, received>>

-----------------------------------------------------------------------------
WriterStep ==
  WriteDelimiter \/ WriteBody \/ EncodingFails \/ WriteFails \/ StartThreads \/ SendThreadEnds

ReaderStep ==
  \/ \E n \in 1 .. BufCap : Take(n) \/ Fetch(n)
  \/ AcceptLength \/ RefuseLength \/ ReadMessage \/ RefuseMessage \/ StreamEnds

Next ==
  \/ WriterStep \/ ReaderStep
  \/ \E m \in Message : Send(m)
  \/ \E f \in Foreign : ForeignWrites(f)
  \/ DropPeer \/ Exit \/ ReaderLeaves

Spec == Init /\ [][Next]_vars

\* Every thread that can run is eventually run.
FairSpec == Spec /\ WF_vars(WriterStep) /\ WF_vars(ReaderStep)

-----------------------------------------------------------------------------
(* Properties.                                                             *)

TypeOK ==
  /\ sent \in Seq(Item)
  /\ ends \in Seq(Nat) /\ Len(ends) <= Len(sent)
  /\ half \in BOOLEAN
  /\ bytes \in Seq(Byte)
  /\ flushed \in 0 .. Len(bytes) /\ fetched \in 0 .. flushed /\ taken \in 0 .. fetched
  /\ writer \in {"loop", "thread", "foreign", "ended"}
  /\ remote_peer \in {"none", "listed", "dropped"}
  /\ connection \in {"open", "closed", "reset", "lost"}
  /\ reader \in {"loop", "thread", "refused", "ended"}
  /\ field \in {"delimiter", "body"}
  /\ start \in 0 .. taken
  /\ received \in Seq(PeerMessage)

\* Where the i-th frame begins.
FrameStart(e, i) == IF i = 1 THEN 0 ELSE e[i - 1]

\* Whatever chunks the bytes come in and whoever reads them, read_exact works on
\* the frame after those already read, at its delimiter or its body
\* (encoding.rs:230-249); the hand-over from the loop to the receive thread
\* loses no byte (seed_node.rs:185, remote_peer.rs:117).
ReaderInStep ==
  Reading => /\ Len(received) <= Len(ends)
             /\ start = FrameStart(ends, Len(received) + 1) + (IF field = "delimiter" THEN 0 ELSE 2)

\* What is read of an item.
Meaning ==
  [x \in Item |->
     IF x.type # "Foreign" THEN x
     ELSE LET n == decode_length_delimiter(x.frame[1], x.frame[2]) IN
          IF n \in 1 .. MaxLen THEN Decoded([k \in 1 .. n |-> x.frame[2 + k]]) ELSE Malformed]

Channel == INSTANCE MessageChannel WITH
  reading <- IF Reading THEN "on" ELSE IF reader = "refused" THEN "refused" ELSE "off"

\* The frames implement a channel of messages: they are read whole, in order and
\* each once, with their ports and addresses, none is refused but one that is
\* malformed, and none is read after it (encoding.rs:55-109, 206-300,
\* remote_peer.rs:112-141).
ImplementsChannel == Channel!Spec

\* A reader whose connection was closed or reset, be it in the middle of a frame,
\* comes to an end (remote_peer.rs:135-138).
ReaderEnds == connection \in {"closed", "reset"} ~> ~Reading

\* Dropping a RemotePeer lets everything out that was given to it before, unless
\* one message cannot be encoded or the connection or the reader ends
\* (remote_peer.rs:94-108).
DroppedPeerDrained ==
  remote_peer = "dropped" ~>
    \/ Len(received) = Len(sent)
    \/ connection # "open" \/ ~Reading
    \/ \E i \in 1 .. Len(sent) : ~Encodable(sent[i])

\* "this sends the message to the peer's network write routine, which will
\* attempt to serialize the message and send it out to the peer"
\* (remote_peer.rs:69-71): what RemotePeer::send was given comes to be read.
SentArrives ==
  \A i \in 1 .. MaxSent :
    Len(sent) >= i ~>
      \/ Len(received) >= i
      \/ connection # "open" \/ ~Reading \/ writer = "ended"
=============================================================================
