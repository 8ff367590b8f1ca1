------------------------------ MODULE WireProofs ------------------------------
(***************************************************************************)
(* Proofs about Wire, for every encoding of messages and all sizes: the    *)
(* bytes on a connection implement a channel of messages.                  *)
(***************************************************************************)
EXTENDS Wire, TLAPS

-----------------------------------------------------------------------------
(* Conversions.                                                            *)

LEMMA Quotient ==
  ASSUME NEW b \in Nat \ {0}, NEW n \in Nat
  PROVE  /\ n \div b \in Nat /\ n % b \in 0 .. b - 1
         /\ n = b * (n \div b) + (n % b)
  OBVIOUS

LEMMA Concatenation ==
  ASSUME NEW S, NEW s \in Seq(S), NEW t \in Seq(S)
  PROVE  /\ s \o t \in Seq(S) /\ Len(s \o t) = Len(s) + Len(t)
         /\ \A k \in 1 .. Len(s) : (s \o t)[k] = s[k]
         /\ \A k \in 1 .. Len(t) : (s \o t)[Len(s) + k] = t[k]
  OBVIOUS

LEMMA SmallRemainder ==
  ASSUME NEW b \in Nat \ {0}, NEW n \in 0 .. b - 1
  PROVE  n % b = n
  OBVIOUS

\* A length that fits two bytes survives encode_length_delimiter and
\* decode_length_delimiter (encoding.rs:289-300).
THEOREM DelimiterRoundTrip ==
  ASSUME NEW n \in 0 .. Base * Base - 1
  PROVE  LET d == encode_length_delimiter(n) IN
         /\ d \in Seq(Byte) /\ Len(d) = 2
         /\ decode_length_delimiter(d[1], d[2]) = n
<1> DEFINE q == n \div Base
<1>0. Base \in Nat \ {0} /\ Base * Base \in Nat  BY WireAssumption
<1>1. q \in Nat /\ n % Base \in 0 .. Base - 1 /\ n = Base * q + (n % Base)
  <2>1. n \in Nat  BY <1>0
  <2> QED  BY ONLY <1>0, <2>1, Quotient
<1>2. q < Base
  <2> SUFFICES ASSUME q >= Base PROVE FALSE  BY <1>0, <1>1
  <2> HIDE DEF q
  <2>1. Base * q >= Base * Base  BY <1>0, <1>1
  <2> QED  BY <2>1, <1>0, <1>1
<1>3. q % Base = q  BY <1>0, <1>1, <1>2
<1>4. encode_length_delimiter(n) = <<n % Base, q>>  BY <1>3 DEF encode_length_delimiter
<1> HIDE DEF q
<1> QED  BY <1>0, <1>1, <1>2, <1>4 DEF decode_length_delimiter, Byte

\* A message is read from the Any it was turned into: addresses keep their IP and
\* port (encoding.rs:55-137, 206-224, messages.rs:17-27).
THEOREM MessageRoundTrip ==
  ASSUME NEW m \in PeerMessage
  PROVE  FromAny(ToAny(m)) = m
<1>1. CASE m \in [type : {"Hello"}, id : Id]
  BY <1>1 DEF FromAny, ToAny, Hello
<1>2. CASE m = AddressBookRequest
  BY <1>2 DEF FromAny, ToAny, AddressBookRequest
<1>3. CASE m \in [type : {"AddressBook"}, addrs : Seq(PeerAddr)]
  <2> DEFINE a == m.addrs
             w == [i \in 1 .. Len(a) |-> AddrToWire(a[i])]
  <2>1. a \in Seq(PeerAddr) /\ m = [type |-> "AddressBook", addrs |-> a]  BY <1>3
  <2>2. Len(w) = Len(a)  BY <2>1
  <2>3. ASSUME NEW i \in 1 .. Len(a)
        PROVE  Parse[w[i].ip] # NoIp /\ AddrFromWire(w[i]) = a[i]
    <3>1. a[i] \in PeerAddr /\ w[i] = AddrToWire(a[i])  BY <2>1
    <3>2. a[i].port \in 0 .. PortLimit - 1 /\ PortLimit \in Nat \ {0}
      BY <3>1, AddressAssumption DEF PeerAddr
    <3>3. a[i].port % PortLimit = a[i].port  BY ONLY <3>2, SmallRemainder
    <3> QED  BY <3>1, <3>3, AddressAssumption DEF PeerAddr, AddrToWire, AddrFromWire
  <2>4. [i \in 1 .. Len(w) |-> AddrFromWire(w[i])] = a  BY <2>1, <2>2, <2>3
  <2>5. BookFromWire(w) = m  BY <2>1, <2>2, <2>3, <2>4 DEF BookFromWire, AddressBook
  <2>6. ToAny(m) = [type_url |-> "AddressBook", value |-> [proto |-> "AddressBook", addrs |-> w]]
    BY <2>1 DEF ToAny
  <2> HIDE DEF w, a
  <2> QED  BY <2>5, <2>6 DEF FromAny
<1> QED  BY <1>1, <1>2, <1>3 DEF PeerMessage

-----------------------------------------------------------------------------
(* Frames.                                                                 *)

LEMMA Decodes ==
  ASSUME NEW a \in AnyMsg
  PROVE  FromAny(a) \in PeerMessage \cup {Malformed}
<1>1. Decodable(a)  BY WireAssumption
<1>2. CASE a.type_url = "AddressBook" /\ a.value.proto = "AddressBook"
  <2> DEFINE w == a.value.addrs
  <2>1. w \in Seq(WireAddr)  BY <1>1, <1>2 DEF Decodable
  <2>2. FromAny(a) = BookFromWire(w)  BY <1>2 DEF FromAny
  <2> HIDE DEF w
  <2>3. ASSUME NEW i \in 1 .. Len(w), Parse[w[i].ip] # NoIp
        PROVE  AddrFromWire(w[i]) \in PeerAddr
    <3>1. w[i] \in WireAddr  BY <2>1
    <3>2. w[i].port \in Nat /\ PortLimit \in Nat \ {0}  BY <3>1, AddressAssumption DEF WireAddr
    <3>3. w[i].port % PortLimit \in 0 .. PortLimit - 1  BY ONLY <3>2, Quotient
    <3> QED  BY <2>3, <3>1, <3>3, AddressAssumption DEF WireAddr, AddrFromWire, PeerAddr
  <2>4. CASE \A i \in 1 .. Len(w) : Parse[w[i].ip] # NoIp
    <3>1. [i \in 1 .. Len(w) |-> AddrFromWire(w[i])] \in Seq(PeerAddr)  BY <2>1, <2>3, <2>4
    <3> QED  BY <2>2, <2>4, <3>1 DEF BookFromWire, AddressBook, PeerMessage
  <2> QED  BY <2>2, <2>4 DEF BookFromWire
<1> QED  BY <1>1, <1>2 DEF FromAny, Decodable, Hello, AddressBookRequest, PeerMessage

LEMMA BodyType ==
  ASSUME NEW m \in Message
  PROVE  Body(m) \in Seq(Byte) /\ m \in PeerMessage /\ m.type # "Foreign"
<1>1. m \in PeerMessage /\ ToAny(m) \in AnyMsg  BY WireAssumption
<1> QED  BY <1>1, WireAssumption DEF Body, PeerMessage, AddressBookRequest

\* A message this program sends is what its body is decoded to.
LEMMA BodyDecoded ==
  ASSUME NEW m \in Message
  PROVE  Decoded(Body(m)) = m
<1>1. m \in PeerMessage /\ ToAny(m) \in AnyMsg  BY WireAssumption
<1>2. FromAny(ToAny(m)) = m  BY <1>1, MessageRoundTrip
<1>3. ASSUME NEW a \in AnyMsg, Encoding[a] = Encoding[ToAny(m)] PROVE a = ToAny(m)
  BY <1>1, <1>3, WireAssumption
<1>4. (CHOOSE a \in AnyMsg : Encoding[a] = Encoding[ToAny(m)]) = ToAny(m)  BY <1>1, <1>3
<1> QED  BY <1>1, <1>2, <1>4 DEF Decoded, Body

HeadLen(f) == decode_length_delimiter(f[1], f[2])

LEMMA MessageFrame ==
  ASSUME NEW m \in Message, Encodable(m)
  PROVE  LET d == encode_length_delimiter(Len(Body(m))) IN
         /\ d \in Seq(Byte) /\ Len(d) = 2
         /\ Body(m) \in Seq(Byte) /\ Len(Body(m)) \in 1 .. MaxLen
         /\ Frame(m) = d \o Body(m) /\ Frame(m) \in Seq(Byte)
         /\ Len(Frame(m)) = 2 + Len(Body(m))
         /\ \A k \in 1 .. 2 : Frame(m)[k] = d[k]
         /\ \A k \in 1 .. Len(Body(m)) : Frame(m)[2 + k] = Body(m)[k]
         /\ HeadLen(Frame(m)) = Len(Body(m))
<1> DEFINE b == Body(m)
           d == encode_length_delimiter(Len(b))
<1>1. b \in Seq(Byte) /\ Len(b) \in 1 .. MaxLen /\ m.type # "Foreign"
  BY BodyType DEF Encodable
<1>2. Len(b) \in 0 .. Base * Base - 1
  <2>1. Base * Base \in Nat /\ MaxLen \in Nat /\ MaxLen < Base * Base  BY WireAssumption
  <2> QED  BY <1>1, <2>1
<1>3. d \in Seq(Byte) /\ Len(d) = 2 /\ decode_length_delimiter(d[1], d[2]) = Len(b)
  BY <1>2, DelimiterRoundTrip
<1>4. Frame(m) = d \o b  BY <1>1 DEF Frame
<1> HIDE DEF d, b
<1>5. /\ Len(d \o b) = 2 + Len(b)
      /\ \A k \in 1 .. 2 : (d \o b)[k] = d[k]
      /\ \A k \in 1 .. Len(b) : (d \o b)[2 + k] = b[k]
  <2>1. /\ Len(d \o b) = Len(d) + Len(b)
        /\ \A k \in 1 .. Len(d) : (d \o b)[k] = d[k]
        /\ \A k \in 1 .. Len(b) : (d \o b)[Len(d) + k] = b[k]
    <3>1. d \in Seq(Byte) /\ b \in Seq(Byte)  BY <1>1, <1>3
    <3> QED  BY ONLY <3>1, Concatenation
  <2>2. Len(d) = 2  BY <1>3
  <2> HIDE <1>3
  <2> DEFINE f == d \o b
  <2> HIDE DEF f
  <2>3. Len(f) = 2 + Len(b) /\ (\A k \in 1 .. 2 : f[k] = d[k])
        /\ \A k \in 1 .. Len(b) : f[2 + k] = b[k]
    BY ONLY <2>1, <2>2 DEF f
  <2> QED  BY ONLY <2>3 DEF f
<1>6. HeadLen(d \o b) = Len(b)  BY <1>3, <1>5 DEF HeadLen
<1>7. d \o b \in Seq(Byte)  BY <1>1, <1>3
<1> QED  BY <1>1, <1>3, <1>4, <1>5, <1>6, <1>7 DEF d, b

\* A frame has the length its delimiter says, unless that is refused, and its
\* bytes determine what is read.
LEMMA FrameShape ==
  ASSUME NEW x \in Item, x \in Message => Encodable(x)
  PROVE  LET f == Frame(x)  n == HeadLen(f) IN
         /\ f \in Seq(Byte) /\ Len(f) >= 2 /\ n \in Nat
         /\ n \in 1 .. MaxLen =>
              Len(f) = 2 + n /\ Meaning[x] = Decoded([k \in 1 .. n |-> f[2 + k]])
         /\ n \notin 1 .. MaxLen => Meaning[x] = Malformed
<1>1. CASE x \in Message
  <2>1. Encodable(x)  BY <1>1
  <2> DEFINE b == Body(x)  f == Frame(x)
  <2>2. /\ b \in Seq(Byte) /\ Len(b) \in 1 .. MaxLen /\ f \in Seq(Byte)
        /\ Len(f) = 2 + Len(b) /\ HeadLen(f) = Len(b)
        /\ \A k \in 1 .. Len(b) : f[2 + k] = b[k]
    BY <1>1, <2>1, MessageFrame
  <2>3. Meaning[x] = x /\ Decoded(b) = x  BY <1>1, BodyType, BodyDecoded DEF Meaning
  <2> HIDE DEF b, f
  <2>4. [k \in 1 .. Len(b) |-> f[2 + k]] = b  BY <2>2
  <2> QED  BY <2>2, <2>3, <2>4 DEF f
<1>2. CASE x \notin Message
  <2>1. PICK f \in Foreign : x = ForeignItem(f)  BY <1>2 DEF Item
  <2>2. x.type = "Foreign" /\ x.frame = f /\ Frame(x) = f  BY <2>1 DEF ForeignItem, Frame
  <2>3. f \in Seq(Byte) /\ SelfDelimited(f)  BY WireAssumption
  <2>4. Len(f) >= 2  BY <2>3 DEF SelfDelimited
  <2>5. f[1] \in Nat /\ f[2] \in Nat /\ Base \in Nat
    BY <2>3, <2>4, WireAssumption DEF Byte
  <2>6. HeadLen(f) \in Nat  BY <2>5 DEF HeadLen, decode_length_delimiter
  <2>7. HeadLen(f) \in 1 .. MaxLen => Len(f) = 2 + HeadLen(f)
    <3>1. \/ HeadLen(f) = 0 \/ HeadLen(f) > MaxLen \/ Len(f) = 2 + HeadLen(f)
      BY <2>3 DEF SelfDelimited, HeadLen, decode_length_delimiter
    <3>2. MaxLen \in Nat  BY WireAssumption
    <3> QED  BY <2>6, <3>1, <3>2
  <2>8. Meaning[x] = IF HeadLen(f) \in 1 .. MaxLen
                     THEN Decoded([k \in 1 .. HeadLen(f) |-> f[2 + k]]) ELSE Malformed
    BY <2>2 DEF Meaning, HeadLen
  <2> QED  BY <2>2, <2>3, <2>4, <2>6, <2>7, <2>8
<1> QED  BY <1>1, <1>2

LEMMA MeaningType ==
  ASSUME NEW x \in Item, Meaning[x] # Malformed
  PROVE  Meaning[x] \in PeerMessage
<1>1. CASE x.type # "Foreign"
  <2>1. x \in Message  BY <1>1 DEF Item, ForeignItem
  <2> QED  BY <1>1, <2>1, BodyType DEF Meaning
<1>2. CASE x.type = "Foreign"
  <2>1. \A body : Decoded(body) \in PeerMessage \cup {Malformed}  BY Decodes DEF Decoded
  <2> QED  BY <1>2, <2>1 DEF Meaning
<1> QED  BY <1>1, <1>2

-----------------------------------------------------------------------------
(* The inductive invariant.                                                *)

\* What was written is the frames of the first messages, one after the other, of
\* the last one perhaps only the delimiter.
FramesWritten ==
  /\ \A i \in 1 .. Len(ends) :
       /\ ends[i] = FrameStart(ends, i) + Len(Frame(sent[i]))
       /\ i < Len(ends) \/ ~half => ends[i] <= Len(bytes)
       /\ sent[i] \in Message => Encodable(sent[i])
       /\ \A k \in 1 .. Len(Frame(sent[i])) :
            FrameStart(ends, i) + k <= Len(bytes) => bytes[FrameStart(ends, i) + k] = Frame(sent[i])[k]
  /\ Len(bytes) = IF half THEN FrameStart(ends, Len(ends)) + 2 ELSE FrameStart(ends, Len(ends) + 1)
  /\ half => Len(ends) > 0 /\ sent[Len(ends)] \in Message

\* A program of this kind writes messages, another one whole frames at once.
WriterKind ==
  /\ writer \in {"loop", "thread"} => sent \in Seq(Message)
  /\ writer = "foreign" => ~half /\ Len(ends) = Len(sent)

\* The body that is read belongs to a frame, and its length was accepted.
BodyInFrame ==
  Reading /\ field = "body" => Len(received) < Len(ends) /\ BodyLen \in 1 .. MaxLen

WireInv == TypeOK /\ FramesWritten /\ WriterKind /\ ReaderInStep /\ BodyInFrame

LEMMA Positions ==
  ASSUME TypeOK
  PROVE  /\ ends \in Seq(Nat) /\ Len(ends) \in Nat /\ Len(ends) <= Len(sent)
         /\ sent \in Seq(Item) /\ bytes \in Seq(Byte) /\ Len(bytes) \in Nat
         /\ start \in Nat /\ taken \in Nat /\ fetched \in Nat /\ flushed \in Nat
         /\ start <= taken /\ taken <= fetched /\ fetched <= flushed /\ flushed <= Len(bytes)
         /\ received \in Seq(PeerMessage) /\ Len(received) \in Nat
         /\ \A i \in 1 .. Len(ends) + 1 : FrameStart(ends, i) \in Nat
<1>1. ends \in Seq(Nat) /\ Len(ends) \in Nat  BY DEF TypeOK
<1>2. \A i \in 1 .. Len(ends) + 1 : FrameStart(ends, i) \in Nat  BY <1>1 DEF FrameStart
<1> QED  BY <1>1, <1>2 DEF TypeOK

\* The i-th frame as the reader finds it.
FrameAt(i, f, n) ==
  /\ sent[i] \in Item
  /\ FrameStart(ends, i) \in Nat /\ FrameStart(ends, i + 1) = FrameStart(ends, i) + Len(f)
  /\ f \in Seq(Byte) /\ Len(f) \in Nat /\ Len(f) >= 2 /\ n \in Nat
  /\ n \in 1 .. MaxLen =>
       Len(f) = 2 + n /\ Meaning[sent[i]] = Decoded([k \in 1 .. n |-> f[2 + k]])
  /\ n \notin 1 .. MaxLen => Meaning[sent[i]] = Malformed
  /\ \A k \in 1 .. Len(f) :
       FrameStart(ends, i) + k <= Len(bytes) => bytes[FrameStart(ends, i) + k] = f[k]

LEMMA FrameOf ==
  ASSUME WireInv, NEW i \in 1 .. Len(ends)
  PROVE  FrameAt(i, Frame(sent[i]), HeadLen(Frame(sent[i])))
<1>1. ends \in Seq(Nat) /\ Len(ends) <= Len(sent) /\ sent \in Seq(Item)
  BY DEF WireInv, TypeOK
<1>2. sent[i] \in Item  BY <1>1
<1>3. FrameStart(ends, i) \in Nat /\ FrameStart(ends, i + 1) = ends[i]  BY <1>1 DEF FrameStart
<1>4. sent[i] \in Message => Encodable(sent[i])  BY DEF WireInv, FramesWritten
<1>5. /\ ends[i] = FrameStart(ends, i) + Len(Frame(sent[i]))
      /\ \A k \in 1 .. Len(Frame(sent[i])) :
           FrameStart(ends, i) + k <= Len(bytes) => bytes[FrameStart(ends, i) + k] = Frame(sent[i])[k]
  BY DEF WireInv, FramesWritten
<1> QED  BY <1>2, <1>3, <1>4, <1>5, FrameShape DEF FrameAt

\* A delimiter that was read is that of a frame.
LEMMA DelimiterRead ==
  ASSUME WireInv, Reading, field = "delimiter", taken = start + 2
  PROVE  /\ Len(received) + 1 \in 1 .. Len(ends)
         /\ start = FrameStart(ends, Len(received) + 1)
         /\ decode_length_delimiter(bytes[start + 1], bytes[start + 2])
              = HeadLen(Frame(sent[Len(received) + 1]))
<1> DEFINE r == Len(received)
<1>1. /\ r \in Nat /\ r <= Len(ends) /\ start = FrameStart(ends, r + 1)
      /\ start \in Nat /\ start + 2 <= Len(bytes) /\ Len(bytes) \in Nat
      /\ ends \in Seq(Nat) /\ Len(ends) \in Nat
  <2>1. r \in Nat /\ r <= Len(ends) /\ start = FrameStart(ends, r + 1) + 0
    BY DEF WireInv, ReaderInStep
  <2>2. FrameStart(ends, r + 1) \in Nat  BY <2>1, Positions DEF WireInv
  <2> QED  BY <2>1, <2>2, Positions DEF WireInv
<1>2. r # Len(ends)
  <2> SUFFICES ASSUME r = Len(ends) PROVE FALSE  OBVIOUS
  <2>1. CASE ~half
    <3>1. Len(bytes) = FrameStart(ends, Len(ends) + 1)  BY <2>1 DEF WireInv, FramesWritten
    <3> QED  BY <1>1, <3>1
  <2>2. CASE half
    <3>1. Len(bytes) = FrameStart(ends, Len(ends)) + 2 /\ Len(ends) \in 1 .. Len(ends)
      BY <2>2, <1>1 DEF WireInv, FramesWritten
    <3>2. start >= FrameStart(ends, Len(ends)) + 2 /\ FrameStart(ends, Len(ends)) \in Nat
      <4>1. FrameAt(r, Frame(sent[r]), HeadLen(Frame(sent[r])))  BY <3>1, FrameOf
      <4> QED  BY <4>1, <1>1 DEF FrameAt
    <3> QED  BY <1>1, <3>1, <3>2
  <2> QED  BY <2>1, <2>2
<1>3. r + 1 \in 1 .. Len(ends)  BY <1>1, <1>2
<1>4. LET f == Frame(sent[r + 1]) IN
      /\ Len(f) \in Nat /\ Len(f) >= 2
      /\ \A k \in 1 .. Len(f) : start + k <= Len(bytes) => bytes[start + k] = f[k]
  BY <1>1, <1>3, FrameOf DEF FrameAt
<1>5. bytes[start + 1] = Frame(sent[r + 1])[1] /\ bytes[start + 2] = Frame(sent[r + 1])[2]
  BY <1>1, <1>4
<1> QED  BY <1>1, <1>3, <1>5 DEF HeadLen

\* A body that was read is that of a frame, and is decoded to what the item means.
LEMMA BodyRead ==
  ASSUME WireInv, Reading, field = "body", taken = start + BodyLen
  PROVE  LET i == Len(received) + 1 IN
         /\ i \in 1 .. Len(ends) /\ taken = FrameStart(ends, i + 1)
         /\ Decoded([k \in 1 .. BodyLen |-> bytes[start + k]]) = Meaning[sent[i]]
<1> DEFINE i == Len(received) + 1
           f == Frame(sent[i])
<1>0. taken = start + BodyLen  OBVIOUS
<1>1. /\ i \in 1 .. Len(ends) /\ start = FrameStart(ends, i) + 2
      /\ BodyLen \in 1 .. MaxLen /\ MaxLen \in Nat
      /\ start \in Nat /\ taken \in Nat /\ taken <= Len(bytes) /\ Len(bytes) \in Nat
  <2>1. Len(received) < Len(ends) /\ BodyLen \in 1 .. MaxLen  BY DEF WireInv, BodyInFrame
  <2>2. start = FrameStart(ends, i) + 2  BY DEF WireInv, ReaderInStep
  <2> QED  BY <2>1, <2>2, Positions, WireAssumption DEF WireInv
<1>2. FrameAt(i, f, HeadLen(f))  BY <1>1, FrameOf
<1> HIDE DEF i, f
<1>3. /\ FrameStart(ends, i) \in Nat /\ Len(f) \in Nat /\ Len(f) >= 2
      /\ \A k \in 1 .. Len(f) : FrameStart(ends, i) + k <= Len(bytes) => bytes[FrameStart(ends, i) + k] = f[k]
  BY <1>2 DEF FrameAt
<1>4. bytes[start - 1] = f[1] /\ bytes[start] = f[2]
  <2>1. start <= taken  BY Positions DEF WireInv
  <2>2. start - 1 = FrameStart(ends, i) + 1 /\ FrameStart(ends, i) + 2 <= Len(bytes)
    BY ONLY <1>1, <1>3, <2>1
  <2> QED  BY ONLY <1>1, <1>3, <2>2
<1>5. HeadLen(f) = BodyLen  BY <1>4 DEF HeadLen, BodyLen
<1>6. /\ Len(f) = 2 + BodyLen /\ FrameStart(ends, i + 1) = FrameStart(ends, i) + Len(f)
      /\ Meaning[sent[i]] = Decoded([k \in 1 .. BodyLen |-> f[2 + k]])
  BY <1>1, <1>2, <1>5 DEF FrameAt
<1>7. \A k \in 1 .. BodyLen : bytes[start + k] = f[2 + k]
  <2> TAKE k \in 1 .. BodyLen
  <2>1. k \in Nat /\ BodyLen \in Nat /\ 1 <= k /\ k <= BodyLen  BY <1>1
  <2>2. 2 + k \in 1 .. Len(f) /\ FrameStart(ends, i) + (2 + k) = start + k /\ start + k <= Len(bytes)
    <3>1. 2 + k \in 1 .. Len(f)  BY ONLY <1>3, <1>6, <2>1
    <3>2. FrameStart(ends, i) + (2 + k) = start + k  BY ONLY <1>1, <1>3, <2>1
    <3>3. start + k <= Len(bytes)  BY ONLY <1>0, <1>1, <2>1
    <3> QED  BY ONLY <3>1, <3>2, <3>3
  <2>3. FrameStart(ends, i) + (2 + k) <= Len(bytes) => bytes[FrameStart(ends, i) + (2 + k)] = f[2 + k]
    BY ONLY <1>3, <2>2
  <2> QED  BY ONLY <2>2, <2>3
<1>8. [k \in 1 .. BodyLen |-> bytes[start + k]] = [k \in 1 .. BodyLen |-> f[2 + k]]
  BY ONLY <1>7
<1>9. taken = FrameStart(ends, i + 1)  BY <1>0, <1>1, <1>3, <1>6
<1> QED  BY <1>1, <1>6, <1>8, <1>9 DEF i

-----------------------------------------------------------------------------
(* Steps.                                                                  *)

LEMMA Initially == Init => WireInv
<1> SUFFICES ASSUME Init PROVE WireInv  OBVIOUS
<1>1. Greeting \in Message /\ Greeting \in Item  BY WireAssumption DEF Item
<1>2. sent \in Seq(Item) /\ (writer = "loop" => sent \in Seq(Message))
  <2>1. CASE sent = << >> /\ writer = "foreign"  BY <2>1
  <2>2. CASE sent = <<Greeting>>  BY <1>1, <2>2
  <2>3. CASE sent = <<Greeting, Greeting>>  BY <1>1, <2>3
  <2> QED  BY <2>1, <2>2, <2>3 DEF Init
<1>3. TypeOK /\ FramesWritten /\ WriterKind
  <2>1. /\ ends = << >> /\ bytes = << >> /\ received = << >> /\ half = FALSE
        /\ writer \in {"loop", "foreign"} /\ (writer = "foreign" => sent = << >>)
        /\ flushed = 0 /\ fetched = 0 /\ taken = 0 /\ start = 0
        /\ remote_peer = "none" /\ connection = "open" /\ reader = "loop" /\ field = "delimiter"
    BY DEF Init
  <2>2. ends \in Seq(Nat) /\ bytes \in Seq(Byte) /\ received \in Seq(PeerMessage)
        /\ Len(ends) = 0 /\ Len(bytes) = 0 /\ Len(sent) \in Nat
    BY ONLY <1>2, <2>1
  <2>3. TypeOK
    <3>1. half \in BOOLEAN  BY ONLY <2>1
    <3>2. flushed \in 0 .. Len(bytes) /\ fetched \in 0 .. flushed /\ taken \in 0 .. fetched
          /\ start \in 0 .. taken /\ Len(ends) <= Len(sent)
      BY ONLY <2>1, <2>2
    <3> QED  BY ONLY <1>2, <2>1, <2>2, <3>1, <3>2 DEF TypeOK
  <2>4. FramesWritten /\ WriterKind
    BY <1>2, <2>1, <2>2 DEF FramesWritten, WriterKind, FrameStart
  <2> QED  BY <2>3, <2>4
<1>4. ReaderInStep /\ BodyInFrame  BY DEF Init, ReaderInStep, BodyInFrame, FrameStart
<1> QED  BY <1>3, <1>4 DEF WireInv

\* What was written stays as it is.
Grown ==
  /\ Len(ends) <= Len(ends)' /\ \A i \in 1 .. Len(ends) : ends'[i] = ends[i]
  /\ Len(bytes) <= Len(bytes)' /\ \A i \in 1 .. Len(bytes) : bytes'[i] = bytes[i]

LEMMA ReaderUndisturbed ==
  ASSUME WireInv, TypeOK', Grown, UNCHANGED reader_vars
  PROVE  ReaderInStep' /\ BodyInFrame'
<1> DEFINE r == Len(received)
<1> SUFFICES ASSUME Reading' PROVE ReaderInStep' /\ BodyInFrame'
  BY DEF ReaderInStep, BodyInFrame
<1>1. Reading /\ received' = received /\ start' = start /\ field' = field
  BY DEF Reading, reader_vars
<1>2. Len(ends) \in Nat /\ Len(ends)' \in Nat /\ r \in Nat  BY Positions DEF WireInv, TypeOK
<1>3. r <= Len(ends) /\ start = FrameStart(ends, r + 1) + (IF field = "delimiter" THEN 0 ELSE 2)
  BY <1>1 DEF WireInv, ReaderInStep
<1>4. FrameStart(ends', r + 1) = FrameStart(ends, r + 1)  BY <1>1, <1>2, <1>3 DEF FrameStart, Grown
<1>5. ReaderInStep'  BY <1>1, <1>2, <1>3, <1>4 DEF Grown, ReaderInStep
<1>6. ASSUME field = "body" PROVE BodyInFrame'
  <2>1. r < Len(ends) /\ BodyLen \in 1 .. MaxLen  BY <1>1, <1>6 DEF WireInv, BodyInFrame
  <2>2. start \in 1 .. Len(bytes) /\ start - 1 \in 1 .. Len(bytes)
    <3>1. start = FrameStart(ends, r + 1) + 2  BY <1>3, <1>6
    <3>2. FrameStart(ends, r + 1) \in Nat  BY <1>2, <1>3, Positions DEF WireInv
    <3> QED  BY <3>1, <3>2, Positions DEF WireInv
  <2>3. BodyLen' = BodyLen  BY <1>1, <2>2 DEF BodyLen, Grown
  <2> QED  BY <1>1, <1>2, <2>1, <2>3 DEF BodyInFrame, Grown
<1>7. field # "body" => BodyInFrame'  BY <1>1 DEF BodyInFrame
<1> QED  BY <1>5, <1>6, <1>7

LEMMA ReaderStepsKeepFrames ==
  ASSUME WireInv, UNCHANGED sender_vars
  PROVE  FramesWritten' /\ WriterKind'
BY DEF WireInv, FramesWritten, WriterKind, FrameStart, sender_vars

\* The steps that write no byte.
LEMMA QuietSteps ==
  ASSUME WireInv,
         \/ EncodingFails \/ WriteFails \/ StartThreads \/ DropPeer \/ SendThreadEnds \/ Exit
         \/ \E m \in Message : Send(m)
  PROVE  WireInv'
<1>1. UNCHANGED <<ends, half, bytes, reader_vars>> /\ flushed' \in {flushed, Len(bytes)}
  BY DEF EncodingFails, WriteFails, StartThreads, DropPeer, SendThreadEnds, Exit, Send
<1>2. \/ sent' = sent /\ (writer \in {"loop", "thread"} \/ writer' \in {writer, "ended"})
      \/ writer = "thread" /\ writer' = writer /\ \E m \in Message : sent' = Append(sent, m)
  BY DEF EncodingFails, WriteFails, StartThreads, DropPeer, SendThreadEnds, Exit, Send
<1>3. /\ sent' \in Seq(Item) /\ Len(ends) <= Len(sent')
      /\ \A i \in 1 .. Len(ends) : sent'[i] = sent[i]
  <2>1. sent \in Seq(Item) /\ Len(ends) \in Nat /\ Len(ends) <= Len(sent) /\ Message \subseteq Item
    BY Positions DEF WireInv, Item
  <2>2. CASE sent' = sent  BY <2>1, <2>2
  <2>3. CASE \E m \in Message : sent' = Append(sent, m)  BY <2>1, <2>3
  <2> QED  BY <1>2, <2>2, <2>3
<1>4. TypeOK'
  <2>1. writer' \in {"loop", "thread", "foreign", "ended"}
        /\ remote_peer' \in {"none", "listed", "dropped"}
        /\ connection' \in {"open", "closed", "reset", "lost"}
    BY DEF WireInv, TypeOK, EncodingFails, WriteFails, StartThreads, DropPeer, SendThreadEnds,
           Exit, Send
  <2> QED  BY <1>1, <1>3, <2>1, Positions DEF WireInv, TypeOK, reader_vars
<1>5. FramesWritten' /\ WriterKind'
  <2>1. writer' \in {"loop", "thread"} => sent' \in Seq(Message)
    <3>1. writer \in {"loop", "thread"} => sent \in Seq(Message)  BY DEF WireInv, WriterKind
    <3>2. CASE writer = "thread" /\ \E m \in Message : sent' = Append(sent, m)  BY <3>1, <3>2
    <3>3. CASE sent' = sent /\ (writer \in {"loop", "thread"} \/ writer' \in {writer, "ended"})
      BY <3>1, <3>3
    <3> QED  BY <1>2, <3>2, <3>3
  <2>2. writer' = "foreign" => writer = "foreign" /\ sent' = sent
    BY DEF EncodingFails, WriteFails, StartThreads, DropPeer, SendThreadEnds, Exit, Send
  <2>3. \A i \in 1 .. Len(ends) : FrameStart(ends', i) = FrameStart(ends, i)  BY <1>1 DEF FrameStart
  <2>4. FrameStart(ends', Len(ends)) = FrameStart(ends, Len(ends))
        /\ FrameStart(ends', Len(ends) + 1) = FrameStart(ends, Len(ends) + 1)
    BY <1>1 DEF FrameStart
  <2>5. Len(ends) > 0 => sent'[Len(ends)] = sent[Len(ends)]  BY <1>3, Positions DEF WireInv
  <2>6. ends' = ends /\ half' = half /\ bytes' = bytes  BY <1>1
  <2>7. FramesWritten /\ WriterKind  BY DEF WireInv
  <2>8. ASSUME NEW i \in 1 .. Len(ends)
        PROVE  Frame(sent'[i]) = Frame(sent[i]) /\ Encodable(sent'[i]) = Encodable(sent[i])
    BY <1>3
  <2>9. FramesWritten'  BY <1>3, <2>3, <2>4, <2>5, <2>6, <2>7, <2>8 DEF FramesWritten
  <2>10. WriterKind'  BY <2>1, <2>2, <2>6, <2>7 DEF WriterKind
  <2> QED  BY <2>9, <2>10
<1>6. ReaderInStep' /\ BodyInFrame'
  <2>1. Grown /\ UNCHANGED reader_vars  BY <1>1, Positions DEF Grown, WireInv
  <2> QED  BY <1>4, <2>1, ReaderUndisturbed
<1> QED  BY <1>4, <1>5, <1>6 DEF WireInv

\* Some bytes are written.
LEMMA Appended ==
  ASSUME WireInv, NEW part \in Seq(Byte), bytes' = bytes \o part
  PROVE  /\ bytes' \in Seq(Byte) /\ Len(bytes') = Len(bytes) + Len(part)
         /\ \A k \in 1 .. Len(bytes) : bytes'[k] = bytes[k]
         /\ \A k \in 1 .. Len(part) : bytes'[Len(bytes) + k] = part[k]
<1>1. bytes \in Seq(Byte)  BY DEF WireInv, TypeOK
<1> QED  BY <1>1, Concatenation

\* A frame is begun, and written as far as part.
LEMMA FrameBegun ==
  ASSUME WireInv, ~half,
         NEW x \in Item, x \in Message => Encodable(x),
         NEW part \in Seq(Byte), NEW len \in Nat, len = Len(Frame(x)),
         bytes' = bytes \o part, ends' = Append(ends, Len(bytes) + len),
         \A k \in 1 .. Len(part) : part[k] = Frame(x)[k],
         Len(ends) < Len(sent'), sent'[Len(ends) + 1] = x,
         \A i \in 1 .. Len(ends) : sent'[i] = sent[i],
         IF half' THEN Len(part) = 2 /\ x \in Message ELSE Len(part) = len
  PROVE  FramesWritten' /\ Grown
<1> DEFINE n == Len(ends)
<1>1. /\ n \in Nat /\ Len(bytes) \in Nat /\ ends \in Seq(Nat)
      /\ \A i \in 1 .. n + 1 : FrameStart(ends, i) \in Nat
  BY Positions DEF WireInv
<1>2. /\ Len(ends') = n + 1 /\ ends'[n + 1] = Len(bytes) + len
      /\ \A i \in 1 .. n : ends'[i] = ends[i]
  BY <1>1
<1>3. /\ Len(part) \in Nat /\ Len(bytes') = Len(bytes) + Len(part)
      /\ \A k \in 1 .. Len(bytes) : bytes'[k] = bytes[k]
      /\ \A k \in 1 .. Len(part) : bytes'[Len(bytes) + k] = part[k]
  BY Appended
<1>4. \A i \in 1 .. n + 1 : FrameStart(ends', i) = FrameStart(ends, i)
  BY <1>1, <1>2 DEF FrameStart
<1>5. Len(bytes) = FrameStart(ends, n + 1)  BY DEF WireInv, FramesWritten
<1>6. ASSUME NEW i \in 1 .. n
      PROVE  /\ ends'[i] = FrameStart(ends', i) + Len(Frame(sent'[i]))
             /\ ends'[i] <= Len(bytes')
             /\ sent'[i] \in Message => Encodable(sent'[i])
             /\ \A k \in 1 .. Len(Frame(sent'[i])) :
                  bytes'[FrameStart(ends', i) + k] = Frame(sent'[i])[k]
  <2>1. sent'[i] = sent[i] /\ ends'[i] = ends[i] /\ FrameStart(ends', i) = FrameStart(ends, i)
    BY <1>1, <1>2, <1>4
  <2>2. /\ ends[i] = FrameStart(ends, i) + Len(Frame(sent[i])) /\ ends[i] <= Len(bytes)
        /\ sent[i] \in Message => Encodable(sent[i])
        /\ \A k \in 1 .. Len(Frame(sent[i])) :
             FrameStart(ends, i) + k <= Len(bytes) => bytes[FrameStart(ends, i) + k] = Frame(sent[i])[k]
    BY DEF WireInv, FramesWritten
  <2>3. FrameStart(ends, i) \in Nat /\ Len(Frame(sent[i])) \in Nat  BY <1>1, FrameOf DEF FrameAt
  <2>4. ASSUME NEW k \in 1 .. Len(Frame(sent[i]))
        PROVE  bytes'[FrameStart(ends, i) + k] = Frame(sent[i])[k]
    <3>1. FrameStart(ends, i) + k \in 1 .. Len(bytes)
      <4>1. FrameStart(ends, i) + Len(Frame(sent[i])) <= Len(bytes) /\ Len(bytes) \in Nat
        BY <1>1, <2>2
      <4>2. k \in 1 .. Len(Frame(sent[i]))  OBVIOUS
      <4> QED  BY ONLY <2>3, <4>1, <4>2
    <3> QED  BY <1>3, <2>2, <3>1
  <2>5. ends[i] <= Len(bytes')  BY <1>1, <1>3, <2>2, <2>3
  <2> QED  BY <2>1, <2>2, <2>4, <2>5
<1>7. /\ ends'[n + 1] = FrameStart(ends', n + 1) + len
      /\ \A k \in 1 .. len : FrameStart(ends', n + 1) + k <= Len(bytes') =>
           bytes'[FrameStart(ends', n + 1) + k] = Frame(x)[k]
  <2>1. FrameStart(ends', n + 1) = Len(bytes)  BY <1>1, <1>4, <1>5
  <2>2. ASSUME NEW k \in 1 .. len, Len(bytes) + k <= Len(bytes')
        PROVE  bytes'[Len(bytes) + k] = Frame(x)[k]
    <3>1. k \in 1 .. Len(part)  BY <1>1, <1>3, <2>2
    <3> QED  BY <1>3, <3>1
  <2> QED  BY <1>2, <2>1, <2>2
<1>8. Len(bytes') = IF half' THEN FrameStart(ends', n + 1) + 2 ELSE ends'[n + 1]
  <2>1. n + 1 \in 1 .. n + 1  BY <1>1
  <2>2. FrameStart(ends', n + 1) = Len(bytes)  BY <1>4, <1>5, <2>1
  <2>3. CASE half'  BY <1>3, <2>2, <2>3
  <2>4. CASE ~half'  BY <1>2, <1>3, <2>4
  <2> QED  BY <2>3, <2>4
<1>9. FrameStart(ends', n + 2) = ends'[n + 1]  BY <1>1 DEF FrameStart
<1> HIDE DEF n
<1>10. ends'[n + 1] <= Len(bytes') \/ half'  BY <1>1, <1>2, <1>3, <1>8
<1>11. FramesWritten'
  <2>1. ASSUME NEW i \in 1 .. n + 1
        PROVE  /\ ends'[i] = FrameStart(ends', i) + Len(Frame(sent'[i]))
               /\ i < n + 1 \/ ~half' => ends'[i] <= Len(bytes')
               /\ sent'[i] \in Message => Encodable(sent'[i])
               /\ \A k \in 1 .. Len(Frame(sent'[i])) : FrameStart(ends', i) + k <= Len(bytes') =>
                    bytes'[FrameStart(ends', i) + k] = Frame(sent'[i])[k]
    <3>1. CASE i \in 1 .. n
      <4>1. ends'[i] <= Len(bytes')  BY <1>6, <3>1
      <4>2. ends'[i] = FrameStart(ends', i) + Len(Frame(sent'[i]))  BY <1>6, <3>1
      <4>3. sent'[i] \in Message => Encodable(sent'[i])  BY <1>6, <3>1
      <4>4. \A k \in 1 .. Len(Frame(sent'[i])) :
              bytes'[FrameStart(ends', i) + k] = Frame(sent'[i])[k]
        BY <1>6, <3>1
      <4> QED  BY <4>1, <4>2, <4>3, <4>4
    <3>2. CASE i = n + 1
      <4>1. sent'[i] = x  BY <3>2 DEF n
      <4>2. i < n + 1 \/ ~half' => ends'[i] <= Len(bytes')
        <5>1. ~(i < n + 1)  BY <1>1, <3>2
        <5> QED  BY <1>10, <3>2, <5>1
      <4>3. ends'[i] = FrameStart(ends', i) + Len(Frame(sent'[i]))  BY <1>7, <3>2, <4>1
      <4>4. \A k \in 1 .. Len(Frame(sent'[i])) : FrameStart(ends', i) + k <= Len(bytes') =>
              bytes'[FrameStart(ends', i) + k] = Frame(sent'[i])[k]
        BY <1>7, <3>2, <4>1
      <4>5. sent'[i] \in Message => Encodable(sent'[i])  BY <4>1
      <4> QED  BY ONLY <4>2, <4>3, <4>4, <4>5
    <3>3. i \in 1 .. n \/ i = n + 1  BY <1>1
    <3> QED  BY ONLY <3>1, <3>2, <3>3
  <2>2. half' => n + 1 > 0 /\ sent'[n + 1] \in Message  BY <1>1 DEF n
  <2>3. n + 1 + 1 = n + 2  BY <1>1
  <2>4. Len(bytes') = IF half' THEN FrameStart(ends', Len(ends')) + 2
                      ELSE FrameStart(ends', Len(ends') + 1)
    BY <1>2, <1>8, <1>9, <2>3
  <2>5. half' => Len(ends') > 0 /\ sent'[Len(ends')] \in Message  BY <1>2, <2>2
  <2>6. Len(ends') = n + 1  BY <1>2
  <2> QED  BY ONLY <2>1, <2>4, <2>5, <2>6 DEF FramesWritten
<1>12. Grown  BY <1>1, <1>2, <1>3 DEF Grown, n
<1> QED  BY <1>11, <1>12

LEMMA DelimiterWritten == WireInv /\ WriteDelimiter => WireInv'
<1> SUFFICES ASSUME WireInv, WriteDelimiter PROVE WireInv'  OBVIOUS
<1> DEFINE m == Upcoming
           part == encode_length_delimiter(Len(Body(m)))
<1>1. /\ writer \in {"loop", "thread"} /\ ~half /\ Len(ends) < Len(sent) /\ Encodable(m)
      /\ Write(part) /\ ends' = Append(ends, Len(bytes) + 2 + Len(Body(m))) /\ half' = TRUE
      /\ UNCHANGED <<sent, writer, remote_peer, connection, reader_vars>>
  BY DEF WriteDelimiter, Pending
<1>2. sent \in Seq(Message) /\ Len(ends) \in Nat /\ Len(bytes) \in Nat
  BY <1>1, Positions DEF WireInv, WriterKind
<1>3. m \in Message /\ m \in Item  BY <1>1, <1>2 DEF Upcoming, Item
<1> HIDE DEF m
<1>4. /\ part \in Seq(Byte) /\ Len(part) = 2 /\ Len(Body(m)) \in Nat
      /\ Len(Frame(m)) = 2 + Len(Body(m)) /\ \A k \in 1 .. 2 : Frame(m)[k] = part[k]
  BY <1>1, <1>3, MessageFrame
<1> HIDE DEF part
<1>5. bytes' = bytes \o part /\ ends' = Append(ends, Len(bytes) + Len(Frame(m)))
  <2>1. Len(bytes) + 2 + Len(Body(m)) = Len(bytes) + Len(Frame(m))  BY <1>2, <1>4
  <2> QED  BY <1>1, <2>1 DEF Write
<1>6. FramesWritten' /\ Grown
  <2>1. Len(Frame(m)) \in Nat /\ \A k \in 1 .. Len(part) : part[k] = Frame(m)[k]  BY <1>4
  <2>2. sent' = sent /\ sent[Len(ends) + 1] = m  BY <1>1 DEF m, Upcoming
  <2> QED  BY <1>1, <1>3, <1>4, <1>5, <2>1, <2>2, FrameBegun
<1>7. Len(bytes') = Len(bytes) + 2 /\ bytes' \in Seq(Byte)  BY <1>4, <1>5, Appended
<1>8. TypeOK'
  <2>1. flushed' \in {flushed, Len(bytes), Len(bytes')}  BY <1>1 DEF Write
  <2>2. ends' \in Seq(Nat) /\ Len(ends') <= Len(sent)
    BY <1>1, <1>2, <1>4, Positions DEF WireInv
  <2>3. flushed' \in 0 .. Len(bytes') /\ fetched \in 0 .. flushed'
    BY <1>2, <1>7, <2>1, Positions DEF WireInv
  <2> QED  BY <1>1, <1>7, <2>2, <2>3 DEF WireInv, TypeOK, reader_vars
<1>9. WriterKind'  BY <1>1 DEF WireInv, WriterKind
<1>10. ReaderInStep' /\ BodyInFrame'  BY <1>1, <1>6, <1>8, ReaderUndisturbed
<1> QED  BY <1>6, <1>8, <1>9, <1>10 DEF WireInv

LEMMA ForeignFrameWritten ==
  ASSUME WireInv, NEW f \in Foreign, ForeignWrites(f)
  PROVE  WireInv'
<1> DEFINE x == ForeignItem(f)
<1>1. /\ writer = "foreign" /\ sent' = Append(sent, x) /\ bytes' = bytes \o f
      /\ ends' = Append(ends, Len(bytes')) /\ flushed' = Len(bytes')
      /\ UNCHANGED <<half, writer, remote_peer, connection, reader_vars>>
  BY DEF ForeignWrites
<1>2. /\ sent \in Seq(Item) /\ Len(ends) \in Nat /\ Len(bytes) \in Nat
      /\ ~half /\ Len(ends) = Len(sent)
  BY <1>1, Positions DEF WireInv, WriterKind
<1>3. x \in Item /\ x \notin Message /\ Frame(x) = f /\ f \in Seq(Byte) /\ Len(f) \in Nat
  BY WireAssumption, BodyType DEF Item, ForeignItem, Frame
<1> HIDE DEF x
<1>4. Len(bytes') = Len(bytes) + Len(f) /\ bytes' \in Seq(Byte)  BY <1>1, <1>3, Appended
<1>5. /\ Len(sent') = Len(ends) + 1 /\ sent'[Len(ends) + 1] = x /\ sent' \in Seq(Item)
      /\ \A i \in 1 .. Len(ends) : sent'[i] = sent[i]
  BY <1>1, <1>2, <1>3
<1>6. FramesWritten' /\ Grown
  <2>1. ends' = Append(ends, Len(bytes) + Len(f)) /\ ~half' /\ Len(ends) < Len(sent')
    BY <1>1, <1>2, <1>4, <1>5
  <2> QED  BY <1>1, <1>2, <1>3, <1>5, <2>1, FrameBegun
<1>7. TypeOK'
  <2>1. ends' \in Seq(Nat) /\ Len(ends') = Len(sent')
    BY <1>1, <1>2, <1>4, <1>5, Positions DEF WireInv
  <2>2. flushed' \in 0 .. Len(bytes') /\ fetched \in 0 .. flushed'
    BY <1>1, <1>2, <1>3, <1>4, Positions DEF WireInv
  <2>3. Len(ends') <= Len(sent')  BY <1>2, <1>5, <2>1
  <2> QED  BY <1>1, <1>4, <1>5, <2>1, <2>2, <2>3 DEF WireInv, TypeOK, reader_vars
<1>8. WriterKind'
  <2>1. Len(ends') = Len(sent')  BY <1>1, <1>2, <1>5, Positions DEF WireInv
  <2> QED  BY <1>1, <1>2, <2>1 DEF WriterKind
<1>9. ReaderInStep' /\ BodyInFrame'  BY <1>1, <1>6, <1>7, ReaderUndisturbed
<1> QED  BY <1>6, <1>7, <1>8, <1>9 DEF WireInv

LEMMA BodyWritten == WireInv /\ WriteBody => WireInv'
<1> SUFFICES ASSUME WireInv, WriteBody PROVE WireInv'  OBVIOUS
<1> DEFINE n == Len(ends)
           m == sent[n]
           part == Body(m)
<1>1. /\ writer \in {"loop", "thread"} /\ half /\ Write(part) /\ half' = FALSE
      /\ UNCHANGED <<sent, ends, writer, remote_peer, connection, reader_vars>>
  BY DEF WriteBody
<1>2. n \in Nat /\ n > 0 /\ m \in Message /\ Len(bytes) = FrameStart(ends, n) + 2
  BY <1>1, Positions DEF WireInv, FramesWritten
<1>3. FramesWritten  BY DEF WireInv
<1> HIDE DEF n, m
<1>4. Encodable(m) /\ ends[n] = FrameStart(ends, n) + Len(Frame(m))
  BY <1>2, <1>3 DEF FramesWritten, m, n
<1>5. /\ part \in Seq(Byte) /\ Len(part) \in Nat /\ Len(Frame(m)) = 2 + Len(part)
      /\ \A k \in 1 .. Len(part) : Frame(m)[2 + k] = part[k]
  BY <1>2, <1>4, MessageFrame
<1> HIDE DEF part
<1>6. /\ bytes' \in Seq(Byte) /\ Len(bytes') = Len(bytes) + Len(part)
      /\ \A k \in 1 .. Len(bytes) : bytes'[k] = bytes[k]
      /\ \A k \in 1 .. Len(part) : bytes'[Len(bytes) + k] = part[k]
  BY <1>1, <1>5, Appended DEF Write
<1>7. Len(bytes) \in Nat /\ \A i \in 1 .. n : FrameStart(ends, i) \in Nat
  BY <1>2, Positions DEF WireInv, n
<1>8. ends[n] = Len(bytes') /\ FrameStart(ends, n + 1) = ends[n]
  <2>1. FrameStart(ends, n) \in Nat  BY <1>2, <1>7
  <2>2. ends[n] = Len(bytes')  BY <1>2, <1>4, <1>5, <1>6, <2>1
  <2> QED  BY <1>2, <2>2 DEF FrameStart
<1>9. ASSUME NEW i \in 1 .. n
      PROVE  /\ ends[i] = FrameStart(ends, i) + Len(Frame(sent[i]))
             /\ ends[i] <= Len(bytes')
             /\ sent[i] \in Message => Encodable(sent[i])
             /\ \A k \in 1 .. Len(Frame(sent[i])) :
                  FrameStart(ends, i) + k <= Len(bytes') =>
                    bytes'[FrameStart(ends, i) + k] = Frame(sent[i])[k]
  <2> DEFINE f == Frame(sent[i])
             s == FrameStart(ends, i)
  <2>1. /\ ends[i] = s + Len(f) /\ (sent[i] \in Message => Encodable(sent[i]))
        /\ i < n => ends[i] <= Len(bytes)
        /\ \A k \in 1 .. Len(f) : s + k <= Len(bytes) => bytes[s + k] = f[k]
    BY <1>3 DEF FramesWritten, n
  <2>2. s \in Nat /\ Len(f) \in Nat  BY <1>7, FrameOf DEF FrameAt, n
  <2> HIDE DEF f, s
  <2>3. ASSUME NEW k \in 1 .. Len(f), s + k <= Len(bytes) PROVE bytes'[s + k] = f[k]
    <3>1. s + k \in 1 .. Len(bytes)  BY <1>7, <2>2, <2>3
    <3> QED  BY <1>6, <2>1, <2>3, <3>1
  <2>4. CASE i < n
    <3>1. s + Len(f) <= Len(bytes)  BY <2>1, <2>4
    <3>2. \A k \in 1 .. Len(f) : bytes'[s + k] = f[k]
      <4> TAKE k \in 1 .. Len(f)
      <4>1. s + k <= Len(bytes)  BY <1>7, <2>2, <3>1
      <4> QED  BY <2>3, <4>1
    <3>3. ends[i] <= Len(bytes')  BY <1>5, <1>6, <1>7, <2>1, <2>2, <3>1
    <3> QED  BY <2>1, <3>2, <3>3 DEF f, s
  <2>5. CASE i = n
    <3>1. f = Frame(m) /\ s + 2 = Len(bytes) /\ Len(f) = 2 + Len(part)
      BY <1>2, <1>5, <2>5 DEF f, s, m
    <3>2. \A k \in 1 .. Len(f) : bytes'[s + k] = f[k]
      <4> TAKE k \in 1 .. Len(f)
      <4>1. CASE s + k <= Len(bytes)  BY <2>3, <4>1
      <4>2. CASE ~(s + k <= Len(bytes))
        <5>1. /\ k - 2 \in 1 .. Len(part) /\ s + k = Len(bytes) + (k - 2) /\ k = 2 + (k - 2)
          BY <1>5, <2>2, <3>1, <4>2
        <5> QED  BY <1>5, <1>6, <3>1, <5>1
      <4> QED  BY <4>1, <4>2
    <3>3. ends[i] <= Len(bytes')  BY <1>5, <1>6, <1>7, <1>8, <2>5
    <3> QED  BY <2>1, <3>2, <3>3 DEF f, s
  <2>6. i < n \/ i = n  BY <1>2
  <2> QED  BY <2>4, <2>5, <2>6
<1>10. FramesWritten' /\ Grown
  <2>1. FramesWritten'  BY <1>1, <1>8, <1>9 DEF FramesWritten, n
  <2> QED  BY <1>1, <1>2, <1>5, <1>6, <1>7, <2>1 DEF Grown, n
<1>11. TypeOK'
  <2>1. flushed' \in {flushed, Len(bytes), Len(bytes')}  BY <1>1 DEF Write
  <2>2. flushed' \in 0 .. Len(bytes') /\ fetched \in 0 .. flushed'
    <3>1. /\ flushed \in Nat /\ fetched \in Nat /\ fetched <= flushed /\ flushed <= Len(bytes)
      BY Positions DEF WireInv
    <3>2. Len(bytes') = Len(bytes) + Len(part) /\ Len(part) \in Nat /\ Len(bytes) \in Nat
      BY <1>5, <1>6, <1>7
    <3> QED  BY ONLY <2>1, <3>1, <3>2
  <2> QED  BY <1>1, <1>6, <2>2 DEF WireInv, TypeOK, reader_vars
<1>12. WriterKind'  BY <1>1 DEF WireInv, WriterKind
<1>13. ReaderInStep' /\ BodyInFrame'  BY <1>1, <1>10, <1>11, ReaderUndisturbed
<1> QED  BY <1>10, <1>11, <1>12, <1>13 DEF WireInv

LEMMA ReaderSteps ==
  ASSUME WireInv,
         \/ \E n \in 1 .. BufCap : Take(n) \/ Fetch(n)
         \/ AcceptLength \/ RefuseLength \/ RefuseMessage \/ StreamEnds \/ ReaderLeaves
  PROVE  WireInv'
<1>1. UNCHANGED <<sender_vars, received>>
  BY DEF Take, Fetch, AcceptLength, RefuseLength, RefuseMessage, StreamEnds, ReaderLeaves
<1>2. FramesWritten' /\ WriterKind'  BY <1>1, ReaderStepsKeepFrames
<1>3. CASE \E n \in 1 .. BufCap : Take(n) \/ Fetch(n)
  <2> PICK n \in 1 .. BufCap : Take(n) \/ Fetch(n)  BY <1>3
  <2>1. /\ UNCHANGED <<connection, reader, field, start>>
        /\ n \in Nat /\ taken' \in {taken, taken + n}
        /\ taken' <= fetched' /\ fetched' <= flushed /\ fetched' \in Nat
    <3>1. n \in Nat /\ n > 0  BY WireAssumption
    <3>2. /\ taken \in Nat /\ fetched \in Nat /\ flushed \in Nat
          /\ taken <= fetched /\ fetched <= flushed
      BY Positions DEF WireInv
    <3>3. CASE Take(n)  BY <3>1, <3>2, <3>3 DEF Take
    <3>4. CASE Fetch(n)  BY <3>1, <3>2, <3>4 DEF Fetch
    <3> QED  BY <3>3, <3>4
  <2>2. TypeOK'
    <3>1. /\ fetched' \in 0 .. flushed /\ taken' \in 0 .. fetched' /\ start \in 0 .. taken'
      BY <2>1, Positions DEF WireInv
    <3> QED  BY <1>1, <2>1, <3>1 DEF WireInv, TypeOK, sender_vars
  <2>3. ReaderInStep' /\ BodyInFrame'
    BY <1>1, <2>1 DEF WireInv, ReaderInStep, BodyInFrame, BodyLen, Reading, sender_vars
  <2> QED  BY <1>2, <2>2, <2>3 DEF WireInv
<1>4. CASE AcceptLength
  <2> DEFINE i == Len(received) + 1
  <2>1. /\ UNCHANGED <<connection, fetched, taken, reader>> /\ field' = "body"
        /\ start' = taken /\ taken = start + 2 /\ field = "delimiter" /\ Reading
        /\ decode_length_delimiter(bytes[start + 1], bytes[start + 2]) \in 1 .. MaxLen
    BY <1>4 DEF AcceptLength
  <2>2. i \in 1 .. Len(ends) /\ start = FrameStart(ends, i)  BY <2>1, DelimiterRead
  <2>3. TypeOK'
    <3>1. start' \in 0 .. taken  BY <2>1, Positions DEF WireInv
    <3> QED  BY <1>1, <2>1, <3>1 DEF WireInv, TypeOK, sender_vars
  <2>4. ReaderInStep' /\ Len(received') < Len(ends')
    <3>1. Len(received) < Len(ends) /\ start' = FrameStart(ends, i) + 2
      BY <2>1, <2>2, Positions DEF WireInv
    <3> QED  BY <1>1, <2>1, <3>1, Positions DEF WireInv, ReaderInStep, sender_vars
  <2>5. BodyLen' \in 1 .. MaxLen
    <3>1. start' - 1 = start + 1 /\ start' = start + 2  BY <2>1, Positions DEF WireInv
    <3> QED  BY <1>1, <2>1, <3>1 DEF BodyLen, sender_vars
  <2> QED  BY <1>2, <2>3, <2>4, <2>5 DEF WireInv, BodyInFrame
<1>5. CASE RefuseLength \/ RefuseMessage \/ StreamEnds \/ ReaderLeaves
  <2>1. /\ UNCHANGED <<fetched, taken, field, start>> /\ reader' \in {"refused", "ended"}
        /\ connection' \in {connection, "lost"}
    BY <1>5 DEF RefuseLength, RefuseMessage, StreamEnds, ReaderLeaves
  <2>2. TypeOK'  BY <1>1, <2>1 DEF WireInv, TypeOK, sender_vars
  <2>3. ~Reading'  BY <2>1 DEF Reading
  <2> QED  BY <1>2, <2>2, <2>3 DEF WireInv, ReaderInStep, BodyInFrame
<1> QED  BY <1>3, <1>4, <1>5

LEMMA MessageReadStep ==
  ASSUME WireInv, ReadMessage
  PROVE  /\ WireInv'
         /\ LET x == sent[Len(received) + 1] IN
            /\ Len(received) < Len(sent) /\ Reading
            /\ Meaning[x] # Malformed /\ received' = Append(received, Meaning[x])
<1> DEFINE i == Len(received) + 1
<1>1. /\ Reading /\ field = "body" /\ taken = start + BodyLen
      /\ Decoded([k \in 1 .. BodyLen |-> bytes[start + k]]) # Malformed
      /\ received' = Append(received, Decoded([k \in 1 .. BodyLen |-> bytes[start + k]]))
      /\ field' = "delimiter" /\ start' = taken /\ reader' \in {"thread", "ended"}
      /\ UNCHANGED <<sender_vars, connection, fetched, taken>>
  BY DEF ReadMessage
<1>2. /\ i \in 1 .. Len(ends) /\ taken = FrameStart(ends, i + 1)
      /\ Decoded([k \in 1 .. BodyLen |-> bytes[start + k]]) = Meaning[sent[i]]
  BY <1>1, BodyRead
<1>3. Meaning[sent[i]] # Malformed /\ received' = Append(received, Meaning[sent[i]])
  BY <1>1, <1>2
<1>4. sent[i] \in Item /\ Len(received) \in Nat /\ Len(received) < Len(ends)
      /\ Len(ends) <= Len(sent) /\ Len(ends) \in Nat /\ received \in Seq(PeerMessage)
      /\ taken \in Nat /\ Len(sent) \in Nat
  BY <1>2, Positions DEF WireInv
<1>5. received' \in Seq(PeerMessage) /\ Len(received') = i
  <2>1. Meaning[sent[i]] \in PeerMessage  BY <1>3, <1>4, MeaningType
  <2> QED  BY <1>3, <1>4, <2>1
<1>6. TypeOK'
  <2>1. start' \in 0 .. taken  BY <1>1, <1>4
  <2> QED  BY <1>1, <1>5, <2>1 DEF WireInv, TypeOK, sender_vars
<1>7. FramesWritten' /\ WriterKind'  BY <1>1, ReaderStepsKeepFrames
<1>8. ReaderInStep' /\ BodyInFrame'
  <2>1. i <= Len(ends) /\ start' = FrameStart(ends, i + 1) + 0  BY <1>1, <1>2, <1>4
  <2> QED  BY <1>1, <1>5, <2>1 DEF ReaderInStep, BodyInFrame, sender_vars
<1> QED  BY <1>1, <1>3, <1>4, <1>6, <1>7, <1>8 DEF WireInv

LEMMA Invariance == WireInv /\ [Next]_vars => WireInv'
<1> SUFFICES ASSUME WireInv, [Next]_vars PROVE WireInv'  OBVIOUS
<1>1. CASE WriteDelimiter  BY <1>1, DelimiterWritten
<1>2. CASE WriteBody  BY <1>2, BodyWritten
<1>3. CASE \E f \in Foreign : ForeignWrites(f)  BY <1>3, ForeignFrameWritten
<1>4. CASE \/ EncodingFails \/ WriteFails \/ StartThreads \/ DropPeer \/ SendThreadEnds \/ Exit
           \/ \E m \in Message : Send(m)
  BY <1>4, QuietSteps
<1>5. CASE \/ \E n \in 1 .. BufCap : Take(n) \/ Fetch(n)
           \/ AcceptLength \/ RefuseLength \/ RefuseMessage \/ StreamEnds \/ ReaderLeaves
  BY <1>5, ReaderSteps
<1>6. CASE ReadMessage  BY <1>6, MessageReadStep
<1>7. CASE UNCHANGED vars
  <2>1. UNCHANGED <<sender_vars, connection, reader_vars>>  BY <1>7 DEF vars
  <2>2. FramesWritten' /\ WriterKind'  BY <2>1, ReaderStepsKeepFrames
  <2>3. TypeOK'  BY <2>1 DEF WireInv, TypeOK, sender_vars, reader_vars
  <2>4. Grown  BY <2>1, Positions DEF WireInv, Grown, sender_vars
  <2>5. ReaderInStep' /\ BodyInFrame'  BY <2>1, <2>3, <2>4, ReaderUndisturbed
  <2> QED  BY <2>2, <2>3, <2>5 DEF WireInv
<1> QED  BY <1>1, <1>2, <1>3, <1>4, <1>5, <1>6, <1>7 DEF Next, WriterStep, ReaderStep

LEMMA Invariant == Spec => []WireInv
<1>1. Init => WireInv  BY Initially
<1> QED  BY <1>1, Invariance, PTL DEF Spec

\* Every variable of a connection keeps its type; nothing is read before it is
\* fetched, fetched before it is flushed, or flushed before it is written.
THEOREM TypeCorrect == Spec => []TypeOK
<1>1. WireInv => TypeOK  BY DEF WireInv
<1> QED  BY <1>1, Invariant, PTL

\* Whatever the encoding, the sizes and the chunks, the reader works on the frame
\* after those it has read (encoding.rs:230-249, remote_peer.rs:117).
THEOREM ReaderAlwaysInStep == Spec => []ReaderInStep
<1>1. WireInv => ReaderInStep  BY DEF WireInv
<1> QED  BY <1>1, Invariant, PTL

-----------------------------------------------------------------------------
(* The channel.                                                            *)

LEMMA ChannelInit == Init => Channel!Init
<1> SUFFICES ASSUME Init PROVE Channel!Init  OBVIOUS
<1>1. Greeting \in Item  BY WireAssumption DEF Item
<1>2. \/ sent = << >>
      \/ \E x \in Item : sent = <<x>> \/ sent = <<x, x>>
  BY <1>1 DEF Init
<1> QED  BY <1>2 DEF Init, Reading, Channel!Init

\* A refused frame is one that means nothing.
LEMMA Refused ==
  ASSUME WireInv, RefuseLength \/ RefuseMessage
  PROVE  /\ Reading /\ Len(received) < Len(sent)
         /\ Meaning[sent[Len(received) + 1]] = Malformed
         /\ reader' = "refused" /\ UNCHANGED <<sent, received>>
<1> DEFINE i == Len(received) + 1
<1>1. CASE RefuseLength
  <2>1. /\ i \in 1 .. Len(ends)
        /\ HeadLen(Frame(sent[i])) \notin 1 .. MaxLen
    BY <1>1, DelimiterRead DEF RefuseLength
  <2>2. FrameAt(i, Frame(sent[i]), HeadLen(Frame(sent[i])))  BY <2>1, FrameOf
  <2>3. Meaning[sent[i]] = Malformed  BY <2>1, <2>2 DEF FrameAt
  <2>4. Len(received) < Len(sent)  BY <2>1, Positions DEF WireInv
  <2> QED  BY <1>1, <2>3, <2>4 DEF RefuseLength, sender_vars
<1>2. CASE RefuseMessage
  <2>1. i \in 1 .. Len(ends) /\ Meaning[sent[i]] = Malformed
    BY <1>2, BodyRead DEF RefuseMessage
  <2>2. Len(received) < Len(sent)  BY <2>1, Positions DEF WireInv
  <2> QED  BY <1>2, <2>1, <2>2 DEF RefuseMessage, sender_vars
<1> QED  BY <1>1, <1>2

LEMMA ChannelStep == WireInv /\ [Next]_vars => [Channel!Next]_(Channel!vars)
<1> SUFFICES ASSUME WireInv, [Next]_vars PROVE [Channel!Next]_(Channel!vars)  OBVIOUS
<1> USE DEF Channel!vars
<1>1. CASE ReadMessage
  <2>1. /\ Len(received) < Len(sent) /\ Reading /\ sent' = sent
        /\ Meaning[sent[Len(received) + 1]] # Malformed
        /\ received' = Append(received, Meaning[sent[Len(received) + 1]])
        /\ reader' \in {"thread", "ended"}
    BY <1>1, MessageReadStep DEF ReadMessage, sender_vars
  <2>2. Channel!Read  BY <2>1 DEF Channel!Read, Channel!Arrived, Reading
  <2> QED  BY <2>2 DEF Channel!Next
<1>2. CASE RefuseLength \/ RefuseMessage
  <2>1. Channel!Refuse  BY <1>2, Refused DEF Channel!Refuse, Channel!Arrived, Reading
  <2> QED  BY <2>1 DEF Channel!Next
<1>3. CASE StreamEnds \/ ReaderLeaves
  <2>1. UNCHANGED <<sent, received>> /\ reader' = "ended"
    BY <1>3 DEF StreamEnds, ReaderLeaves, sender_vars
  <2>2. Channel!Break  BY <2>1 DEF Channel!Break, Reading
  <2> QED  BY <2>2 DEF Channel!Next
<1>4. CASE \E m \in Message : Send(m)
  <2>1. \E x \in Item : sent' = Append(sent, x)  BY <1>4 DEF Send, Item
  <2>2. UNCHANGED <<received, reader>>  BY <1>4 DEF Send, reader_vars
  <2> QED  BY <2>1, <2>2 DEF Channel!Next, Channel!Send, Reading
<1>5. CASE \E f \in Foreign : ForeignWrites(f)
  <2>1. \E x \in Item : sent' = Append(sent, x)  BY <1>5 DEF ForeignWrites, Item
  <2>2. UNCHANGED <<received, reader>>  BY <1>5 DEF ForeignWrites, reader_vars
  <2> QED  BY <2>1, <2>2 DEF Channel!Next, Channel!Send, Reading
<1>6. CASE \/ WriteDelimiter \/ WriteBody \/ EncodingFails \/ WriteFails \/ StartThreads
           \/ DropPeer \/ SendThreadEnds \/ Exit
           \/ (\E n \in 1 .. BufCap : Take(n) \/ Fetch(n))
           \/ UNCHANGED vars
  <2>1. UNCHANGED <<sent, received, reader>>
    BY <1>6 DEF WriteDelimiter, WriteBody, EncodingFails, WriteFails, StartThreads, DropPeer,
                SendThreadEnds, Exit, Take, Fetch, vars, sender_vars, reader_vars
  <2> QED  BY <2>1 DEF Reading
<1>7. CASE AcceptLength
  <2>1. UNCHANGED <<sent, received, reader>>  BY <1>7 DEF AcceptLength, sender_vars
  <2> QED  BY <2>1 DEF Reading
<1> QED  BY <1>1, <1>2, <1>3, <1>4, <1>5, <1>6, <1>7 DEF Next, WriterStep, ReaderStep

\* The bytes on a connection implement a channel of messages, for every encoding
\* that tells values apart (encoding.rs:55-109, 206-300, remote_peer.rs:88-141).
THEOREM ChannelImplemented == Spec => ImplementsChannel
<1>1. Init => Channel!Init  BY ChannelInit
<1>2. WireInv /\ [Next]_vars => [Channel!Next]_(Channel!vars)  BY ChannelStep
<1> QED  BY <1>1, <1>2, Invariant, PTL DEF Spec, ImplementsChannel, Channel!Spec
=============================================================================
