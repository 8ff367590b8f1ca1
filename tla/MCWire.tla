-------------------------------- MODULE MCWire --------------------------------
(***************************************************************************)
(* An instance of Wire for TLC: bytes of three values, frames of up to six *)
(* bytes, so that lengths need both bytes of the delimiter and bodies look *)
(* like delimiters.                                                        *)
(***************************************************************************)
EXTENDS Wire, TLC

CONSTANTS p1, ip1, text1, badtext

Ip1Shown  == [ip \in {ip1} |-> text1]
Ip1Parsed == text1 :> ip1 @@ badtext :> NoIp

MyHello == Hello(p1)
Book    == AddressBook(<<[id |-> p1, ip |-> ip1, port |-> PortLimit - 1]>>)
BigBook == AddressBook([i \in 1 .. 3 |-> [id |-> p1, ip |-> ip1, port |-> i - 1]])
Sendable == {MyHello, Book, BigBook}

WireBook(text, port) ==
  [type_url |-> "AddressBook",
   value |-> [proto |-> "AddressBook",
              addrs |-> <<[id |-> p1, ip |-> text, port |-> port]>>]]
UnknownType == [type_url |-> "Other", value |-> [proto |-> "Other"]]
WrongValue  == [type_url |-> "PeerHello", value |-> [proto |-> "Other"]]

\* What prost makes of each Any.
Bytes ==
     ToAny(MyHello) :> <<1>> @@ ToAny(Book) :> <<0, 1, 0>>
  @@ ToAny(BigBook) :> <<1, 0, 1, 0, 1>> @@ ToAny(AddressBookRequest) :> <<2>>
  @@ WireBook(badtext, 1) :> <<2, 0>> @@ WireBook(text1, PortLimit + 1) :> <<2, 1>>
  @@ UnknownType :> <<0, 2>> @@ WrongValue :> <<2, 2>>

MCAny == DOMAIN Bytes

\* A Hello, a request, an address with a port that is too large; then lengths
\* zero and too large, bytes no Any is encoded to, and Any values that are not
\* messages.
ForeignFrames ==
  {<<1, 0, 1>>, <<1, 0, 2>>, <<2, 0, 2, 1>>, <<0, 0>>, <<2, 1>>, <<1, 0, 0>>, <<2, 0, 2, 0>>,
   <<2, 0, 0, 2>>, <<2, 0, 2, 2>>}
=============================================================================
