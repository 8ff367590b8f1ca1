----------------------------- MODULE PeerMessages -----------------------------
(***************************************************************************)
(* The messages of `singlethreaded/blocking` peers and what becomes of     *)
(* them on the way to and from a protobuf `Any`.  An address is converted  *)
(* in both directions: its IP is written as text and parsed, its port goes *)
(* from 16 bits to 32 and back.                                            *)
(***************************************************************************)
EXTENDS Naturals, Sequences

CONSTANTS
  Id,         \* ids of peers
  Ip,         \* std::net::IpAddr
  Text,       \* texts that may stand for one
  Show,       \* IpAddr::to_string
  Parse,      \* IpAddr::from_str
  NoIp,       \* its error
  PortLimit   \* bound: 2^16 in the code

ASSUME AddressAssumption ==
  /\ PortLimit \in Nat \ {0}
  /\ NoIp \notin Ip
  /\ Show \in [Ip -> Text]
  /\ Parse \in [Text -> Ip \cup {NoIp}]
  /\ \A ip \in Ip : Parse[Show[ip]] = ip

\* types::PeerAddr and its protobuf counterpart.
PeerAddr == [id : Id, ip : Ip, port : 0 .. PortLimit - 1]
WireAddr == [id : Id, ip : Text, port : 0 .. PortLimit * PortLimit - 1]

Hello(id)          == [type |-> "Hello", id |-> id]
AddressBook(addrs) == [type |-> "AddressBook", addrs |-> addrs]
AddressBookRequest == [type |-> "AddressBookRequest"]

PeerMessage ==
  [type : {"Hello"}, id : Id] \cup [type : {"AddressBook"}, addrs : Seq(PeerAddr)]
  \cup {AddressBookRequest}

\* What a reader makes of anything else.
Malformed == [type |-> "Malformed"]

-----------------------------------------------------------------------------
(* Conversions.                                                            *)

AddrToWire(addr) == [id |-> addr.id, ip |-> Show[addr.ip], port |-> addr.port]

\* Mutation: the port loses half its width.
AddrFromWireNarrow(addr) ==
  [id |-> addr.id, ip |-> Parse[addr.ip], port |-> addr.port % (PortLimit \div 2)]

\* peer_addr.port as u16 keeps the lower half of the port.
AddrFromWire(addr) ==
  [id |-> addr.id, ip |-> Parse[addr.ip], port |-> addr.port % PortLimit]

\* The value of an Any is the encoding of one protobuf message; proto says of
\* which type it can be decoded.
ToAny(msg) ==
  CASE msg.type = "Hello" ->
         [type_url |-> "PeerHello", value |-> [proto |-> "PeerHello", id |-> msg.id]]
    [] msg.type = "AddressBook" ->
         [type_url |-> "AddressBook",
          value |-> [proto |-> "AddressBook",
                     addrs |-> [i \in 1 .. Len(msg.addrs) |-> AddrToWire(msg.addrs[i])]]]
    [] OTHER -> [type_url |-> "AddressBookRequest", value |-> [proto |-> "AddressBookRequest"]]

\* What prost decodes has fields of their types.
Decodable(any) ==
  /\ any.value.proto = "AddressBook" => any.value.addrs \in Seq(WireAddr)
  /\ any.value.proto = "PeerHello" => any.value.id \in Id

\* All addresses of a book are converted, or none.
BookFromWire(addrs) ==
  IF \A i \in 1 .. Len(addrs) : Parse[addrs[i].ip] # NoIp
  THEN AddressBook([i \in 1 .. Len(addrs) |-> AddrFromWire(addrs[i])])
  ELSE Malformed

\* read_peer_message, after read_any.  The value of a request is not looked at.
FromAny(any) ==
  CASE any.type_url = "AddressBookRequest" -> AddressBookRequest
    [] any.type_url = "AddressBook" /\ any.value.proto = "AddressBook" ->
         BookFromWire(any.value.addrs)
    [] any.type_url = "PeerHello" /\ any.value.proto = "PeerHello" -> Hello(any.value.id)
    [] OTHER -> Malformed
=============================================================================
